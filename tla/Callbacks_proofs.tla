---------------------------- MODULE Callbacks_proofs ----------------------------
(***************************************************************************)
(* Proofs about Callbacks, for every number of segments, every lists of     *)
(* callbacks and every depth to which calls are nested.                     *)
(***************************************************************************)
EXTENDS Callbacks, FiniteSetTheorems, SequenceTheorems, WellFoundedInduction, TLAPS

IsAt(i, kind) == stack[i].kind = kind

\* The values of a frame's arg.
Args == Key \union Segment \union {-1, EndOfStream}

FrameType == [kind : Kinds, arg : Args, keys : SUBSET Key]

\* A handler that is behind the final segment.
Finishing(i) == IsAt(i, "handler") /\ stack[i].arg \in {FinalSegment, EndOfStream}

-----------------------------------------------------------------------------
(* The parts of the inductive invariant.                                    *)

\* The ranges of the variables; the callback ids are bounded by the application's calls.
StateOK ==
    /\ object \subseteq Segment
    /\ isShutDown \in BOOLEAN
    /\ lastKey \in LastKey..(LastKey + acts)
    /\ acts \in 0..MaxActs
    /\ maxReported \in -1..FinalSegment
    /\ manifest \in BOOLEAN
    /\ stack \in Seq(FrameType)
    /\ heard \in [Key -> Seq(Segment \union {EndOfStream})]
    /\ changes \in Nat
    /\ told \in [Key -> Nat]
    /\ reentrant \subseteq Key

\* The callback that is called and the report that is fired.
FrameOK(f) ==
    /\ f.keys \subseteq 0..lastKey
    /\ f.kind = "app" => f.arg \in Key
    /\ f.kind = "segment" => f.arg \in Segment \union {EndOfStream}

\* No list and no copy of a list has a key that has not been given out or, if it is a
\* list, one that has been removed.
KeysOK ==
    /\ onNode \union onRoot \union onStream \union removed \subseteq 0..lastKey
    /\ removed \intersect (onNode \union onRoot \union onStream) = {}
    /\ \A i \in DOMAIN stack : FrameOK(stack[i])

\* Which call is made from within which: frame f can be at index i, with frame b below it.
Fits(i, b, f) ==
    /\ f.kind \in {"node", "root"} => i = 1 \/ b.kind = "app"
    /\ f.kind = "handler" => i > 1 /\ b.kind = "node"
    /\ f.kind = "segment" => i > 1 /\ b.kind = "handler" /\ b.arg = f.arg
    /\ f.kind = "app" => i > 1 /\ b.kind \in {"node", "root", "segment"}

CallersOK == \A i \in DOMAIN stack : Fits(i, stack[i - 1], stack[i])

\* What the handlers in progress have reported last.
HandlersOK ==
    \A i \in DOMAIN stack : IsAt(i, "handler") =>
        /\ stack[i].arg \in (-1..maxReported) \union {EndOfStream}
        /\ Finishing(i) => maxReported = FinalSegment
        /\ \A j \in DOMAIN stack : i # j /\ IsAt(j, "handler") =>
              /\ stack[i].arg = stack[j].arg => stack[i].arg = -1
              /\ ~(Finishing(i) /\ Finishing(j))

\* The calls that wait to go on to the root for callback k.
Waiting(k) == {i \in DOMAIN stack : IsAt(i, "node") \/ (IsAt(i, "root") /\ k \in stack[i].keys)}

\* Every state change has been told to callback k of the root or is on its way there.
CountsOK ==
    /\ OnRoot \ removed \subseteq onRoot
    /\ \A k \in Key :
          /\ told[k] + Cardinality(Waiting(k)) <= changes
          /\ ~isShutDown /\ k \in OnRoot \ removed => told[k] + Cardinality(Waiting(k)) = changes

\* What callback k has been called with.
Heard(k) == {heard[k][n] : n \in DOMAIN heard[k]}

\* Every segment has been reported, and no handler is about to fire the end of stream.
Past ==
    /\ maxReported = FinalSegment
    /\ \A i \in DOMAIN stack : IsAt(i, "handler") => stack[i].arg # FinalSegment

\* A report that is still on its way to a callback is not one that it has heard of.  The end
\* of stream can overtake a report only when callbacks are about to be dropped, by a handler
\* further in that has fired it.
HeardOK ==
    \A k \in Key :
        /\ Heard(k) \subseteq (0..maxReported) \union {EndOfStream}
        /\ EndOfStream \in Heard(k) => Past
        /\ \A i \in DOMAIN stack : IsAt(i, "segment") /\ k \in stack[i].keys =>
              /\ stack[i].arg \notin Heard(k)
              /\ EndOfStream \in Heard(k) /\ k \in onStream =>
                    \E j \in DOMAIN stack :
                        j > i /\ IsAt(j, "handler") /\ stack[j].arg = EndOfStream

\* What makes EachOnce inductive.
OnceInv == StateOK /\ KeysOK /\ CallersOK /\ HandlersOK /\ HeardOK /\ EachOnce

\* What makes ChangesReachRoot inductive: every change is counted or waiting.
CountInv == StateOK /\ KeysOK /\ CountsOK

\* What an onSegment callback is told n-th.
Report(n) == IF n = FinalSegment + 2 THEN EndOfStream ELSE n - 1

\* The end of stream has been fired: by a handler that is in progress, or by one that has
\* dropped its callback.
Ended ==
    \/ Handler \notin onNode
    \/ \E i \in DOMAIN stack : IsAt(i, "handler") /\ stack[i].arg = EndOfStream

\* No handler is behind the final segment when one has dropped its callback, and unless the
\* Namespace is shut down the final segment is followed by the end of stream.
EndOK ==
    /\ Handler \notin onNode => \A i \in DOMAIN stack : ~Finishing(i)
    /\ ~isShutDown /\ maxReported = FinalSegment =>
          Ended \/ \E i \in DOMAIN stack : IsAt(i, "handler") /\ stack[i].arg = FinalSegment

\* How many calls have been fired.
Fired == IF Ended THEN FinalSegment + 2 ELSE maxReported + 1

\* The callbacks that InOrder is about: no reentrant callback has a lower key.
Protected(k) == k \in OnStream \ removed /\ \A r \in reentrant : k <= r

\* An onSegment callback in progress has a lower key than those that the same report has
\* still to reach, and counts as reentrant if a call has been made from within it.
NestedOK ==
    \A i \in DOMAIN stack : i > 1 /\ IsAt(i, "app") /\ IsAt(i - 1, "segment") =>
        /\ \A k \in stack[i - 1].keys : k > stack[i].arg
        /\ i < Len(stack) => stack[i].arg \in reentrant

\* A protected callback has heard of every report that was fired, in order, but for the one
\* that is on its way to it.
InTurn(k) ==
    /\ \A n \in DOMAIN heard[k] : heard[k][n] = Report(n)
    /\ Len(heard[k]) = IF \E i \in DOMAIN stack : IsAt(i, "segment") /\ k \in stack[i].keys
                         THEN Fired - 1 ELSE Fired
    /\ ~Ended => k \in onStream
    /\ \A i \in DOMAIN stack : IsAt(i, "segment") /\ k \in stack[i].keys =>
          k \in onStream /\ stack[i].arg = Report(Fired)

\* Whatever can be reported has a handler on its way to it, unless the Namespace is shut down.
ProgressOK ==
    /\ 0..maxReported \subseteq object
    /\ maxReported < FinalSegment => Handler \in onNode
    /\ ~isShutDown /\ maxReported + 1 \in object =>
          \E i \in DOMAIN stack :
              \/ IsAt(i, "handler") /\ ~Finishing(i)
              \/ IsAt(i, "node") /\ Handler \in stack[i].keys

\* What makes InOrder inductive.
OrderInv ==
    /\ StateOK /\ KeysOK /\ CallersOK /\ HandlersOK /\ NestedOK /\ ProgressOK /\ EndOK
    /\ \A k \in Key : Protected(k) => InTurn(k)

-----------------------------------------------------------------------------
(* Facts about the data.                                                    *)

\* A set of numbers that is not empty has a smallest element.
LEMMA MinIs ==
    ASSUME NEW S \in SUBSET Nat, S # {}
    PROVE  Min(S) \in S /\ \A y \in S : Min(S) <= y
<1>1. PICK x \in S : \A y \in S : ~(<<y, x>> \in OpToRel(<, Nat))
  BY NatLessThanWellFounded, WFMin
<1>2. ASSUME NEW y \in S PROVE x <= y
  <2>1. x \in Nat /\ y \in Nat
    OBVIOUS
  <2>2. <<y, x>> \in Nat \X Nat /\ <<y, x>>[1] = y /\ <<y, x>>[2] = x
    BY <2>1
  <2>3. y < x => <<y, x>> \in OpToRel(<, Nat)
    BY <2>2 DEF OpToRel
  <2>4. ~(y < x)
    BY <1>1, <2>3
  <2>5. QED
    BY <2>1, <2>4
<1>3. QED
  BY <1>2 DEF Min

\* The fields of a frame.
Is(f, kind, arg, keys) == f.kind = kind /\ f.arg = arg /\ f.keys = keys

LEMMA FrameIs ==
    ASSUME NEW kind \in Kinds, NEW arg \in Args, NEW keys \in SUBSET Key
    PROVE  Frame(kind, arg, keys) \in FrameType /\ Is(Frame(kind, arg, keys), kind, arg, keys)
BY DEF Frame, FrameType, Is

LEMMA ExceptIs ==
    ASSUME NEW f \in FrameType, NEW arg \in Args, NEW keys \in SUBSET Key
    PROVE  /\ [f EXCEPT !.keys = keys] \in FrameType
           /\ Is([f EXCEPT !.keys = keys], f.kind, f.arg, keys)
           /\ [f EXCEPT !.arg = arg] \in FrameType
           /\ Is([f EXCEPT !.arg = arg], f.kind, arg, f.keys)
BY DEF FrameType, Is

\* What a stack t has left of the stack s below and at the index n.
Keeps(s, t, n) == \A i \in 1..n : t[i] = s[i]

Pushes(s, t, f) ==
    Len(t) = Len(s) + 1 /\ Keeps(s, t, Len(s)) /\ t[Len(s) + 1] = f

Pops(s, t) ==
    Len(t) = Len(s) - 1 /\ Keeps(s, t, Len(s) - 1)

Continues(s, t, f) ==
    Len(t) = Len(s) /\ Keeps(s, t, Len(s) - 1) /\ t[Len(s)] = f

Nests(s, t, f, g) ==
    Len(t) = Len(s) + 1 /\ Keeps(s, t, Len(s) - 1) /\ t[Len(s)] = f /\ t[Len(s) + 1] = g

LEMMA StackMoves ==
    ASSUME NEW S, NEW s \in Seq(S), NEW f \in S, NEW g \in S
    PROVE  /\ Append(s, f) \in Seq(S) /\ Pushes(s, Append(s, f), f)
           /\ s # << >> =>
                /\ Len(s) \in Nat \ {0}
                /\ Front(s) \in Seq(S) /\ Pops(s, Front(s))
                /\ LET t == [s EXCEPT ![Len(s)] = f]
                   IN  /\ t \in Seq(S) /\ Continues(s, t, f)
                       /\ Append(t, g) \in Seq(S) /\ Nests(s, Append(t, g), f, g)
<1>1. Append(s, f) \in Seq(S) /\ Pushes(s, Append(s, f), f)
  BY DEF Pushes, Keeps
<1>2. ASSUME s # << >>
      PROVE  /\ Len(s) \in Nat \ {0}
             /\ Front(s) \in Seq(S) /\ Pops(s, Front(s))
  <2>1. Len(s) \in Nat \ {0}
    BY <1>2, EmptySeq
  <2>2. \A i \in 1..(Len(s) - 1) : s[i] \in S
    BY <2>1, ElementOfSeq
  <2>3. /\ Front(s) \in Seq(S)
        /\ Len(Front(s)) = IF 1 <= Len(s) - 1 THEN Len(s) - 1 - 1 + 1 ELSE 0
        /\ \A i \in 1..(Len(s) - 1 - 1 + 1) : Front(s)[i] = s[1 + i - 1]
    BY <2>1, <2>2, SubSeqProperties DEF Front
  <2>4. \A i \in 1..(Len(s) - 1) : Front(s)[i] = s[i]
    <3>1. TAKE i \in 1..(Len(s) - 1)
    <3>2. i \in 1..(Len(s) - 1 - 1 + 1) /\ 1 + i - 1 = i
      BY <2>1
    <3>3. QED
      BY <2>3, <3>2
  <2>5. Len(Front(s)) = Len(s) - 1
    <3>1. \A n \in Nat \ {0} : (IF 1 <= n - 1 THEN n - 1 - 1 + 1 ELSE 0) = n - 1
      OBVIOUS
    <3>2. Len(Front(s)) = IF 1 <= Len(s) - 1 THEN Len(s) - 1 - 1 + 1 ELSE 0
      BY <2>3
    <3>3. QED
      BY ONLY <2>1, <3>1, <3>2
  <2>6. QED
    BY <2>1, <2>3, <2>4, <2>5 DEF Pops, Keeps
<1>3. ASSUME s # << >>, NEW t, t = [s EXCEPT ![Len(s)] = f]
      PROVE  /\ t \in Seq(S) /\ Continues(s, t, f)
             /\ Append(t, g) \in Seq(S) /\ Nests(s, Append(t, g), f, g)
  <2>0. Len(s) \in Nat \ {0} /\ Len(s) \in 1..Len(s)
    BY <1>2, <1>3
  <2>1. t \in Seq(S) /\ Len(t) = Len(s) /\ \A j \in 1..Len(s) : t[j] = IF j = Len(s) THEN f ELSE s[j]
    BY <1>3, <2>0, ExceptSeq
  <2>2. Continues(s, t, f)
    BY <2>0, <2>1 DEF Continues, Keeps
  <2>3. /\ Append(t, g) \in Seq(S)
        /\ Len(Append(t, g)) = Len(t) + 1
        /\ \A i \in 1..Len(t) : Append(t, g)[i] = t[i]
        /\ Append(t, g)[Len(t) + 1] = g
    BY <2>1, AppendProperties
  <2>4. Nests(s, Append(t, g), f, g)
    BY <2>0, <2>2, <2>3 DEF Continues, Nests, Keeps
  <2>5. QED
    BY <2>1, <2>2, <2>3, <2>4
<1>4. QED
  BY <1>1, <1>2, <1>3

-----------------------------------------------------------------------------
(* What the actions do to the stack.                                        *)

\* The innermost frame and what it is about.
LEMMA TopIs ==
    ASSUME StateOK, NEW kind, Inside(kind)
    PROVE  /\ stack # << >>
           /\ Len(stack) \in Nat \ {0}
           /\ Top \in FrameType
           /\ Top.kind = kind /\ IsAt(Len(stack), kind)
BY EmptySeq, ElementOfSeq DEF StateOK, Inside, Top, IsAt

\* The lowest of the keys that are looked at next.
LEMMA LowestKey ==
    ASSUME NEW keys \in SUBSET Key, keys # {}
    PROVE  /\ Min(keys) \in keys /\ Min(keys) \in Key
           /\ \A k \in keys : Min(keys) <= k
           /\ \A k \in keys \ {Min(keys)} : k > Min(keys)
<1>1. Key \subseteq Nat
  BY CallbacksAssumption DEF CallbacksAssumption, Key
<1>2. keys \in SUBSET Nat
  BY <1>1
<1>3. Min(keys) \in keys /\ \A k \in keys : Min(keys) <= k
  BY <1>2, MinIs
<1>4. ASSUME NEW k \in keys \ {Min(keys)} PROVE k > Min(keys)
  <2>1. k \in Nat /\ Min(keys) \in Nat /\ Min(keys) <= k /\ k # Min(keys)
    BY <1>2, <1>3
  <2>2. QED
    BY <2>1
<1>5. QED
  BY <1>3, <1>4

\* A frame that has one key less to look at, and the call that it makes.
Looks(f, g, h, keys, kind, arg) ==
    /\ Is(g, f.kind, f.arg, keys \ {Min(keys)})
    /\ Is(h, kind, arg, {})

LEMMA CallIs ==
    ASSUME StateOK, NEW keys, keys \subseteq Top.keys, keys # {}, stack # << >>,
           NEW kind \in Kinds, NEW arg \in Args,
           Call([Top EXCEPT !.keys = keys \ {Min(keys)}], Frame(kind, arg, {}))
    PROVE  /\ stack' \in Seq(FrameType)
           /\ \E g, h \in FrameType :
                 Nests(stack, stack', g, h) /\ Looks(Top, g, h, keys, kind, arg)
<1>1. Top \in FrameType
  BY EmptySeq, ElementOfSeq DEF StateOK, Top
<1>2. keys \in SUBSET Key
  BY <1>1 DEF FrameType
<1> DEFINE g == [Top EXCEPT !.keys = keys \ {Min(keys)}]
           h == Frame(kind, arg, {})
<1>3. g \in FrameType /\ Is(g, Top.kind, Top.arg, keys \ {Min(keys)})
  BY <1>1, <1>2, ExceptIs DEF Args
<1>4. h \in FrameType /\ Is(h, kind, arg, {})
  BY FrameIs
<1>5. stack' = Append([stack EXCEPT ![Len(stack)] = g], h)
  BY DEF Call
<1> HIDE DEF g, h
<1>6. stack' \in Seq(FrameType) /\ Nests(stack, stack', g, h)
  BY <1>3, <1>4, <1>5, StackMoves DEF StateOK
<1>7. QED
  BY <1>3, <1>4, <1>6 DEF Looks

LEMMA ReturnIs ==
    ASSUME StateOK, stack # << >>, Return
    PROVE  stack' \in Seq(FrameType) /\ Pops(stack, stack')
<1>1. Frame("app", -1, {}) \in FrameType
  BY FrameIs DEF Kinds, Args
<1>2. stack \in Seq(FrameType) /\ stack' = Front(stack)
  BY DEF StateOK, Return
<1>3. Front(stack) \in Seq(FrameType) /\ Pops(stack, Front(stack))
  BY <1>1, <1>2, StackMoves
<1>4. QED
  BY <1>2, <1>3

\* What the stack is after each of the library's steps.
NodeMove ==
    LET keys == Live(Top.keys, onNode) IN
    \/ /\ keys # {}
       /\ \E g, h \in FrameType :
             /\ Nests(stack, stack', g, h)
             /\ Looks(Top, g, h, keys, IF Min(keys) = Handler THEN "handler" ELSE "app",
                                       IF Min(keys) = Handler THEN -1 ELSE Min(keys))
    \/ keys = {} /\ isShutDown /\ Pops(stack, stack')
    \/ /\ keys = {} /\ ~isShutDown
       /\ \E g \in FrameType : Continues(stack, stack', g) /\ Is(g, "root", Top.arg, onRoot)

RootMove ==
    LET keys == Live(Top.keys, onRoot) IN
    \/ /\ keys # {}
       /\ \E g, h \in FrameType :
             Nests(stack, stack', g, h) /\ Looks(Top, g, h, keys, "app", Min(keys))
       /\ told' = [told EXCEPT ![Min(keys)] = @ + 1]
    \/ keys = {} /\ Pops(stack, stack') /\ told' = told

SegmentMove ==
    LET keys == Live(Top.keys, onStream) IN
    \/ /\ keys # {}
       /\ \E g, h \in FrameType :
             Nests(stack, stack', g, h) /\ Looks(Top, g, h, keys, "app", Min(keys))
       /\ heard' = [heard EXCEPT ![Min(keys)] = Append(@, Top.arg)]
    \/ keys = {} /\ Pops(stack, stack') /\ heard' = heard

\* The handler fires the calls with argument s.
Fires(s) ==
    \E g, h \in FrameType :
        /\ Nests(stack, stack', g, h)
        /\ Is(g, "handler", s, Top.keys)
        /\ Is(h, "segment", s, onStream)

\* The loop is abandoned.
AbandonedMove ==
    /\ isShutDown
    /\ Top.arg \in Segment
    /\ Pops(stack, stack')
    /\ UNCHANGED <<onNode, onStream, maxReported>>

HandlerMove ==
    \/ AbandonedMove
    \/ /\ Top.arg = FinalSegment
       /\ Fires(EndOfStream)
       /\ UNCHANGED <<onNode, onStream, maxReported>>
    \/ /\ Top.arg = EndOfStream
       /\ Pops(stack, stack')
       /\ onStream' = {}
       /\ onNode' = onNode \ {Handler}
       /\ maxReported' = maxReported
    \/ /\ Top.arg \notin {FinalSegment, EndOfStream}
       /\ maxReported + 1 \in object
       /\ maxReported' = maxReported + 1
       /\ Fires(maxReported + 1)
       /\ UNCHANGED <<onNode, onStream>>
    \/ /\ Top.arg \notin {FinalSegment, EndOfStream}
       /\ maxReported + 1 \notin object
       /\ maxReported' = maxReported
       /\ Pops(stack, stack')
       /\ UNCHANGED <<onNode, onStream>>

\* A state change starts at the node.
ReadyMove ==
    /\ \E f \in FrameType : Pushes(stack, stack', f) /\ Is(f, "node", f.arg, onNode)
    /\ changes' = changes + 1

LEMMA KeysAreKeys == ASSUME StateOK PROVE 0..lastKey \subseteq Key
BY CallbacksAssumption DEF CallbacksAssumption, StateOK, Key

LEMMA FireOnNodeIs ==
    ASSUME StateOK, KeysOK, FireOnNode
    PROVE  stack # << >> /\ Top \in FrameType /\ Top.kind = "node" /\ stack' \in Seq(FrameType)
           /\ NodeMove
<1> DEFINE keys == Live(Top.keys, onNode)
<1>1. stack # << >> /\ Top \in FrameType /\ Top.kind = "node" /\ stack \in Seq(FrameType)
  BY TopIs DEF FireOnNode, StateOK
<1>2. keys \subseteq Top.keys /\ keys \in SUBSET Key
  BY <1>1 DEF Live, FrameType
<1>3. CASE keys # {}
  <2> DEFINE kind == IF Min(keys) = Handler THEN "handler" ELSE "app"
             arg == IF Min(keys) = Handler THEN -1 ELSE Min(keys)
  <2>1. Min(keys) \in Key
    BY <1>2, <1>3, LowestKey
  <2>2. kind \in Kinds /\ arg \in Args
    BY <2>1 DEF Kinds, Args
  <2>3. Call([Top EXCEPT !.keys = keys \ {Min(keys)}], Frame(kind, arg, {}))
    BY <1>3 DEF FireOnNode
  <2> HIDE DEF keys, kind, arg
  <2>4. /\ stack' \in Seq(FrameType)
        /\ \E g, h \in FrameType :
              Nests(stack, stack', g, h) /\ Looks(Top, g, h, keys, kind, arg)
    BY <1>1, <1>2, <1>3, <2>2, <2>3, CallIs
  <2>5. QED
    BY <1>1, <1>3, <2>4 DEF NodeMove, keys, kind, arg
<1>4. CASE keys = {} /\ isShutDown
  <2>1. Return
    BY <1>4 DEF FireOnNode
  <2>2. QED
    BY <1>1, <1>4, <2>1, ReturnIs DEF NodeMove
<1>5. CASE keys = {} /\ ~isShutDown
  <2> DEFINE g == Frame("root", Top.arg, onRoot)
  <2>1. g \in FrameType /\ Is(g, "root", Top.arg, onRoot)
    BY <1>1, KeysAreKeys, FrameIs DEF KeysOK, Kinds, FrameType
  <2>2. stack' = [stack EXCEPT ![Len(stack)] = g]
    BY <1>5 DEF FireOnNode, GoOn
  <2> HIDE DEF g
  <2>3. stack' \in Seq(FrameType) /\ Continues(stack, stack', g)
    BY <1>1, <2>1, <2>2, StackMoves
  <2>4. QED
    BY <1>1, <1>5, <2>1, <2>3 DEF NodeMove
<1>6. QED
  BY <1>3, <1>4, <1>5

LEMMA FireOnRootIs ==
    ASSUME StateOK, KeysOK, FireOnRoot
    PROVE  stack # << >> /\ Top \in FrameType /\ Top.kind = "root" /\ stack' \in Seq(FrameType)
           /\ RootMove
<1> DEFINE keys == Live(Top.keys, onRoot)
<1>1. stack # << >> /\ Top \in FrameType /\ Top.kind = "root" /\ stack \in Seq(FrameType)
  BY TopIs DEF FireOnRoot, StateOK
<1>2. keys \subseteq Top.keys /\ keys \in SUBSET Key
  BY <1>1 DEF Live, FrameType
<1>3. CASE keys # {}
  <2>1. "app" \in Kinds /\ Min(keys) \in Args
    BY <1>2, <1>3, LowestKey DEF Kinds, Args
  <2>2. /\ Call([Top EXCEPT !.keys = keys \ {Min(keys)}], Frame("app", Min(keys), {}))
        /\ told' = [told EXCEPT ![Min(keys)] = @ + 1]
    BY <1>3 DEF FireOnRoot
  <2> HIDE DEF keys
  <2>3. /\ stack' \in Seq(FrameType)
        /\ \E g, h \in FrameType :
              Nests(stack, stack', g, h) /\ Looks(Top, g, h, keys, "app", Min(keys))
    BY <1>1, <1>2, <1>3, <2>1, <2>2, CallIs
  <2>4. QED
    BY <1>1, <1>3, <2>2, <2>3 DEF RootMove, keys
<1>4. CASE keys = {}
  <2>1. Return /\ told' = told
    BY <1>4 DEF FireOnRoot
  <2>2. QED
    BY <1>1, <1>4, <2>1, ReturnIs DEF RootMove
<1>5. QED
  BY <1>3, <1>4

LEMMA FireOnSegmentIs ==
    ASSUME StateOK, KeysOK, FireOnSegment
    PROVE  stack # << >> /\ Top \in FrameType /\ Top.kind = "segment" /\ stack' \in Seq(FrameType)
           /\ SegmentMove
<1> DEFINE keys == Live(Top.keys, onStream)
<1>1. stack # << >> /\ Top \in FrameType /\ Top.kind = "segment" /\ stack \in Seq(FrameType)
  BY TopIs DEF FireOnSegment, StateOK
<1>2. keys \subseteq Top.keys /\ keys \in SUBSET Key
  BY <1>1 DEF Live, FrameType
<1>3. CASE keys # {}
  <2>1. "app" \in Kinds /\ Min(keys) \in Args
    BY <1>2, <1>3, LowestKey DEF Kinds, Args
  <2>2. /\ Call([Top EXCEPT !.keys = keys \ {Min(keys)}], Frame("app", Min(keys), {}))
        /\ heard' = [heard EXCEPT ![Min(keys)] = Append(@, Top.arg)]
    BY <1>3 DEF FireOnSegment
  <2> HIDE DEF keys
  <2>3. /\ stack' \in Seq(FrameType)
        /\ \E g, h \in FrameType :
              Nests(stack, stack', g, h) /\ Looks(Top, g, h, keys, "app", Min(keys))
    BY <1>1, <1>2, <1>3, <2>1, <2>2, CallIs
  <2>4. QED
    BY <1>1, <1>3, <2>2, <2>3 DEF SegmentMove, keys
<1>4. CASE keys = {}
  <2>1. Return /\ heard' = heard
    BY <1>4 DEF FireOnSegment
  <2>2. QED
    BY <1>1, <1>4, <2>1, ReturnIs DEF SegmentMove
<1>5. QED
  BY <1>3, <1>4

LEMMA FiresIs ==
    ASSUME StateOK, KeysOK, stack # << >>, Top \in FrameType, Top.kind = "handler",
           NEW s \in Args,
           Call([Top EXCEPT !.arg = s], Frame("segment", s, onStream))
    PROVE  stack' \in Seq(FrameType) /\ Fires(s)
<1> DEFINE g == [Top EXCEPT !.arg = s]
           h == Frame("segment", s, onStream)
<1>1. g \in FrameType /\ Is(g, "handler", s, Top.keys)
  BY ExceptIs DEF FrameType, Is
<1>2. h \in FrameType /\ Is(h, "segment", s, onStream)
  BY KeysAreKeys, FrameIs DEF KeysOK, Kinds
<1>3. stack' = Append([stack EXCEPT ![Len(stack)] = g], h) /\ stack \in Seq(FrameType)
  BY DEF Call, StateOK
<1> HIDE DEF g, h
<1>4. stack' \in Seq(FrameType) /\ Nests(stack, stack', g, h)
  BY <1>1, <1>2, <1>3, StackMoves
<1>5. QED
  BY <1>1, <1>2, <1>4 DEF Fires

LEMMA OnStateChangedIs ==
    ASSUME StateOK, KeysOK, OnStateChanged
    PROVE  stack # << >> /\ Top \in FrameType /\ Top.kind = "handler" /\ stack' \in Seq(FrameType)
           /\ HandlerMove /\ manifest' \in BOOLEAN
<1>1. stack # << >> /\ Top \in FrameType /\ Top.kind = "handler"
  BY TopIs DEF OnStateChanged
<1>2. manifest' \in BOOLEAN
  BY DEF OnStateChanged, StateOK
<1>3. CASE Abandoned
  <2>1. Return /\ UNCHANGED <<onNode, onStream, maxReported>>
    BY <1>3 DEF OnStateChanged
  <2>2. isShutDown /\ Top.arg \in Segment
    BY <1>3, CallbacksAssumption DEF CallbacksAssumption, Abandoned, Segment
  <2>3. QED
    BY <1>1, <1>2, <2>1, <2>2, ReturnIs DEF HandlerMove, AbandonedMove
<1>4. ASSUME NEW s, Call([Top EXCEPT !.arg = s], Frame("segment", s, onStream)), s \in Args
      PROVE  stack' \in Seq(FrameType) /\ Fires(s)
  BY <1>1, <1>4, FiresIs
<1>5. CASE ~Abandoned /\ Top.arg = FinalSegment
  <2>1. FinalSegment # EndOfStream
    BY CallbacksAssumption DEF CallbacksAssumption
  <2>2. /\ Call([Top EXCEPT !.arg = EndOfStream], Frame("segment", EndOfStream, onStream))
        /\ UNCHANGED <<onNode, onStream, maxReported>>
    BY <1>5, <2>1 DEF OnStateChanged
  <2>3. QED
    BY <1>1, <1>2, <1>4, <1>5, <2>2 DEF HandlerMove, Args
<1>6. CASE ~Abandoned /\ Top.arg = EndOfStream
  <2>1. FinalSegment # EndOfStream
    BY CallbacksAssumption DEF CallbacksAssumption
  <2>2. Return /\ onStream' = {} /\ onNode' = onNode \ {Handler} /\ maxReported' = maxReported
    BY <1>6, <2>1 DEF OnStateChanged
  <2>3. QED
    BY <1>1, <1>2, <1>6, <2>2, ReturnIs DEF HandlerMove
<1>7. CASE ~Abandoned /\ Top.arg \notin {FinalSegment, EndOfStream} /\ maxReported + 1 \in object
  <2>1. /\ Call([Top EXCEPT !.arg = maxReported + 1],
                Frame("segment", maxReported + 1, onStream))
        /\ maxReported' = maxReported + 1
        /\ UNCHANGED <<onNode, onStream>>
    BY <1>7 DEF OnStateChanged, NextSegment
  <2>2. maxReported + 1 \in Args
    BY <1>7 DEF StateOK, Args
  <2>3. stack' \in Seq(FrameType) /\ Fires(maxReported + 1)
    BY <1>4, <2>1, <2>2
  <2>4. QED
    BY <1>1, <1>2, <1>7, <2>1, <2>3 DEF HandlerMove
<1>8. CASE ~Abandoned /\ Top.arg \notin {FinalSegment, EndOfStream} /\ maxReported + 1 \notin object
  <2>1. Return /\ maxReported' = maxReported /\ UNCHANGED <<onNode, onStream>>
    BY <1>8 DEF OnStateChanged, NextSegment
  <2>2. QED
    BY <1>1, <1>2, <1>8, <2>1, ReturnIs DEF HandlerMove
<1>9. QED
  BY <1>3, <1>5, <1>6, <1>7, <1>8

LEMMA SetReadyIs ==
    ASSUME StateOK, KeysOK, NEW s \in Segment, SetReady(s)
    PROVE  stack' \in Seq(FrameType) /\ ReadyMove
<1> DEFINE f == Frame("node", s, onNode)
<1>1. f \in FrameType /\ Is(f, "node", f.arg, onNode)
  BY KeysAreKeys, FrameIs DEF KeysOK, Kinds, Args, Is
<1>2. stack' = Append(stack, f) /\ changes' = changes + 1 /\ stack \in Seq(FrameType)
  BY DEF SetReady, StateOK
<1> HIDE DEF f
<1>3. stack' \in Seq(FrameType) /\ Pushes(stack, stack', f)
  BY <1>1, <1>2, StackMoves
<1>4. QED
  BY <1>1, <1>2, <1>3 DEF ReadyMove

LEMMA ObjectNeededIs ==
    ASSUME StateOK, KeysOK, ObjectNeeded
    PROVE  stack' \in Seq(FrameType) /\ ReadyMove
<1>1. object \in SUBSET Nat /\ object # {} /\ object \subseteq Segment
  BY CallbacksAssumption DEF CallbacksAssumption, StateOK, Segment, ObjectNeeded
<1>2. Min(object) \in Segment
  BY <1>1, MinIs
<1>3. SetReady(Min(object))
  BY DEF ObjectNeeded
<1>4. QED
  BY <1>2, <1>3, SetReadyIs

LEMMA ReturnFromCallbackIs ==
    ASSUME StateOK, ReturnFromCallback
    PROVE  /\ stack # << >> /\ Top.kind = "app" /\ stack' \in Seq(FrameType)
           /\ Pops(stack, stack')
BY TopIs, ReturnIs DEF ReturnFromCallback

-----------------------------------------------------------------------------
(* Types, and which keys there are.                                         *)

\* The frames after a step have keys that the frames before it or the lists had.
LEMMA StackKeys ==
    ASSUME StateOK, KeysOK, stack' \in Seq(FrameType), lastKey' = lastKey,
           stack' = stack \/ Pops(stack, stack')
             \/ (stack # << >> /\ Top.kind # "app"
                    /\ (NodeMove \/ RootMove \/ SegmentMove \/ HandlerMove))
             \/ ReadyMove
    PROVE  \A i \in DOMAIN stack' : FrameOK(stack'[i])
<1>1. /\ \A i \in 1..Len(stack) : FrameOK(stack[i])
      /\ onNode \subseteq 0..lastKey /\ onRoot \subseteq 0..lastKey /\ onStream \subseteq 0..lastKey
      /\ Len(stack) \in Nat /\ DOMAIN stack = 1..Len(stack)
  BY LenProperties DEF StateOK, KeysOK
<1>2. DOMAIN stack' = 1..Len(stack')
  BY LenProperties
<1>3. ASSUME stack # << >> PROVE FrameOK(Top) /\ Len(stack) \in 1..Len(stack)
  BY <1>1, <1>3, EmptySeq DEF Top, StateOK
<1>4. CASE stack' = stack \/ Pops(stack, stack')
  <2>1. CASE stack' = stack
    BY <1>1, <2>1
  <2>2. CASE Pops(stack, stack')
    <3>1. \A i \in 1..Len(stack') : i \in 1..Len(stack) /\ stack'[i] = stack[i]
      BY <1>1, <2>2 DEF Pops, Keeps
    <3>2. QED
      BY <1>1, <1>2, <3>1
  <2>3. QED
    BY <1>4, <2>1, <2>2
<1>5. ASSUME stack # << >>, NEW g, NEW h, Nests(stack, stack', g, h), FrameOK(g), FrameOK(h)
      PROVE  \A i \in DOMAIN stack' : FrameOK(stack'[i])
  <2>1. \A i \in 1..Len(stack') :
            \/ i \in 1..Len(stack) /\ stack'[i] = stack[i]
            \/ stack'[i] = g
            \/ stack'[i] = h
    BY <1>1, <1>5 DEF Nests, Keeps
  <2>2. QED
    BY <1>1, <1>2, <1>5, <2>1
<1>6. ASSUME stack # << >>, Top.kind # "app", NodeMove \/ RootMove \/ SegmentMove \/ HandlerMove
      PROVE  \A i \in DOMAIN stack' : FrameOK(stack'[i])
  <2>1. ASSUME NEW g, NEW h, NEW keys, NEW kind, NEW arg,
               keys \subseteq Top.keys, keys # {}, Looks(Top, g, h, keys, kind, arg),
               kind # "segment", kind = "app" => arg = Min(keys)
        PROVE  FrameOK(g) /\ FrameOK(h)
    <3>1. keys \in SUBSET Key
      BY <1>3, <1>6, <2>1, KeysAreKeys DEF FrameOK
    <3>2. Min(keys) \in Key
      BY <2>1, <3>1, LowestKey
    <3>3. QED
      BY <1>3, <1>6, <2>1, <3>2 DEF Looks, Is, FrameOK
  <2>2. \A list : Live(Top.keys, list) \subseteq Top.keys
    BY DEF Live
  <2>3. CASE Pops(stack, stack')
    BY <1>4, <2>3
  <2>4. CASE NodeMove /\ ~Pops(stack, stack')
    <3>1. CASE \E g \in FrameType : Continues(stack, stack', g) /\ Is(g, "root", Top.arg, onRoot)
      <4>1. PICK g \in FrameType : Continues(stack, stack', g) /\ Is(g, "root", Top.arg, onRoot)
        BY <3>1
      <4>2. \A i \in 1..Len(stack') : (i \in 1..Len(stack) /\ stack'[i] = stack[i]) \/ stack'[i] = g
        BY <1>1, <4>1 DEF Continues, Keeps
      <4>3. FrameOK(g)
        BY <1>1, <4>1 DEF FrameOK, Is
      <4>4. QED
        BY <1>1, <1>2, <4>2, <4>3
    <3>2. CASE ~(\E g \in FrameType : Continues(stack, stack', g) /\ Is(g, "root", Top.arg, onRoot))
      BY <1>5, <1>6, <2>1, <2>2, <2>4, <3>2 DEF NodeMove
    <3>3. QED
      BY <3>1, <3>2
  <2>5. CASE RootMove /\ ~Pops(stack, stack')
    BY <1>5, <1>6, <2>1, <2>2, <2>5 DEF RootMove
  <2>6. CASE SegmentMove /\ ~Pops(stack, stack')
    BY <1>5, <1>6, <2>1, <2>2, <2>6 DEF SegmentMove
  <2>7. CASE HandlerMove /\ ~Pops(stack, stack')
    <3>1. PICK s \in Segment \union {EndOfStream} : Fires(s)
      BY <2>7 DEF HandlerMove, AbandonedMove, StateOK
    <3>2. PICK g, h \in FrameType :
              /\ Nests(stack, stack', g, h)
              /\ Is(g, "handler", s, Top.keys)
              /\ Is(h, "segment", s, onStream)
      BY <3>1 DEF Fires
    <3>3. FrameOK(g) /\ FrameOK(h)
      BY <1>1, <1>3, <1>6, <3>2 DEF FrameOK, Is
    <3>4. QED
      BY <1>5, <1>6, <3>2, <3>3
  <2>8. QED
    BY <1>6, <2>3, <2>4, <2>5, <2>6, <2>7
<1>7. CASE ReadyMove
  <2>1. PICK f \in FrameType : Pushes(stack, stack', f) /\ Is(f, "node", f.arg, onNode)
    BY <1>7 DEF ReadyMove
  <2>2. \A i \in 1..Len(stack') : (i \in 1..Len(stack) /\ stack'[i] = stack[i]) \/ stack'[i] = f
    BY <1>1, <2>1 DEF Pushes, Keeps
  <2>3. FrameOK(f)
    BY <1>1, <2>1 DEF FrameOK, Is
  <2>4. QED
    BY <1>1, <1>2, <2>2, <2>3
<1>8. QED
  BY <1>4, <1>6, <1>7

LEMMA InitTypes == Init => StateOK /\ KeysOK
<1> SUFFICES ASSUME Init PROVE StateOK /\ KeysOK
  OBVIOUS
<1>1. stack \in Seq(FrameType) /\ DOMAIN stack = {}
  BY DEF Init
<1>2. StateOK
  <2>1. LastKey \in Nat /\ MaxActs \in Nat /\ FinalSegment \in Nat
    BY CallbacksAssumption DEF CallbacksAssumption
  <2>2. lastKey \in LastKey..(LastKey + acts) /\ acts \in 0..MaxActs /\ maxReported \in -1..FinalSegment
    BY <2>1 DEF Init
  <2>3. heard \in [Key -> Seq(Segment \union {EndOfStream})] /\ told \in [Key -> Nat]
    BY DEF Init
  <2>4. object \subseteq Segment /\ isShutDown \in BOOLEAN /\ changes \in Nat /\ reentrant \subseteq Key
        /\ manifest \in BOOLEAN
    BY DEF Init
  <2>5. QED
    BY <1>1, <2>2, <2>3, <2>4 DEF StateOK
<1>3. KeysOK
  BY <1>1, CallbacksAssumption DEF CallbacksAssumption, Init, KeysOK, FrameOK
<1>4. QED
  BY <1>2, <1>3

LEMMA StepTypes ==
    ASSUME StateOK, KeysOK, [Next]_vars
    PROVE  StateOK' /\ KeysOK'
<1> USE DEF lists, history
<1>0. /\ FinalSegment \in Nat /\ LastKey \in Nat /\ MaxActs \in Nat /\ Key \subseteq Nat
      /\ EndOfStream \notin Int
  BY CallbacksAssumption DEF CallbacksAssumption, Key
<1>1. CASE UNCHANGED vars
  BY <1>1 DEF vars, StateOK, KeysOK, FrameOK
<1>14. ASSUME FireOnSegment PROVE Top.arg \in Segment \union {EndOfStream}
  <2>1. stack # << >> /\ Top.kind = "segment" /\ stack \in Seq(FrameType)
    BY <1>14, FireOnSegmentIs DEF StateOK
  <2>2. Len(stack) \in DOMAIN stack
    BY <2>1, EmptySeq, LenProperties
  <2>3. QED
    BY <2>1, <2>2 DEF KeysOK, FrameOK, Top
<1>2. CASE FireOnNode
  <2>1. stack' \in Seq(FrameType) /\ stack # << >> /\ Top.kind # "app" /\ NodeMove
    BY <1>2, FireOnNodeIs
  <2>2. UNCHANGED <<object, isShutDown, lists, maxReported, manifest, history>>
    BY <1>2 DEF FireOnNode
  <2>3. \A i \in DOMAIN stack' : FrameOK(stack'[i])
    BY <2>1, <2>2, StackKeys
  <2>4. StateOK'
    BY <2>1, <2>2 DEF StateOK
  <2>5. QED
    BY <2>2, <2>3, <2>4 DEF KeysOK, FrameOK
<1>3. CASE FireOnRoot
  <2>1. stack' \in Seq(FrameType) /\ stack # << >> /\ Top.kind # "app" /\ RootMove
    BY <1>3, FireOnRootIs
  <2>2. /\ UNCHANGED <<object, isShutDown, lists, maxReported, manifest>>
        /\ UNCHANGED <<acts, heard, changes, removed, reentrant>>
    BY <1>3 DEF FireOnRoot
  <2>3. \A i \in DOMAIN stack' : FrameOK(stack'[i])
    BY <2>1, <2>2, StackKeys
  <2>4. told' \in [Key -> Nat]
    <3>1. told \in [Key -> Nat]
      BY DEF StateOK
    <3>2. told' = told \/ \E k : told' = [told EXCEPT ![k] = @ + 1]
      BY <2>1 DEF RootMove
    <3>3. ASSUME NEW k, told' = [told EXCEPT ![k] = @ + 1] PROVE told' \in [Key -> Nat]
      <4>1. CASE k \in Key
        <5>1. told[k] + 1 \in Nat
          BY <3>1, <4>1
        <5>2. QED
          BY <3>1, <3>3, <5>1
      <4>2. CASE k \notin Key
        BY <3>1, <3>3, <4>2
      <4>3. QED
        BY <4>1, <4>2
    <3>4. QED
      BY <3>1, <3>2, <3>3
  <2>5. StateOK'
    BY <2>1, <2>2, <2>4 DEF StateOK
  <2>6. QED
    BY <2>2, <2>3, <2>5 DEF KeysOK, FrameOK
<1>4. CASE FireOnSegment
  <2>1. stack' \in Seq(FrameType) /\ stack # << >> /\ Top.kind # "app" /\ SegmentMove
    BY <1>4, FireOnSegmentIs
  <2>2. /\ UNCHANGED <<object, isShutDown, lists, maxReported, manifest>>
        /\ UNCHANGED <<acts, changes, told, removed, reentrant>>
    BY <1>4 DEF FireOnSegment
  <2>3. \A i \in DOMAIN stack' : FrameOK(stack'[i])
    BY <2>1, <2>2, StackKeys
  <2>4. heard' \in [Key -> Seq(Segment \union {EndOfStream})]
    <3>1. Top.arg \in Segment \union {EndOfStream}
      BY <1>4, <1>14
    <3>2. CASE heard' = heard
      BY <3>2 DEF StateOK
    <3>3. CASE heard' # heard
      <4> DEFINE k == Min(Live(Top.keys, onStream))
      <4>1. Live(Top.keys, onStream) # {} /\ heard' = [heard EXCEPT ![k] = Append(@, Top.arg)]
        BY <2>1, <3>3 DEF SegmentMove
      <4>2. Live(Top.keys, onStream) \in SUBSET Key
        BY KeysAreKeys DEF Live, KeysOK
      <4>3. k \in Key
        BY <4>1, <4>2, LowestKey
      <4>4. Append(heard[k], Top.arg) \in Seq(Segment \union {EndOfStream})
        BY <3>1, <4>3, AppendProperties DEF StateOK
      <4>5. QED
        BY <4>1, <4>4 DEF StateOK
    <3>4. QED
      BY <3>2, <3>3
  <2>5. StateOK'
    BY <2>1, <2>2, <2>4 DEF StateOK
  <2>6. QED
    BY <2>2, <2>3, <2>5 DEF KeysOK, FrameOK
<1>5. CASE OnStateChanged
  <2>1. /\ stack' \in Seq(FrameType) /\ stack # << >> /\ Top.kind # "app"
        /\ HandlerMove /\ manifest' \in BOOLEAN
    BY <1>5, OnStateChangedIs
  <2>2. UNCHANGED <<object, isShutDown, onRoot, lastKey, history>>
    BY <1>5 DEF OnStateChanged
  <2>3. \A i \in DOMAIN stack' : FrameOK(stack'[i])
    BY <2>1, <2>2, StackKeys
  <2>4. /\ maxReported' \in -1..FinalSegment
        /\ onNode' \subseteq onNode /\ onStream' \subseteq onStream
    <3>1. maxReported + 1 \in object => maxReported + 1 \in -1..FinalSegment
      BY <1>0 DEF StateOK, Segment
    <3>2. QED
      BY <2>1, <3>1 DEF HandlerMove, AbandonedMove, StateOK
  <2>5. StateOK'
    BY <2>1, <2>2, <2>4 DEF StateOK
  <2>6. QED
    BY <2>2, <2>3, <2>4, <2>5 DEF KeysOK, FrameOK
<1>6. ASSUME NEW s \in Segment, Arrive(s) PROVE StateOK' /\ KeysOK'
  <2>1. stack' \in Seq(FrameType) /\ ReadyMove
    BY <1>6, SetReadyIs DEF Arrive
  <2>2. /\ UNCHANGED <<isShutDown, lists, maxReported, manifest>>
        /\ UNCHANGED <<acts, heard, told, removed, reentrant>>
        /\ object' = object \union {s}
    BY <1>6 DEF Arrive
  <2>3. \A i \in DOMAIN stack' : FrameOK(stack'[i])
    BY <2>1, <2>2, StackKeys
  <2>4. changes' \in Nat
    BY <2>1 DEF ReadyMove, StateOK
  <2>5. StateOK'
    BY <2>1, <2>2, <2>4 DEF StateOK
  <2>6. QED
    BY <2>2, <2>3, <2>5 DEF KeysOK, FrameOK
<1>7. ASSUME Running PROVE acts \in 0..MaxActs /\ acts' = acts + 1 /\ acts' \in 0..MaxActs
  BY <1>0, <1>7 DEF Running, StateOK
<1>8. CASE AddCallback
  <2>1. acts' = acts + 1 /\ acts \in Nat /\ acts' \in 0..MaxActs
    BY <1>0, <1>7, <1>8 DEF AddCallback
  <2>2. lastKey' = lastKey + 1 /\ lastKey \in Nat /\ lastKey' \in LastKey..(LastKey + acts')
    BY <1>0, <1>8, <2>1 DEF AddCallback, StateOK
  <2>3. 0..lastKey \subseteq 0..lastKey' /\ lastKey' \in 0..lastKey' /\ lastKey' \notin 0..lastKey
    BY <2>2
  <2>4. UNCHANGED <<object, isShutDown, maxReported, manifest, stack, heard, changes, told, removed, reentrant>>
    BY <1>8 DEF AddCallback
  <2>5. /\ onNode' \subseteq onNode \union {lastKey'}
        /\ onRoot' \subseteq onRoot \union {lastKey'}
        /\ onStream' \subseteq onStream \union {lastKey'}
    BY <1>8 DEF AddCallback
  <2>6. StateOK'
    BY <2>1, <2>2, <2>4 DEF StateOK
  <2>7. (onNode \union onRoot \union onStream \union removed)' \subseteq 0..lastKey'
    BY <2>3, <2>4, <2>5 DEF KeysOK, FrameOK
  <2>8. (removed \intersect (onNode \union onRoot \union onStream))' = {}
    BY <2>3, <2>4, <2>5 DEF KeysOK, FrameOK
  <2>9. (\A i \in DOMAIN stack : FrameOK(stack[i]))'
    BY <2>3, <2>4 DEF KeysOK, FrameOK
  <2>10. QED
    BY <2>6, <2>7, <2>8, <2>9 DEF KeysOK, FrameOK
<1>9. CASE RemoveCallback
  <2>1. acts' = acts + 1 /\ acts \in Nat /\ acts' \in 0..MaxActs
    BY <1>0, <1>7, <1>9 DEF RemoveCallback
  <2>2. UNCHANGED <<object, isShutDown, lastKey, maxReported, manifest, stack, heard, changes, told, reentrant>>
    BY <1>9 DEF RemoveCallback
  <2>3. PICK k \in (onNode \union onRoot \union onStream) \ {Handler} :
          /\ removed' = removed \union {k}
          /\ onNode' = onNode \ {k}
          /\ onRoot' = onRoot \ {k}
          /\ onStream' = onStream \ {k}
    BY <1>9 DEF RemoveCallback
  <2>4. lastKey' \in LastKey..(LastKey + acts')
    BY <1>0, <2>1, <2>2 DEF StateOK
  <2>5. StateOK'
    BY <2>1, <2>2, <2>4 DEF StateOK
  <2>6. KeysOK'
    BY <2>2, <2>3 DEF KeysOK, FrameOK
  <2>7. QED
    BY <2>5, <2>6
<1>10. CASE ObjectNeeded
  <2>1. stack' \in Seq(FrameType) /\ ReadyMove
    BY <1>10, ObjectNeededIs
  <2>2. /\ UNCHANGED <<object, isShutDown, lists, maxReported, manifest>>
        /\ UNCHANGED <<heard, told, removed>>
        /\ reentrant' = reentrant \union Calling
    BY <1>10 DEF ObjectNeeded
  <2>3. \A i \in DOMAIN stack' : FrameOK(stack'[i])
    BY <2>1, <2>2, StackKeys
  <2>4. changes' \in Nat
    BY <2>1 DEF ReadyMove, StateOK
  <2>5. acts' = acts + 1 /\ acts \in Nat /\ acts' \in 0..MaxActs
    BY <1>0, <1>7, <1>10 DEF ObjectNeeded
  <2>6. lastKey' \in LastKey..(LastKey + acts')
    BY <1>0, <2>2, <2>5 DEF StateOK
  <2>7. Calling \subseteq Key
    BY DEF Calling, KeysOK, FrameOK
  <2>8. StateOK'
    BY <2>1, <2>2, <2>4, <2>5, <2>6, <2>7 DEF StateOK
  <2>9. QED
    BY <2>2, <2>3, <2>8 DEF KeysOK, FrameOK
<1>11. CASE Shutdown
  <2>1. acts' = acts + 1 /\ acts \in Nat /\ acts' \in 0..MaxActs
    BY <1>0, <1>7, <1>11 DEF Shutdown
  <2>2. UNCHANGED <<object, lists, maxReported, manifest, stack, heard, changes, told, removed, reentrant>>
        /\ isShutDown' = TRUE
    BY <1>11 DEF Shutdown
  <2>3. lastKey' \in LastKey..(LastKey + acts')
    BY <1>0, <2>1, <2>2 DEF StateOK
  <2>4. StateOK'
    BY <2>1, <2>2, <2>3 DEF StateOK
  <2>5. QED
    BY <2>2, <2>4 DEF KeysOK, FrameOK
<1>12. CASE ReturnFromCallback
  <2>1. stack' \in Seq(FrameType) /\ Pops(stack, stack')
    BY <1>12, ReturnFromCallbackIs
  <2>2. UNCHANGED <<object, isShutDown, lists, maxReported, manifest, history>>
    BY <1>12 DEF ReturnFromCallback
  <2>3. \A i \in DOMAIN stack' : FrameOK(stack'[i])
    BY <2>1, <2>2, StackKeys
  <2>4. StateOK'
    BY <2>1, <2>2 DEF StateOK
  <2>5. QED
    BY <2>2, <2>3, <2>4 DEF KeysOK, FrameOK
<1>13. QED
  BY <1>1, <1>2, <1>3, <1>4, <1>5, <1>6, <1>8, <1>9, <1>10, <1>11, <1>12 DEF Next

\* Only a callback that is registered is called.
THEOREM CallbacksRemovedIsSilent == Spec => RemovedIsSilent
<1> USE DEF lists, history
<1>1. ASSUME StateOK, KeysOK, [Next]_vars
      PROVE  \A k \in removed : heard'[k] = heard[k] /\ told'[k] = told[k]
  <2>1. CASE FireOnRoot
    <3>1. RootMove /\ heard' = heard
      BY <1>1, <2>1, FireOnRootIs DEF FireOnRoot
    <3>2. CASE told' = told
      BY <3>1, <3>2
    <3>3. CASE told' # told
      <4> DEFINE m == Min(Live(Top.keys, onRoot))
      <4>1. Live(Top.keys, onRoot) # {} /\ told' = [told EXCEPT ![m] = @ + 1]
        BY <3>1, <3>3 DEF RootMove
      <4>2. Live(Top.keys, onRoot) \in SUBSET Key
        BY <1>1, KeysAreKeys DEF Live, KeysOK
      <4>3. m \in onRoot
        BY <4>1, <4>2, LowestKey DEF Live
      <4> HIDE DEF m
      <4>4. m \notin removed
        BY <1>1, <4>3 DEF KeysOK
      <4>5. removed \subseteq Key
        BY <1>1, KeysAreKeys DEF KeysOK
      <4>6. QED
        BY <1>1, <3>1, <4>1, <4>4, <4>5 DEF StateOK
    <3>4. QED
      BY <3>2, <3>3
  <2>2. CASE FireOnSegment
    <3>1. SegmentMove /\ told' = told
      BY <1>1, <2>2, FireOnSegmentIs DEF FireOnSegment
    <3>2. CASE heard' = heard
      BY <3>1, <3>2
    <3>3. CASE heard' # heard
      <4> DEFINE m == Min(Live(Top.keys, onStream))
      <4>1. Live(Top.keys, onStream) # {} /\ heard' = [heard EXCEPT ![m] = Append(@, Top.arg)]
        BY <3>1, <3>3 DEF SegmentMove
      <4>2. Live(Top.keys, onStream) \in SUBSET Key
        BY <1>1, KeysAreKeys DEF Live, KeysOK
      <4>3. m \in onStream
        BY <4>1, <4>2, LowestKey DEF Live
      <4> HIDE DEF m
      <4>4. m \notin removed
        BY <1>1, <4>3 DEF KeysOK
      <4>5. removed \subseteq Key
        BY <1>1, KeysAreKeys DEF KeysOK
      <4>6. QED
        BY <1>1, <3>1, <4>1, <4>4, <4>5 DEF StateOK
    <3>4. QED
      BY <3>2, <3>3
  <2>3. CASE UNCHANGED <<heard, told>>
    BY <2>3
  <2>4. QED
    BY <1>1, <2>1, <2>2, <2>3
    DEF Next, vars, FireOnNode, OnStateChanged, Arrive, AddCallback, RemoveCallback,
        ObjectNeeded, Shutdown, ReturnFromCallback
<1>2. Init => StateOK /\ KeysOK
  BY InitTypes
<1>3. StateOK /\ KeysOK /\ [Next]_vars => (StateOK /\ KeysOK)'
  BY StepTypes
<1>4. StateOK /\ KeysOK /\ [Next]_vars =>
        [\A k \in removed : heard'[k] = heard[k] /\ told'[k] = told[k]]_vars
  BY <1>1
<1>5. QED
  BY <1>2, <1>3, <1>4, PTL DEF Spec, RemovedIsSilent

-----------------------------------------------------------------------------
(* State changes and the callbacks of the root.                             *)

LEMMA WaitingIsFinite ==
    ASSUME StateOK, NEW k
    PROVE  /\ Waiting(k) \subseteq 1..Len(stack) /\ Len(stack) \in Nat
           /\ IsFiniteSet(Waiting(k)) /\ Cardinality(Waiting(k)) \in Nat
<1>1. DOMAIN stack = 1..Len(stack) /\ Len(stack) \in Nat
  BY LenProperties DEF StateOK
<1>2. Waiting(k) \subseteq 1..Len(stack)
  BY <1>1 DEF Waiting
<1>3. IsFiniteSet(1..Len(stack))
  BY <1>1, FS_Interval
<1>4. QED
  BY <1>1, <1>2, <1>3, FS_Subset, FS_CardinalityType

\* What a step does to the changes that callback k is told of: nothing; it drops the
\* innermost call; it tells callback k; there is a new one.
Settles(k) ==
    LET n == Len(stack) IN
    \/ Waiting(k)' = Waiting(k) /\ told'[k] = told[k] /\ changes' = changes
    \/ /\ Waiting(k)' = Waiting(k) \ {n} /\ told'[k] = told[k] /\ changes' = changes
       /\ isShutDown \/ k \notin onRoot \/ n \notin Waiting(k)
    \/ /\ n \in Waiting(k) /\ Waiting(k)' = Waiting(k) \ {n}
       /\ told'[k] = told[k] + 1 /\ changes' = changes
    \/ Waiting(k)' = Waiting(k) \union {n + 1} /\ told'[k] = told[k] /\ changes' = changes + 1

LEMMA StepSettles ==
    ASSUME StateOK, KeysOK, [Next]_vars, NEW k \in Key
    PROVE  Settles(k)
<1> USE DEF lists, history
<1> DEFINE n == Len(stack)
           W(f) == f.kind = "node" \/ (f.kind = "root" /\ k \in f.keys)
<1>1. /\ Waiting(k) = {i \in 1..n : W(stack[i])}
      /\ Waiting(k)' = {i \in 1..Len(stack') : W(stack'[i])}
      /\ n \in Nat
  <2>1. stack \in Seq(FrameType) /\ stack' \in Seq(FrameType)
    BY StepTypes DEF StateOK
  <2>2. QED
    BY <2>1, LenProperties DEF Waiting, IsAt
<1> HIDE DEF W
<1>2. ASSUME stack # << >> PROVE n \in Nat \ {0} /\ Top = stack[n]
  BY <1>2, EmptySeq DEF Top, StateOK
<1>3. CASE UNCHANGED <<stack, told, changes>>
  BY <1>3 DEF Settles, Waiting, IsAt
<1>4. ASSUME stack # << >>, Pops(stack, stack')
      PROVE  Waiting(k)' = Waiting(k) \ {n} /\ (W(Top) <=> n \in Waiting(k))
  BY <1>1, <1>2, <1>4 DEF Pops, Keeps
<1>5. ASSUME stack # << >>, NEW g, NEW h, Nests(stack, stack', g, h), ~W(h)
      PROVE  /\ W(g) /\ W(Top) => Waiting(k)' = Waiting(k)
             /\ ~W(g) => Waiting(k)' = Waiting(k) \ {n}
             /\ W(Top) <=> n \in Waiting(k)
  BY <1>1, <1>2, <1>5 DEF Nests, Keeps
<1>6. ASSUME NEW x, NEW S, x \notin S PROVE S \ {x} = S
  BY <1>6
<1>7. CASE FireOnNode
  <2>1. NodeMove /\ stack # << >> /\ Top.kind = "node" /\ told' = told /\ changes' = changes
    BY <1>7, FireOnNodeIs DEF FireOnNode
  <2>2. W(Top)
    BY <2>1 DEF W
  <2>3. CASE Pops(stack, stack') /\ isShutDown
    BY <1>4, <2>1, <2>3 DEF Settles
  <2>4. CASE \E g \in FrameType : Continues(stack, stack', g) /\ Is(g, "root", Top.arg, onRoot)
    <3>1. PICK g : Continues(stack, stack', g) /\ Is(g, "root", Top.arg, onRoot)
      BY <2>4
    <3>2. W(g) <=> k \in onRoot
      BY <3>1 DEF W, Is
    <3>3. IF W(g) THEN Waiting(k)' = Waiting(k) ELSE Waiting(k)' = Waiting(k) \ {n}
      BY <1>1, <1>2, <2>1, <2>2, <3>1 DEF Continues, Keeps
    <3>4. QED
      BY <2>1, <3>2, <3>3 DEF Settles
  <2>5. CASE \E g, h : /\ Nests(stack, stack', g, h)
                       /\ g.kind = Top.kind
                       /\ h.kind \in {"handler", "app"}
    <3>1. PICK g, h : Nests(stack, stack', g, h) /\ g.kind = "node" /\ h.kind \in {"handler", "app"}
      BY <2>1, <2>5
    <3>2. W(g) /\ ~W(h)
      BY <3>1 DEF W
    <3>3. Waiting(k)' = Waiting(k)
      BY <1>5, <2>1, <2>2, <3>1, <3>2
    <3>4. QED
      BY <2>1, <3>3 DEF Settles
  <2>6. QED
    BY <2>1, <2>3, <2>4, <2>5 DEF NodeMove, Looks, Is
<1>8. CASE FireOnRoot
  <2> DEFINE keys == Live(Top.keys, onRoot)
  <2>1. RootMove /\ stack # << >> /\ Top.kind = "root" /\ changes' = changes /\ Top \in FrameType
    BY <1>8, FireOnRootIs DEF FireOnRoot
  <2>2. W(Top) <=> k \in Top.keys
    BY <2>1 DEF W
  <2>3. k \in keys <=> k \in onRoot /\ k \in Top.keys
    BY DEF Live
  <2>4. CASE keys = {} /\ Pops(stack, stack') /\ told' = told
    BY <1>4, <2>1, <2>2, <2>3, <2>4 DEF Settles
  <2>5. CASE keys # {}
    <3>1. /\ \E g, h \in FrameType :
                Nests(stack, stack', g, h) /\ Looks(Top, g, h, keys, "app", Min(keys))
          /\ told' = [told EXCEPT ![Min(keys)] = @ + 1]
      BY <2>1, <2>5 DEF RootMove
    <3>2. PICK g, h \in FrameType :
              Nests(stack, stack', g, h) /\ Looks(Top, g, h, keys, "app", Min(keys))
      BY <3>1
    <3>3. ~W(h) /\ (W(g) <=> k \in keys /\ k # Min(keys))
      BY <2>1, <3>2 DEF W, Looks, Is
    <3>4. /\ W(g) /\ W(Top) => Waiting(k)' = Waiting(k)
          /\ ~W(g) => Waiting(k)' = Waiting(k) \ {n}
          /\ W(Top) <=> n \in Waiting(k)
      BY <1>5, <2>1, <3>2, <3>3
    <3>5. keys \in SUBSET Key
      BY <2>1 DEF Live, FrameType
    <3>6. Min(keys) \in keys
      BY <2>5, <3>5, LowestKey
    <3>7. told'[k] = IF k = Min(keys) THEN told[k] + 1 ELSE told[k]
      BY <3>1 DEF StateOK
    <3> HIDE DEF keys
    <3>8. CASE k = Min(keys)
      BY <2>1, <2>2, <2>3, <3>3, <3>4, <3>6, <3>7, <3>8 DEF Settles
    <3>9. CASE k # Min(keys) /\ k \in keys
      BY <2>1, <2>2, <2>3, <3>3, <3>4, <3>7, <3>9 DEF Settles
    <3>10. CASE k # Min(keys) /\ k \notin keys
      BY <2>1, <2>2, <2>3, <3>3, <3>4, <3>7, <3>10 DEF Settles
    <3>11. QED
      BY <3>8, <3>9, <3>10
  <2>6. QED
    BY <2>1, <2>4, <2>5 DEF RootMove
<1>9. ASSUME stack # << >>, Top.kind \in {"segment", "handler", "app"},
             told' = told, changes' = changes,
             \/ Pops(stack, stack')
             \/ \E g, h : /\ Nests(stack, stack', g, h)
                          /\ g.kind = Top.kind
                          /\ h.kind \in {"segment", "app"}
      PROVE  Settles(k)
  <2>1. ~W(Top)
    BY <1>9 DEF W
  <2>2. CASE Pops(stack, stack')
    <3>1. Waiting(k)' = Waiting(k)
      BY <1>4, <1>9, <2>1, <2>2
    <3>2. QED
      BY <1>9, <3>1 DEF Settles
  <2>3. CASE \E g, h : /\ Nests(stack, stack', g, h)
                       /\ g.kind = Top.kind
                       /\ h.kind \in {"segment", "app"}
    <3>1. PICK g, h : /\ Nests(stack, stack', g, h)
                      /\ g.kind = Top.kind
                      /\ h.kind \in {"segment", "app"}
      BY <2>3
    <3>2. ~W(g) /\ ~W(h)
      BY <1>9, <3>1 DEF W
    <3>3. Waiting(k)' = Waiting(k)
      BY <1>5, <1>9, <2>1, <3>1, <3>2
    <3>4. QED
      BY <1>9, <3>3 DEF Settles
  <2>4. QED
    BY <1>9, <2>2, <2>3
<1>10. CASE FireOnSegment
  <2>1. /\ SegmentMove /\ stack # << >> /\ Top.kind = "segment"
        /\ told' = told /\ changes' = changes
    BY <1>10, FireOnSegmentIs DEF FireOnSegment
  <2>2. \/ Pops(stack, stack')
        \/ \E g, h : /\ Nests(stack, stack', g, h)
                     /\ g.kind = Top.kind
                     /\ h.kind \in {"segment", "app"}
    BY <2>1 DEF SegmentMove, Looks, Is
  <2>3. QED
    BY <1>9, <2>1, <2>2
<1>11. CASE OnStateChanged
  <2>1. /\ HandlerMove /\ stack # << >> /\ Top.kind = "handler"
        /\ told' = told /\ changes' = changes
    BY <1>11, OnStateChangedIs DEF OnStateChanged
  <2>2. \/ Pops(stack, stack')
        \/ \E g, h : /\ Nests(stack, stack', g, h)
                     /\ g.kind = Top.kind
                     /\ h.kind \in {"segment", "app"}
    BY <2>1 DEF HandlerMove, AbandonedMove, Fires, Is
  <2>3. QED
    BY <1>9, <2>1, <2>2
<1>12. CASE ReturnFromCallback
  <2>1. Pops(stack, stack') /\ stack # << >> /\ Top.kind = "app" /\ told' = told /\ changes' = changes
    BY <1>12, ReturnFromCallbackIs DEF ReturnFromCallback
  <2>2. QED
    BY <1>9, <2>1
<1>13. ASSUME ReadyMove, told' = told PROVE Settles(k)
  <2>1. PICK f \in FrameType : Pushes(stack, stack', f) /\ Is(f, "node", f.arg, onNode)
    BY <1>13 DEF ReadyMove
  <2>2. W(f)
    BY <2>1 DEF W, Is
  <2>3. Waiting(k)' = Waiting(k) \union {n + 1}
    BY <1>1, <2>1, <2>2 DEF Pushes, Keeps
  <2>4. QED
    BY <1>13, <2>3 DEF ReadyMove, Settles
<1>14. ASSUME NEW s \in Segment, Arrive(s) PROVE Settles(k)
  BY <1>13, <1>14, SetReadyIs DEF Arrive
<1>15. CASE ObjectNeeded
  BY <1>13, <1>15, ObjectNeededIs DEF ObjectNeeded
<1>16. CASE AddCallback \/ RemoveCallback \/ Shutdown \/ UNCHANGED vars
  BY <1>3, <1>16 DEF AddCallback, RemoveCallback, Shutdown, vars
<1>17. QED
  BY <1>7, <1>8, <1>10, <1>11, <1>12, <1>14, <1>15, <1>16 DEF Next

\* The keys that were registered on the root from the start are there until removed.
LEMMA StepRoot ==
    ASSUME OnRoot \ removed \subseteq onRoot, [Next]_vars
    PROVE  /\ (OnRoot \ removed \subseteq onRoot)'
           /\ removed \subseteq removed'
           /\ isShutDown => isShutDown'
BY DEF lists, history, Next, vars, FireOnNode, FireOnRoot, FireOnSegment, OnStateChanged,
       Arrive, AddCallback, RemoveCallback, ObjectNeeded, Shutdown, ReturnFromCallback

LEMMA StepCounts ==
    ASSUME CountInv, [Next]_vars
    PROVE  CountInv'
<1>1. StateOK /\ KeysOK /\ CountsOK /\ StateOK' /\ KeysOK'
  BY StepTypes DEF CountInv
<1>2. /\ (OnRoot \ removed \subseteq onRoot)'
      /\ removed \subseteq removed'
      /\ isShutDown => isShutDown'
  BY <1>1, StepRoot DEF CountsOK
<1>3. ASSUME NEW k \in Key
      PROVE  /\ told'[k] + Cardinality(Waiting(k)') <= changes'
             /\ ~isShutDown /\ k \in OnRoot \ removed =>
                   told'[k] + Cardinality(Waiting(k)') = changes'
  <2> DEFINE c == Cardinality(Waiting(k))
             d == Cardinality(Waiting(k)')
             n == Len(stack)
  <2>1. c \in Nat /\ d \in Nat /\ IsFiniteSet(Waiting(k)) /\ n \in Nat /\ Waiting(k) \subseteq 1..n
    <3>1. c \in Nat /\ IsFiniteSet(Waiting(k)) /\ n \in Nat /\ Waiting(k) \subseteq 1..n
      BY <1>1, WaitingIsFinite
    <3>2. IsFiniteSet(Waiting(k)')
      <4>1. DOMAIN stack' = 1..Len(stack') /\ Len(stack') \in Nat
        BY <1>1, LenProperties DEF StateOK
      <4>2. Waiting(k)' \subseteq 1..Len(stack')
        BY <4>1 DEF Waiting
      <4>3. IsFiniteSet(1..Len(stack'))
        <5>1. Len(stack') \in Int
          BY <4>1
        <5>2. QED
          BY <5>1, FS_Interval
      <4>4. QED
        BY <4>2, <4>3, FS_Subset
    <3>3. QED
      BY <3>1, <3>2, FS_CardinalityType
  <2>2. told[k] \in Nat /\ changes \in Nat
    BY <1>1 DEF StateOK
  <2>3. /\ told[k] + c <= changes
        /\ ~isShutDown /\ k \in OnRoot \ removed => told[k] + c = changes /\ k \in onRoot
    BY <1>1 DEF CountsOK
  <2>4. Settles(k)
    BY <1>1, StepSettles
  <2>5. ASSUME Waiting(k)' = Waiting(k) \ {n}
        PROVE  d = IF n \in Waiting(k) THEN c - 1 ELSE c
    BY <2>1, <2>5, FS_RemoveElement
  <2>6. ASSUME Waiting(k)' = Waiting(k) \union {n + 1}
        PROVE  d = c + 1
    <3>1. n + 1 \notin Waiting(k)
      BY <2>1
    <3>2. QED
      BY <2>1, <2>6, <3>1, FS_AddElement
  <2>7. CASE Waiting(k)' = Waiting(k) /\ told'[k] = told[k] /\ changes' = changes
    <3>1. d = c
      BY <2>7
    <3> HIDE DEF c, d
    <3>2. QED
      BY <2>3, <2>7, <3>1 DEF c, d
  <2>8. CASE /\ Waiting(k)' = Waiting(k) \ {n} /\ told'[k] = told[k] /\ changes' = changes
             /\ isShutDown \/ k \notin onRoot \/ n \notin Waiting(k)
    <3>1. d <= c /\ (n \notin Waiting(k) => d = c)
      BY <2>1, <2>5, <2>8
    <3> HIDE DEF c, d
    <3>2. told'[k] + d <= changes'
      BY <2>1, <2>2, <2>3, <2>8, <3>1
    <3>3. ~isShutDown /\ k \in OnRoot \ removed => told'[k] + d = changes'
      BY <2>3, <2>8, <3>1
    <3>4. QED
      BY <3>2, <3>3 DEF d
  <2>9. CASE /\ n \in Waiting(k) /\ Waiting(k)' = Waiting(k) \ {n}
             /\ told'[k] = told[k] + 1 /\ changes' = changes
    <3>1. d = c - 1
      BY <2>5, <2>9
    <3> HIDE DEF c, d
    <3>2. told'[k] + d = told[k] + c
      BY <2>1, <2>2, <2>9, <3>1
    <3>3. QED
      BY <2>3, <2>9, <3>2 DEF d
  <2>10. CASE /\ Waiting(k)' = Waiting(k) \union {n + 1} /\ told'[k] = told[k]
              /\ changes' = changes + 1
    <3>1. d = c + 1
      BY <2>6, <2>10
    <3> HIDE DEF c, d
    <3>2. told'[k] + d = told[k] + c + 1
      BY <2>1, <2>2, <2>10, <3>1
    <3>3. QED
      BY <2>1, <2>2, <2>3, <2>10, <3>2 DEF d
  <2>11. QED
    BY <2>4, <2>7, <2>8, <2>9, <2>10 DEF Settles
<1>4. CountsOK'
  BY <1>2, <1>3 DEF CountsOK
<1>5. QED
  BY <1>1, <1>4 DEF CountInv

LEMMA InitCounts == Init => CountInv
<1> SUFFICES ASSUME Init PROVE CountInv
  OBVIOUS
<1>1. StateOK /\ KeysOK
  BY InitTypes
<1>2. \A k \in Key : Waiting(k) = {} /\ told[k] = 0
  BY DEF Init, Waiting
<1>3. \A k \in Key : Cardinality(Waiting(k)) = 0
  BY <1>2, FS_EmptySet
<1>4. changes = 0 /\ OnRoot \ removed \subseteq onRoot
  BY DEF Init
<1>5. CountsOK
  BY <1>2, <1>3, <1>4 DEF CountsOK
<1>6. QED
  BY <1>1, <1>5 DEF CountInv

THEOREM CallbacksCounts == Spec => []CountInv
<1>1. CountInv /\ [Next]_vars => CountInv'
  BY StepCounts
<1>2. QED
  BY <1>1, InitCounts, PTL DEF Spec

\* The types of all variables.
THEOREM CallbacksTypeOK == Spec => []TypeOK
<1>1. ASSUME CountInv PROVE TypeOK
  <2>1. StateOK /\ KeysOK /\ CountsOK
    BY <1>1 DEF CountInv
  <2>2. ASSUME NEW k \in Key PROVE told[k] \in 0..changes
    <3>1. Cardinality(Waiting(k)) \in Nat /\ told[k] \in Nat /\ changes \in Nat
      BY <2>1, WaitingIsFinite DEF StateOK
    <3>2. told[k] + Cardinality(Waiting(k)) <= changes
      BY <2>1 DEF CountsOK
    <3>3. QED
      BY <3>1, <3>2
  <2>3. told \in [Key -> 0..changes]
    BY <2>1, <2>2 DEF StateOK
  <2>4. lastKey \in Key
    <3>1. lastKey \in 0..lastKey
      BY <2>1, CallbacksAssumption DEF CallbacksAssumption, StateOK
    <3>2. QED
      BY <2>1, <3>1, KeysAreKeys
  <2>5. QED
    BY <2>1, <2>3, <2>4 DEF StateOK, KeysOK, TypeOK, FrameType, Args
<1>2. QED
  BY <1>1, CallbacksCounts, PTL

\* Whatever callbacks do while the lists are being walked along, a callback of the root is
\* told of every state change once.
THEOREM CallbacksChangesReachRoot == Spec => []ChangesReachRoot
<1>1. ASSUME CountInv PROVE ChangesReachRoot
  <2> SUFFICES ASSUME stack = << >>, ~isShutDown, NEW k \in OnRoot \ removed
               PROVE  told[k] = changes
    BY DEF ChangesReachRoot
  <2>1. k \in Key /\ told[k] \in Nat /\ StateOK
    <3>1. k \in 0..lastKey /\ StateOK
      BY <1>1 DEF CountInv, CountsOK, KeysOK
    <3>2. k \in Key
      BY <3>1, KeysAreKeys
    <3>3. QED
      BY <3>1, <3>2 DEF StateOK
  <2>2. Waiting(k) = {}
    BY DEF Waiting
  <2>3. Cardinality(Waiting(k)) = 0
    BY <2>2, FS_EmptySet
  <2>4. told[k] + Cardinality(Waiting(k)) = changes
    BY <1>1, <2>1 DEF CountInv, CountsOK
  <2>5. QED
    BY <2>1, <2>3, <2>4
<1>2. QED
  BY <1>1, CallbacksCounts, PTL

-----------------------------------------------------------------------------
(* The calls in progress.                                                   *)

\* What a step does to the stack, as far as kinds and reports go.
StackStep ==
    \/ stack' = stack /\ maxReported' = maxReported
    \/ stack # << >> /\ Pops(stack, stack') /\ maxReported' = maxReported
    \/ /\ stack = << >> \/ Top.kind = "app"
       /\ \E f : Pushes(stack, stack', f) /\ f.kind = "node"
       /\ maxReported' = maxReported
    \/ /\ stack # << >> /\ Top.kind = "node"
       /\ \E g : Continues(stack, stack', g) /\ g.kind = "root"
       /\ maxReported' = maxReported
    \/ /\ stack # << >> /\ Top.kind \in {"node", "root", "segment"}
       /\ \E g, h :
             /\ Nests(stack, stack', g, h)
             /\ g.kind = Top.kind /\ g.arg = Top.arg
             /\ h.kind = "app" \/ (Top.kind = "node" /\ h.kind = "handler" /\ h.arg = -1)
       /\ maxReported' = maxReported
    \/ /\ stack # << >> /\ Top.kind = "handler"
       /\ \E s :
             /\ \E g, h : /\ Nests(stack, stack', g, h)
                          /\ g.kind = "handler" /\ g.arg = s
                          /\ h.kind = "segment" /\ h.arg = s
             /\ \/ Top.arg = FinalSegment /\ s = EndOfStream /\ maxReported' = maxReported
                \/ maxReported + 1 \in object /\ s = maxReported + 1 /\ maxReported' = s

LEMMA StackStepIs ==
    ASSUME StateOK, KeysOK, [Next]_vars
    PROVE  StackStep
<1> USE DEF lists, history
<1>1. CASE FireOnNode
  <2>1. NodeMove /\ stack # << >> /\ Top.kind = "node" /\ maxReported' = maxReported
    BY <1>1, FireOnNodeIs DEF FireOnNode
  <2>2. \/ Pops(stack, stack')
        \/ \E g : Continues(stack, stack', g) /\ g.kind = "root"
        \/ \E g, h : /\ Nests(stack, stack', g, h)
                     /\ g.kind = Top.kind /\ g.arg = Top.arg
                     /\ h.kind = "app" \/ (h.kind = "handler" /\ h.arg = -1)
    BY <2>1 DEF NodeMove, Looks, Is
  <2>3. QED
    BY <2>1, <2>2 DEF StackStep
<1>2. CASE FireOnRoot
  <2>1. RootMove /\ stack # << >> /\ Top.kind = "root" /\ maxReported' = maxReported
    BY <1>2, FireOnRootIs DEF FireOnRoot
  <2>2. \/ Pops(stack, stack')
        \/ \E g, h : /\ Nests(stack, stack', g, h)
                     /\ g.kind = Top.kind /\ g.arg = Top.arg /\ h.kind = "app"
    BY <2>1 DEF RootMove, Looks, Is
  <2>3. QED
    BY <2>1, <2>2 DEF StackStep
<1>3. CASE FireOnSegment
  <2>1. SegmentMove /\ stack # << >> /\ Top.kind = "segment" /\ maxReported' = maxReported
    BY <1>3, FireOnSegmentIs DEF FireOnSegment
  <2>2. \/ Pops(stack, stack')
        \/ \E g, h : /\ Nests(stack, stack', g, h)
                     /\ g.kind = Top.kind /\ g.arg = Top.arg /\ h.kind = "app"
    BY <2>1 DEF SegmentMove, Looks, Is
  <2>3. QED
    BY <2>1, <2>2 DEF StackStep
<1>4. CASE OnStateChanged
  <2>1. HandlerMove /\ stack # << >> /\ Top.kind = "handler"
    BY <1>4, OnStateChangedIs
  <2>2. \A s : Fires(s) => \E g, h : /\ Nests(stack, stack', g, h)
                                     /\ g.kind = "handler" /\ g.arg = s
                                     /\ h.kind = "segment" /\ h.arg = s
    BY DEF Fires, Is
  <2>3. QED
    BY <2>1, <2>2 DEF HandlerMove, AbandonedMove, StackStep
<1>5. ASSUME ReadyMove, stack = << >> \/ Inside("app"), maxReported' = maxReported
      PROVE  StackStep
  <2>1. stack = << >> \/ Top.kind = "app"
    BY <1>5 DEF Inside
  <2>2. \E f : Pushes(stack, stack', f) /\ f.kind = "node"
    BY <1>5 DEF ReadyMove, Is
  <2>3. QED
    BY <1>5, <2>1, <2>2 DEF StackStep
<1>6. ASSUME NEW s \in Segment, Arrive(s) PROVE StackStep
  BY <1>5, <1>6, SetReadyIs DEF Arrive
<1>7. CASE ObjectNeeded
  BY <1>5, <1>7, ObjectNeededIs DEF ObjectNeeded, Running
<1>8. CASE ReturnFromCallback
  BY <1>8, ReturnFromCallbackIs DEF ReturnFromCallback, StackStep
<1>9. CASE AddCallback \/ RemoveCallback \/ Shutdown \/ UNCHANGED vars
  BY <1>9 DEF AddCallback, RemoveCallback, Shutdown, vars, StackStep
<1>10. QED
  BY <1>1, <1>2, <1>3, <1>4, <1>6, <1>7, <1>8, <1>9 DEF Next

LEMMA StepCallers ==
    ASSUME StateOK, KeysOK, CallersOK, [Next]_vars
    PROVE  CallersOK'
<1> DEFINE n == Len(stack)
<1>1. /\ n \in Nat /\ DOMAIN stack = 1..n /\ DOMAIN stack' = 1..Len(stack')
      /\ stack # << >> => n > 0 /\ Top = stack[n]
      /\ stack = << >> => n = 0
  <2>1. stack \in Seq(FrameType) /\ stack' \in Seq(FrameType)
    BY StepTypes DEF StateOK
  <2>2. QED
    BY <2>1, LenProperties, EmptySeq DEF Top
<1>2. \A i \in 1..n : Fits(i, stack[i - 1], stack[i])
  BY <1>1 DEF CallersOK
<1>3. StackStep
  BY StackStepIs
<1> HIDE DEF n
<1>4. CASE stack' = stack
  BY <1>4 DEF CallersOK
<1>5. CASE stack # << >> /\ Pops(stack, stack')
  <2>1. \A i \in 1..Len(stack') :
            i \in 1..n /\ stack'[i] = stack[i] /\ (i = 1 \/ stack'[i - 1] = stack[i - 1])
    BY <1>1, <1>5 DEF Pops, Keeps, n
  <2>2. \A i \in 1..Len(stack') : Fits(i, stack'[i - 1], stack'[i])
    BY <1>2, <2>1 DEF Fits
  <2>3. QED
    BY <1>1, <2>2 DEF CallersOK
<1>6. ASSUME NEW f, Pushes(stack, stack', f), f.kind = "node", stack = << >> \/ Top.kind = "app"
      PROVE  CallersOK'
  <2>1. \A i \in 1..Len(stack') :
            \/ i \in 1..n /\ stack'[i] = stack[i] /\ (i = 1 \/ stack'[i - 1] = stack[i - 1])
            \/ i = n + 1 /\ stack'[i] = f /\ (i = 1 \/ stack'[i - 1].kind = "app")
    BY <1>1, <1>6 DEF Pushes, Keeps, n
  <2>2. \A i \in 1..Len(stack') : Fits(i, stack'[i - 1], stack'[i])
    BY <1>2, <1>6, <2>1 DEF Fits
  <2>3. QED
    BY <1>1, <2>2 DEF CallersOK
<1>7. ASSUME stack # << >>, NEW g, Continues(stack, stack', g), Top.kind = "node", g.kind = "root"
      PROVE  CallersOK'
  <2>1. \A i \in 1..Len(stack') :
            /\ i \in 1..n
            /\ i = 1 \/ stack'[i - 1] = stack[i - 1]
            /\ stack'[i] = stack[i] \/ (i = n /\ stack'[i] = g)
    <3>1. n > 0 /\ Len(stack') = n
      BY <1>1, <1>7 DEF Continues, n
    <3>2. /\ \A i \in 1..(n - 1) : stack'[i] = stack[i]
          /\ stack'[n] = g
      BY <1>7 DEF Continues, Keeps, n
    <3>3. \A i \in 1..Len(stack') :
              (i \in 1..(n - 1) \/ i = n) /\ (i = 1 \/ i - 1 \in 1..(n - 1))
      BY <1>1, <3>1
    <3>4. QED
      BY <1>1, <3>1, <3>2, <3>3
  <2>2. \A i \in 1..Len(stack') : Fits(i, stack'[i - 1], stack'[i])
    BY <1>1, <1>2, <1>7, <2>1 DEF Fits
  <2>3. QED
    BY <1>1, <2>2 DEF CallersOK
<1>8. ASSUME stack # << >>, NEW g, NEW h, Nests(stack, stack', g, h),
             g.kind = Top.kind, g.kind = "segment" => g.arg = Top.arg, Fits(n + 1, g, h)
      PROVE  CallersOK'
  <2>1. \A i \in 1..Len(stack') :
            \/ /\ i \in 1..n
               /\ i = 1 \/ stack'[i - 1] = stack[i - 1]
               /\ stack'[i] = stack[i] \/ (i = n /\ stack'[i] = g)
            \/ i = n + 1 /\ stack'[i - 1] = g /\ stack'[i] = h
    <3>1. n > 0 /\ Len(stack') = n + 1
      BY <1>1, <1>8 DEF Nests, n
    <3>2. /\ \A i \in 1..(n - 1) : stack'[i] = stack[i]
          /\ stack'[n] = g /\ stack'[n + 1] = h
      BY <1>8 DEF Nests, Keeps, n
    <3>3. \A i \in 1..Len(stack') :
              \/ i \in 1..(n - 1) /\ (i = 1 \/ i - 1 \in 1..(n - 1))
              \/ i = n /\ (i = 1 \/ i - 1 \in 1..(n - 1))
              \/ i = n + 1 /\ i - 1 = n
      BY <1>1, <3>1
    <3>4. QED
      BY <1>1, <3>1, <3>2, <3>3
  <2>2. \A i \in 1..Len(stack') : Fits(i, stack'[i - 1], stack'[i])
    <3>1. TAKE i \in 1..Len(stack')
    <3>2. CASE i = n + 1 /\ stack'[i - 1] = g /\ stack'[i] = h
      BY <1>8, <3>2
    <3>3. CASE i \in 1..n /\ (i = 1 \/ stack'[i - 1] = stack[i - 1]) /\ stack'[i] = stack[i]
      <4>1. Fits(i, stack[i - 1], stack[i])
        BY <1>2, <3>3
      <4>2. QED
        BY <3>3, <4>1 DEF Fits
    <3>4. CASE i = n /\ i \in 1..n /\ (i = 1 \/ stack'[i - 1] = stack[i - 1]) /\ stack'[i] = g
      <4>1. Fits(i, stack[i - 1], Top)
        BY <1>1, <1>2, <1>8, <3>4
      <4>2. QED
        BY <1>8, <3>4, <4>1 DEF Fits
    <3>5. QED
      BY <2>1, <3>2, <3>3, <3>4
  <2>3. QED
    BY <1>1, <2>2 DEF CallersOK
<1>9. ASSUME stack # << >> PROVE n + 1 > 1
  BY <1>1, <1>9
<1>10. ASSUME stack # << >>, Top.kind \in {"node", "root", "segment"}, NEW g, NEW h,
              Nests(stack, stack', g, h), g.kind = Top.kind, g.arg = Top.arg,
              h.kind = "app" \/ (Top.kind = "node" /\ h.kind = "handler" /\ h.arg = -1)
       PROVE  CallersOK'
  <2>1. Fits(n + 1, g, h)
    BY <1>9, <1>10 DEF Fits
  <2>2. QED
    BY <1>8, <1>10, <2>1
<1>11. ASSUME stack # << >>, Top.kind = "handler", NEW s, NEW g, NEW h,
              Nests(stack, stack', g, h), g.kind = "handler", g.arg = s,
              h.kind = "segment", h.arg = s
       PROVE  CallersOK'
  <2>1. Fits(n + 1, g, h)
    BY <1>9, <1>11 DEF Fits
  <2>2. QED
    BY <1>8, <1>11, <2>1
<1>12. QED
  BY <1>3, <1>4, <1>5, <1>6, <1>7, <1>10, <1>11 DEF StackStep

LEMMA StepHandlers ==
    ASSUME StateOK, KeysOK, HandlersOK, [Next]_vars
    PROVE  HandlersOK'
<1> DEFINE n == Len(stack)
           IsH(f) == f.kind = "handler"
           Fin(a) == a \in {FinalSegment, EndOfStream}
           Of(S, max) ==
               \A i \in DOMAIN S : IsH(S[i]) =>
                  /\ S[i].arg \in (-1..max) \union {EndOfStream}
                  /\ Fin(S[i].arg) => max = FinalSegment
                  /\ \A j \in DOMAIN S : i # j /\ IsH(S[j]) =>
                        /\ S[i].arg = S[j].arg => S[i].arg = -1
                        /\ ~(Fin(S[i].arg) /\ Fin(S[j].arg))
<1>1. /\ n \in Nat /\ DOMAIN stack = 1..n /\ DOMAIN stack' = 1..Len(stack')
      /\ stack # << >> => n > 0 /\ Top = stack[n]
  <2>1. stack \in Seq(FrameType) /\ stack' \in Seq(FrameType)
    BY StepTypes DEF StateOK
  <2>2. QED
    BY <2>1, LenProperties, EmptySeq DEF Top
<1>2. Of(stack, maxReported) /\ (Of(stack', maxReported') => HandlersOK')
  BY DEF HandlersOK, Finishing, IsAt
<1>3. /\ FinalSegment \in Nat /\ EndOfStream \notin Int /\ maxReported \in -1..FinalSegment
      /\ object \subseteq 0..FinalSegment
  BY CallbacksAssumption DEF CallbacksAssumption, StateOK, Segment
<1>4. StackStep
  BY StackStepIs
<1>5. ASSUME maxReported' = maxReported,
             \A i \in 1..Len(stack') : IsH(stack'[i]) =>
                 \/ i \in 1..n /\ IsH(stack[i]) /\ stack'[i].arg = stack[i].arg
                 \/ stack'[i].arg = -1
      PROVE  HandlersOK'
  <2>1. -1 \in -1..maxReported /\ ~Fin(-1)
    BY <1>3
  <2>2. Of(stack', maxReported')
    <3> HIDE DEF IsH, Fin
    <3>1. QED
      BY <1>1, <1>2, <1>5, <2>1
  <2>3. QED
    BY <1>2, <2>2
<1>6. CASE stack' = stack /\ maxReported' = maxReported
  BY <1>1, <1>5, <1>6
<1>7. CASE stack # << >> /\ Pops(stack, stack') /\ maxReported' = maxReported
  <2>1. \A i \in 1..Len(stack') : i \in 1..n /\ stack'[i] = stack[i]
    BY <1>1, <1>7 DEF Pops, Keeps
  <2>2. QED
    BY <1>5, <1>7, <2>1
<1>8. ASSUME NEW f, Pushes(stack, stack', f), f.kind = "node", maxReported' = maxReported
      PROVE  HandlersOK'
  <2>1. \A i \in 1..Len(stack') : (i \in 1..n /\ stack'[i] = stack[i]) \/ stack'[i] = f
    BY <1>1, <1>8 DEF Pushes, Keeps
  <2>2. QED
    BY <1>5, <1>8, <2>1
<1>9. ASSUME stack # << >>, NEW g, Continues(stack, stack', g), g.kind = "root",
             maxReported' = maxReported
      PROVE  HandlersOK'
  <2>1. \A i \in 1..Len(stack') : (i \in 1..n /\ stack'[i] = stack[i]) \/ stack'[i] = g
    BY <1>1, <1>9 DEF Continues, Keeps
  <2>2. QED
    BY <1>5, <1>9, <2>1
<1>10. ASSUME stack # << >>, Top.kind \in {"node", "root", "segment"}, NEW g, NEW h,
              Nests(stack, stack', g, h), g.kind = Top.kind, g.arg = Top.arg,
              h.kind = "app" \/ (Top.kind = "node" /\ h.kind = "handler" /\ h.arg = -1),
              maxReported' = maxReported
       PROVE  HandlersOK'
  <2>1. \A i \in 1..Len(stack') :
            (i \in 1..n /\ stack'[i] = stack[i]) \/ stack'[i] = g \/ stack'[i] = h
    BY <1>1, <1>10 DEF Nests, Keeps
  <2>2. QED
    BY <1>5, <1>10, <2>1
<1>11. ASSUME stack # << >>, Top.kind = "handler", NEW s, NEW g, NEW h,
              Nests(stack, stack', g, h), g.kind = "handler", g.arg = s,
              h.kind = "segment", h.arg = s,
              \/ Top.arg = FinalSegment /\ s = EndOfStream /\ maxReported' = maxReported
              \/ maxReported + 1 \in object /\ s = maxReported + 1 /\ maxReported' = s
       PROVE  HandlersOK'
  <2>1. /\ \A i \in 1..Len(stack') :
              IsH(stack'[i]) =>
                 (i \in 1..(n - 1) /\ stack'[i] = stack[i]) \/ (i = n /\ stack'[i].arg = s)
        /\ n \in 1..n /\ 1..(n - 1) \subseteq 1..n /\ n \notin 1..(n - 1) /\ IsH(stack[n])
    <3>1. n > 0 /\ n \in 1..n /\ 1..(n - 1) \subseteq 1..n /\ n \notin 1..(n - 1) /\ IsH(stack[n])
      BY <1>1, <1>11
    <3>2. \A i \in 1..Len(stack') : i \in 1..(n - 1) \/ i = n \/ i = n + 1
      <4>1. Len(stack') = n + 1 /\ n \in Nat
        BY <1>1, <1>11 DEF Nests
      <4> HIDE DEF n
      <4>2. QED
        BY <4>1
    <3>3. /\ \A i \in 1..(n - 1) : stack'[i] = stack[i]
          /\ stack'[n] = g /\ stack'[n + 1] = h
      BY <1>11 DEF Nests, Keeps
    <3> HIDE DEF n
    <3>4. \A i \in 1..Len(stack') : IsH(stack'[i]) =>
              (i \in 1..(n - 1) /\ stack'[i] = stack[i]) \/ (i = n /\ stack'[i].arg = s)
      BY <1>11, <3>2, <3>3
    <3>5. QED
      BY <3>1, <3>4
  <2>2. /\ s \in (-1..maxReported') \union {EndOfStream}
        /\ Fin(s) => maxReported' = FinalSegment
        /\ -1..maxReported \subseteq -1..maxReported'
    <3>1. CASE Top.arg = FinalSegment /\ s = EndOfStream /\ maxReported' = maxReported
      BY <1>1, <1>2, <1>11, <2>1, <3>1
    <3>2. CASE maxReported + 1 \in object /\ s = maxReported + 1 /\ maxReported' = s
      BY <1>3, <3>2
    <3>3. QED
      BY <1>11, <3>1, <3>2
  <2>3. ASSUME NEW i \in 1..(n - 1), IsH(stack[i])
        PROVE  /\ stack[i].arg \in (-1..maxReported') \union {EndOfStream}
               /\ Fin(stack[i].arg) => maxReported' = FinalSegment /\ ~Fin(s)
               /\ stack[i].arg # s
    <3>1. stack[i].arg \in (-1..maxReported) \union {EndOfStream}
          /\ (Fin(stack[i].arg) => maxReported = FinalSegment)
          /\ ~(Fin(stack[i].arg) /\ Fin(stack[n].arg))
      BY <1>1, <1>2, <2>1, <2>3
    <3>2. CASE Top.arg = FinalSegment /\ s = EndOfStream /\ maxReported' = maxReported
      BY <1>1, <1>11, <3>1, <3>2
    <3>3. CASE maxReported + 1 \in object /\ s = maxReported + 1 /\ maxReported' = s
      <4>1. maxReported # FinalSegment /\ s # EndOfStream /\ s \notin -1..maxReported
        BY <1>3, <3>3
      <4>2. QED
        BY <2>2, <3>1, <4>1
    <3>4. QED
      BY <1>11, <3>2, <3>3
  <2>4. ASSUME NEW i \in 1..(n - 1), IsH(stack[i]), NEW j \in 1..(n - 1), IsH(stack[j]), i # j
        PROVE  /\ stack[i].arg = stack[j].arg => stack[i].arg = -1
               /\ ~(Fin(stack[i].arg) /\ Fin(stack[j].arg))
    BY <1>1, <1>2, <2>1, <2>4
  <2>5. Of(stack', maxReported')
    <3> HIDE DEF IsH, Fin
    <3>1. ASSUME NEW i \in 1..Len(stack'), IsH(stack'[i])
          PROVE  /\ stack'[i].arg \in (-1..maxReported') \union {EndOfStream}
                 /\ Fin(stack'[i].arg) => maxReported' = FinalSegment
      BY <2>1, <2>2, <2>3, <3>1
    <3>2. ASSUME NEW i \in 1..Len(stack'), IsH(stack'[i]), NEW j \in 1..Len(stack'), IsH(stack'[j]),
                 i # j
          PROVE  /\ stack'[i].arg = stack'[j].arg => stack'[i].arg = -1
                 /\ ~(Fin(stack'[i].arg) /\ Fin(stack'[j].arg))
      BY <2>1, <2>3, <2>4, <3>2
    <3>3. QED
      BY <1>1, <3>1, <3>2
  <2>6. QED
    BY <1>2, <2>5
<1>12. QED
  BY <1>4, <1>6, <1>7, <1>8, <1>9, <1>10, <1>11 DEF StackStep

-----------------------------------------------------------------------------
(* What the onSegment callbacks hear.                                       *)

\* A step after which no callback has heard more and no report is new: no call of a
\* registered callback is dropped, no handler that has to fire the end of stream is, unless
\* the Namespace is shut down, and one that has fired it stays until it drops the callbacks.
QuietStep ==
    /\ heard' = heard /\ maxReported' = maxReported
    /\ \A i \in 1..Len(stack') :
          /\ stack'[i].kind = "segment" =>
                /\ i \in 1..Len(stack) /\ stack'[i] = stack[i]
                /\ \A k \in stack'[i].keys : k \in onStream' => k \in onStream
          /\ stack'[i].kind = "handler" =>
                (i \in 1..Len(stack) /\ stack'[i] = stack[i]) \/ stack'[i].arg = -1
    /\ \A j \in 1..Len(stack) :
          \/ stack[j].kind = "segment" /\ Live(stack[j].keys, onStream) # {}
          \/ stack[j].kind = "handler" /\ stack[j].arg = FinalSegment /\ ~isShutDown
          \/ /\ stack[j].kind = "handler" /\ stack[j].arg = EndOfStream
             /\ onStream' # {} \/ Handler \in onNode'
          => j \in 1..Len(stack') /\ stack'[j] = stack[j]
    /\ Handler \in onNode' => Handler \in onNode
    /\ Handler \in onNode /\ Handler \notin onNode' =>
          /\ stack # << >> /\ Top.kind = "handler" /\ Top.arg = EndOfStream
          /\ Len(stack') = Len(stack) - 1

\* The frame's keys are copied or looked at, and one callback is called.
Reports ==
    LET n == Len(stack)
        keys == Live(Top.keys, onStream)
    IN  /\ stack # << >> /\ Top.kind = "segment" /\ keys # {}
        /\ Len(stack') = n + 1 /\ Keeps(stack, stack', n - 1)
        /\ Is(stack'[n], "segment", Top.arg, keys \ {Min(keys)})
        /\ Is(stack'[n + 1], "app", Min(keys), {})
        /\ heard' = [heard EXCEPT ![Min(keys)] = Append(@, Top.arg)]
        /\ UNCHANGED <<onNode, onStream, maxReported>>

\* A handler fires a report.
FiresNext ==
    LET n == Len(stack) IN
    /\ stack # << >> /\ Top.kind = "handler"
    /\ Len(stack') = n + 1 /\ Keeps(stack, stack', n - 1)
    /\ \E s :
          /\ Is(stack'[n], "handler", s, Top.keys)
          /\ Is(stack'[n + 1], "segment", s, onStream)
          /\ \/ Top.arg = FinalSegment /\ s = EndOfStream /\ maxReported' = maxReported
             \/ /\ Top.arg \notin {FinalSegment, EndOfStream} /\ maxReported + 1 \in object
                /\ s = maxReported + 1 /\ maxReported' = s
    /\ UNCHANGED <<heard, onNode, onStream>>

LEMMA HeardSteps ==
    ASSUME StateOK, KeysOK, [Next]_vars
    PROVE  QuietStep \/ Reports \/ FiresNext
<1> USE DEF lists, history
<1> DEFINE n == Len(stack)
<1>1. /\ n \in Nat
      /\ stack # << >> => n > 0 /\ Top = stack[n]
  <2>1. stack \in Seq(FrameType)
    BY DEF StateOK
  <2>2. QED
    BY <2>1, LenProperties, EmptySeq DEF Top
<1>2. CASE UNCHANGED <<stack, heard, onNode, onStream, maxReported>>
  BY <1>2 DEF QuietStep
<1>3. ASSUME stack # << >>, Pops(stack, stack'), heard' = heard, maxReported' = maxReported,
             onNode' = onNode, onStream' = onStream,
             Top.kind = "handler" => Top.arg # EndOfStream /\ (Top.arg = FinalSegment => isShutDown),
             Top.kind = "segment" => Live(Top.keys, onStream) = {}
      PROVE  QuietStep
  <2>1. \A i \in 1..Len(stack') : i \in 1..n /\ stack'[i] = stack[i]
    BY <1>1, <1>3 DEF Pops, Keeps
  <2>2. \A j \in 1..n : j # n => j \in 1..Len(stack') /\ stack'[j] = stack[j]
    BY <1>1, <1>3 DEF Pops, Keeps
  <2>3. QED
    BY <1>1, <1>3, <2>1, <2>2 DEF QuietStep
<1>4. ASSUME NEW f, Pushes(stack, stack', f), f.kind \notin {"segment", "handler"},
             heard' = heard, maxReported' = maxReported,
             onNode' = onNode, onStream' = onStream
      PROVE  QuietStep
  <2>1. \A i \in 1..Len(stack') : (i \in 1..n /\ stack'[i] = stack[i]) \/ stack'[i] = f
    BY <1>1, <1>4 DEF Pushes, Keeps
  <2>2. \A j \in 1..n : j \in 1..Len(stack') /\ stack'[j] = stack[j]
    BY <1>1, <1>4 DEF Pushes, Keeps
  <2>3. QED
    BY <1>4, <2>1, <2>2 DEF QuietStep
<1>5. ASSUME stack # << >>, Top.kind \in {"node", "root"}, NEW g,
             Continues(stack, stack', g), g.kind \notin {"segment", "handler"},
             heard' = heard, maxReported' = maxReported,
             onNode' = onNode, onStream' = onStream
      PROVE  QuietStep
  <2>1. \A i \in 1..Len(stack') : (i \in 1..n /\ stack'[i] = stack[i]) \/ stack'[i] = g
    BY <1>1, <1>5 DEF Continues, Keeps
  <2>2. \A j \in 1..n : j \in 1..Len(stack') /\ (j # n => stack'[j] = stack[j])
    BY <1>1, <1>5 DEF Continues, Keeps
  <2>3. QED
    BY <1>1, <1>5, <2>1, <2>2 DEF QuietStep
<1>6. ASSUME stack # << >>, Top.kind \in {"node", "root"}, NEW g, NEW h,
             Nests(stack, stack', g, h), g.kind = Top.kind,
             h.kind = "app" \/ (h.kind = "handler" /\ h.arg = -1),
             heard' = heard, maxReported' = maxReported,
             onNode' = onNode, onStream' = onStream
      PROVE  QuietStep
  <2>1. \A i \in 1..Len(stack') :
            (i \in 1..n /\ stack'[i] = stack[i]) \/ stack'[i] = g \/ stack'[i] = h
    BY <1>1, <1>6 DEF Nests, Keeps
  <2>2. \A j \in 1..n : j \in 1..Len(stack') /\ (j # n => stack'[j] = stack[j])
    BY <1>1, <1>6 DEF Nests, Keeps
  <2>3. QED
    BY <1>1, <1>6, <2>1, <2>2 DEF QuietStep
<1>7. CASE FireOnNode
  <2>1. /\ NodeMove /\ stack # << >> /\ Top.kind = "node"
        /\ heard' = heard /\ maxReported' = maxReported
        /\ onNode' = onNode /\ onStream' = onStream
    BY <1>7, FireOnNodeIs DEF FireOnNode
  <2>2. \/ Pops(stack, stack')
        \/ \E g : Continues(stack, stack', g) /\ g.kind = "root"
        \/ \E g, h : /\ Nests(stack, stack', g, h)
                     /\ g.kind = Top.kind
                     /\ h.kind = "app" \/ (h.kind = "handler" /\ h.arg = -1)
    BY <2>1 DEF NodeMove, Looks, Is
  <2>3. QED
    BY <1>3, <1>5, <1>6, <2>1, <2>2
<1>8. CASE FireOnRoot
  <2>1. /\ RootMove /\ stack # << >> /\ Top.kind = "root"
        /\ heard' = heard /\ maxReported' = maxReported
        /\ onNode' = onNode /\ onStream' = onStream
    BY <1>8, FireOnRootIs DEF FireOnRoot
  <2>2. \/ Pops(stack, stack')
        \/ \E g, h : /\ Nests(stack, stack', g, h)
                     /\ g.kind = Top.kind /\ h.kind = "app"
    BY <2>1 DEF RootMove, Looks, Is
  <2>3. QED
    BY <1>3, <1>6, <2>1, <2>2
<1>9. CASE FireOnSegment
  <2>1. /\ SegmentMove /\ stack # << >> /\ Top.kind = "segment" /\ Top \in FrameType
        /\ maxReported' = maxReported
        /\ onNode' = onNode /\ onStream' = onStream
    BY <1>9, FireOnSegmentIs DEF FireOnSegment
  <2>2. CASE Live(Top.keys, onStream) = {} /\ Pops(stack, stack') /\ heard' = heard
    BY <1>3, <2>1, <2>2
  <2>3. CASE ~(Live(Top.keys, onStream) = {} /\ Pops(stack, stack') /\ heard' = heard)
    BY <2>1, <2>3 DEF SegmentMove, Reports, Nests, Looks, Is
  <2>4. QED
    BY <2>2, <2>3
<1>10. CASE OnStateChanged
  <2>1. HandlerMove /\ stack # << >> /\ Top.kind = "handler" /\ heard' = heard
    BY <1>10, OnStateChangedIs DEF OnStateChanged
  <2>2. CASE AbandonedMove
    <3>1. Top.arg # EndOfStream
      BY <2>2, CallbacksAssumption DEF CallbacksAssumption, AbandonedMove, Segment
    <3>2. QED
      BY <1>3, <2>1, <2>2, <3>1 DEF AbandonedMove
  <2>3. CASE ~AbandonedMove /\ Top.arg = FinalSegment
    <3>1. Fires(EndOfStream) /\ UNCHANGED <<onNode, onStream, maxReported>>
      <4>1. FinalSegment # EndOfStream
        BY CallbacksAssumption DEF CallbacksAssumption
      <4>2. QED
        BY <2>1, <2>3, <4>1 DEF HandlerMove
    <3>2. FiresNext
      BY <2>1, <2>3, <3>1 DEF Fires, FiresNext, Nests, Is
    <3>3. QED
      BY <3>2
  <2>4. CASE ~AbandonedMove /\ Top.arg = EndOfStream
    <3>1. /\ Pops(stack, stack') /\ onStream' = {} /\ maxReported' = maxReported
          /\ onNode' = onNode \ {Handler}
      <4>1. FinalSegment # EndOfStream
        BY CallbacksAssumption DEF CallbacksAssumption
      <4>2. QED
        BY <2>1, <2>4, <4>1 DEF HandlerMove
    <3>2. \A i \in 1..Len(stack') : i \in 1..n /\ stack'[i] = stack[i]
      BY <1>1, <2>1, <3>1 DEF Pops, Keeps
    <3>3. \A j \in 1..n : j # n => j \in 1..Len(stack') /\ stack'[j] = stack[j]
      BY <1>1, <2>1, <3>1 DEF Pops, Keeps
    <3>4. FinalSegment # EndOfStream
      BY CallbacksAssumption DEF CallbacksAssumption
    <3>5. Len(stack') = n - 1
      BY <3>1 DEF Pops
    <3>6. QED
      BY <1>1, <2>1, <2>4, <3>1, <3>2, <3>3, <3>4, <3>5 DEF QuietStep
  <2>5. CASE ~AbandonedMove /\ Top.arg \notin {FinalSegment, EndOfStream} /\ maxReported + 1 \in object
    <3>1. /\ Fires(maxReported + 1) /\ maxReported' = maxReported + 1
          /\ onNode' = onNode /\ onStream' = onStream
      BY <2>1, <2>5 DEF HandlerMove
    <3>2. FiresNext
      BY <2>1, <2>5, <3>1 DEF Fires, FiresNext, Nests, Is
    <3>3. QED
      BY <3>2
  <2>6. CASE ~AbandonedMove /\ Top.arg \notin {FinalSegment, EndOfStream} /\ maxReported + 1 \notin object
    BY <1>3, <2>1, <2>6 DEF HandlerMove
  <2>7. QED
    BY <2>2, <2>3, <2>4, <2>5, <2>6
<1>11. ASSUME ReadyMove, heard' = heard, maxReported' = maxReported,
             onNode' = onNode, onStream' = onStream
       PROVE  QuietStep
  <2>1. \E f : Pushes(stack, stack', f) /\ f.kind = "node"
    BY <1>11 DEF ReadyMove, Is
  <2>2. QED
    BY <1>4, <1>11, <2>1
<1>12. ASSUME NEW s \in Segment, Arrive(s) PROVE QuietStep
  BY <1>11, <1>12, SetReadyIs DEF Arrive
<1>13. CASE ObjectNeeded
  BY <1>11, <1>13, ObjectNeededIs DEF ObjectNeeded
<1>14. CASE ReturnFromCallback
  BY <1>3, <1>14, ReturnFromCallbackIs DEF ReturnFromCallback
<1>15. ASSUME stack' = stack, heard' = heard, maxReported' = maxReported,
              onStream' \subseteq onStream \union {lastKey + 1},
              Handler \in onNode' <=> Handler \in onNode
       PROVE  QuietStep
  <2>1. \A i \in 1..n : lastKey + 1 \notin stack[i].keys
    <3>1. \A i \in 1..n : stack[i].keys \subseteq 0..lastKey
      BY LenProperties DEF StateOK, KeysOK, FrameOK
    <3>2. lastKey \in Nat
      BY CallbacksAssumption DEF CallbacksAssumption, StateOK
    <3>3. lastKey + 1 \notin 0..lastKey
      BY <3>2
    <3>4. QED
      BY <3>1, <3>3
  <2>2. QED
    BY <1>15, <2>1 DEF QuietStep
<1>16. CASE AddCallback
  <2>1. lastKey + 1 # Handler
    BY CallbacksAssumption DEF CallbacksAssumption, StateOK
  <2>2. QED
    BY <1>15, <1>16, <2>1 DEF AddCallback
<1>17. CASE RemoveCallback
  BY <1>15, <1>17 DEF RemoveCallback
<1>18. CASE Shutdown \/ UNCHANGED vars
  BY <1>2, <1>18 DEF Shutdown, vars
<1>19. QED
  BY <1>7, <1>8, <1>9, <1>10, <1>12, <1>13, <1>14, <1>16, <1>17, <1>18 DEF Next

LEMMA StepHeard ==
    ASSUME OnceInv, [Next]_vars
    PROVE  HeardOK' /\ EachOnce'
<1> DEFINE n == Len(stack)
           Ends(S) == \A i \in 1..Len(S) : S[i].kind = "handler" => S[i].arg # FinalSegment
           Later(S, i) == \E j \in 1..Len(S) :
                             j > i /\ S[j].kind = "handler" /\ S[j].arg = EndOfStream
           Old(S, H, k, list) ==
               \A i \in 1..Len(S) : S[i].kind = "segment" /\ k \in S[i].keys =>
                  /\ S[i].arg \notin H
                  /\ EndOfStream \in H /\ k \in list => Later(S, i)
<1>1. StateOK /\ KeysOK /\ CallersOK /\ HandlersOK /\ HeardOK /\ EachOnce /\ StateOK'
  BY StepTypes DEF OnceInv
<1>2. /\ n \in Nat /\ DOMAIN stack = 1..n /\ DOMAIN stack' = 1..Len(stack')
      /\ stack # << >> => n > 0 /\ n \in 1..n /\ Top = stack[n]
  <2>1. stack \in Seq(FrameType) /\ stack' \in Seq(FrameType)
    BY <1>1 DEF StateOK
  <2>2. QED
    BY <2>1, LenProperties, EmptySeq DEF Top
<1>3. /\ FinalSegment \in Nat /\ EndOfStream \notin Int /\ maxReported \in -1..FinalSegment
      /\ object \subseteq 0..FinalSegment
  BY <1>1, CallbacksAssumption DEF CallbacksAssumption, StateOK, Segment
<1>4. \A k \in Key :
        /\ Heard(k) \subseteq (0..maxReported) \union {EndOfStream}
        /\ EndOfStream \in Heard(k) => maxReported = FinalSegment /\ Ends(stack)
        /\ Old(stack, Heard(k), k, onStream)
  BY <1>1, <1>2 DEF HeardOK, Past, IsAt
<1>5. ASSUME \A k \in Key :
                /\ Heard(k)' \subseteq (0..maxReported') \union {EndOfStream}
                /\ EndOfStream \in Heard(k)' => maxReported' = FinalSegment /\ Ends(stack')
                /\ Old(stack', Heard(k)', k, onStream')
      PROVE  HeardOK'
  BY <1>2, <1>5 DEF HeardOK, Past, IsAt
<1>6. CASE QuietStep
  <2>1. heard' = heard /\ maxReported' = maxReported /\ \A k : Heard(k)' = Heard(k)
    BY <1>6 DEF QuietStep, Heard
  <2>2. Ends(stack) => Ends(stack')
    <3>1. -1 # FinalSegment
      BY <1>3
    <3>2. QED
      BY <1>6, <3>1 DEF QuietStep
  <2>3. ASSUME NEW k \in Key PROVE Old(stack', Heard(k), k, onStream')
    <3> SUFFICES ASSUME NEW i \in 1..Len(stack'), stack'[i].kind = "segment", k \in stack'[i].keys
                 PROVE  /\ stack'[i].arg \notin Heard(k)
                        /\ EndOfStream \in Heard(k) /\ k \in onStream' => Later(stack', i)
      OBVIOUS
    <3>1. /\ i \in 1..n /\ stack[i].kind = "segment"
          /\ stack'[i].arg = stack[i].arg /\ k \in stack[i].keys
          /\ k \in onStream' => k \in onStream
      BY <1>6 DEF QuietStep
    <3>2. /\ stack[i].arg \notin Heard(k)
          /\ EndOfStream \in Heard(k) /\ k \in onStream => Later(stack, i)
      BY <1>4, <3>1
    <3>3. k \in onStream' /\ Later(stack, i) => Later(stack', i)
      BY <1>6 DEF QuietStep
    <3>4. QED
      BY <3>1, <3>2, <3>3
  <2>4. HeardOK'
    <3> HIDE DEF Ends, Old
    <3>1. QED
      BY <1>4, <1>5, <2>1, <2>2, <2>3
  <2>5. EachOnce'
    BY <1>1, <2>1 DEF EachOnce
  <2>6. QED
    BY <2>4, <2>5
<1>7. CASE FiresNext
  <2>1. /\ stack # << >> /\ Top.kind = "handler" /\ n > 0
        /\ Len(stack') = n + 1
        /\ \A i \in 1..(n - 1) : stack'[i] = stack[i]
        /\ heard' = heard /\ \A k : Heard(k)' = Heard(k)
    BY <1>2, <1>7 DEF FiresNext, Keeps, Heard
  <2>2. PICK s :
          /\ Is(stack'[n], "handler", s, Top.keys)
          /\ Is(stack'[n + 1], "segment", s, onStream)
          /\ \/ Top.arg = FinalSegment /\ s = EndOfStream /\ maxReported' = maxReported
             \/ maxReported + 1 \in object /\ s = maxReported + 1 /\ maxReported' = s
    BY <1>7 DEF FiresNext
  <2>3. ASSUME NEW k \in Key
        PROVE  EndOfStream \notin Heard(k) /\ s \notin Heard(k)
               /\ Heard(k) \subseteq (0..maxReported') \union {EndOfStream}
    <3>1. CASE Top.arg = FinalSegment /\ s = EndOfStream /\ maxReported' = maxReported
      BY <1>2, <1>4, <2>1, <3>1
    <3>2. CASE maxReported + 1 \in object /\ s = maxReported + 1 /\ maxReported' = s
      <4>1. maxReported # FinalSegment /\ s # EndOfStream /\ s \notin 0..maxReported
            /\ 0..maxReported \subseteq 0..maxReported'
        BY <1>3, <3>2
      <4>2. QED
        BY <1>4, <4>1
    <3>3. QED
      BY <2>2, <3>1, <3>2
  <2>4. ASSUME NEW k \in Key PROVE Old(stack', Heard(k), k, onStream')
    <3>1. \A i \in 1..Len(stack') : stack'[i].kind = "segment" =>
              (i \in 1..n /\ stack'[i] = stack[i]) \/ stack'[i].arg = s
      <4>1. \A i \in 1..Len(stack') :
                (i \in 1..(n - 1) /\ i \in 1..n) \/ i = n \/ i = n + 1
        <5>1. n \in Nat /\ Len(stack') = n + 1
          BY <1>2, <2>1
        <5> HIDE DEF n
        <5>2. QED
          BY <5>1
      <4>2. stack'[n].kind # "segment" /\ stack'[n + 1].arg = s
        BY <2>2 DEF Is
      <4>3. QED
        BY <2>1, <4>1, <4>2
    <3>2. QED
      BY <1>4, <2>3, <3>1
  <2>5. HeardOK'
    <3> HIDE DEF Ends, Old
    <3>1. QED
      BY <1>5, <2>1, <2>3, <2>4
  <2>6. EachOnce'
    BY <1>1, <2>1 DEF EachOnce
  <2>7. QED
    BY <2>5, <2>6
<1>8. CASE Reports
  <2> DEFINE keys == Live(Top.keys, onStream)
             a == Top.arg
  <2>0. PICK c : c = Min(keys)
    OBVIOUS
  <2>1. /\ stack # << >> /\ Top.kind = "segment" /\ keys # {}
        /\ Len(stack') = n + 1 /\ n > 0
        /\ \A i \in 1..(n - 1) : stack'[i] = stack[i]
        /\ Is(stack'[n], "segment", a, keys \ {c})
        /\ stack'[n + 1].kind = "app"
        /\ heard' = [heard EXCEPT ![c] = Append(@, a)]
        /\ onStream' = onStream /\ maxReported' = maxReported
    BY <1>2, <1>8, <2>0 DEF Reports, Keeps, Is
  <2>2. c \in keys /\ c \in Key /\ c \in Top.keys /\ c \in onStream
    <3>1. keys \in SUBSET Key
      BY <1>1, KeysAreKeys DEF Live, KeysOK
    <3>2. c \in keys
      BY <2>0, <2>1, <3>1, LowestKey
    <3>3. QED
      BY <3>1, <3>2 DEF Live
  <2>a. n \in Nat /\ Len(stack) = n
    BY <1>2
  <2>3. keys \subseteq Top.keys
    BY DEF Live
  <2> HIDE DEF keys, n
  <2>4. /\ n > 1 /\ n - 1 \in 1..(n - 1) /\ n - 1 \in 1..n
        /\ stack[n - 1].kind = "handler" /\ stack[n - 1].arg = a
    <3>1. Fits(n, stack[n - 1], stack[n])
      BY <1>1, <1>2, <2>1 DEF CallersOK
    <3>2. n > 1 /\ stack[n - 1].kind = "handler" /\ stack[n - 1].arg = a
      BY <1>2, <2>1, <3>1 DEF Fits
    <3>3. QED
      BY <1>2, <3>2
  <2>5. a \in (0..maxReported) \union {EndOfStream}
    <3>1. a \in Segment \union {EndOfStream}
      BY <1>1, <1>2, <2>1 DEF KeysOK, FrameOK
    <3>2. a \in (-1..maxReported) \union {EndOfStream}
      BY <1>1, <1>2, <2>4 DEF HandlersOK, IsAt
    <3>3. QED
      BY <1>3, <3>1, <3>2 DEF Segment
  <2>6. a \notin Heard(c) /\ EndOfStream \notin Heard(c)
    <3>1. a \notin Heard(c) /\ (EndOfStream \in Heard(c) => Later(stack, n))
      BY <1>2, <1>4, <2>1, <2>2
    <3>2. ~Later(stack, n)
      BY <1>2
    <3>3. QED
      BY <3>1, <3>2
  <2>7. heard[c] \in Seq(Segment \union {EndOfStream}) /\ a \in Segment \union {EndOfStream}
    <3>1. a \in Segment \union {EndOfStream}
      BY <1>1, <1>2, <2>1 DEF KeysOK, FrameOK
    <3>2. QED
      BY <1>1, <2>2, <3>1 DEF StateOK
  <2>8. /\ DOMAIN heard[c] = 1..Len(heard[c]) /\ Len(heard[c]) \in Nat
        /\ DOMAIN heard'[c] = 1..(Len(heard[c]) + 1)
        /\ \A i \in 1..Len(heard[c]) : heard'[c][i] = heard[c][i]
        /\ heard'[c][Len(heard[c]) + 1] = a
        /\ \A k \in Key : k # c => heard'[k] = heard[k]
    <3>1. heard'[c] = Append(heard[c], a) /\ \A k \in Key : k # c => heard'[k] = heard[k]
      BY <1>1, <2>1, <2>2 DEF StateOK
    <3>2. DOMAIN heard[c] = 1..Len(heard[c]) /\ Len(heard[c]) \in Nat
      BY <2>7, LenProperties
    <3>3. Append(heard[c], a) \in Seq(Segment \union {EndOfStream})
      BY <2>7, AppendProperties
    <3>4. DOMAIN Append(heard[c], a) = 1..(Len(heard[c]) + 1)
      BY <2>7, <3>3, AppendProperties, LenProperties
    <3>5. QED
      BY <2>7, <3>1, <3>2, <3>4, AppendProperties
  <2>9. Heard(c)' = Heard(c) \union {a} /\ \A k \in Key : k # c => Heard(k)' = Heard(k)
    <3>1. \A k \in Key : k # c => Heard(k)' = Heard(k)
      BY <2>8 DEF Heard
    <3>2. Heard(c)' \subseteq Heard(c) \union {a}
      <4>1. \A i \in 1..(Len(heard[c]) + 1) : i \in 1..Len(heard[c]) \/ i = Len(heard[c]) + 1
        BY <2>8
      <4>2. ASSUME NEW x \in Heard(c)' PROVE x \in Heard(c) \union {a}
        <5>1. PICK i \in 1..(Len(heard[c]) + 1) : x = heard'[c][i]
          BY <2>8, <4>2 DEF Heard
        <5>2. CASE i \in 1..Len(heard[c])
          BY <2>8, <5>1, <5>2 DEF Heard
        <5>3. CASE i = Len(heard[c]) + 1
          BY <2>8, <5>1, <5>3
        <5>4. QED
          BY <4>1, <5>2, <5>3
      <4>3. QED
        BY <4>2
    <3>3. Heard(c) \union {a} \subseteq Heard(c)'
      <4>1. \A i \in 1..Len(heard[c]) : i \in 1..(Len(heard[c]) + 1)
        BY <2>8
      <4>2. Len(heard[c]) + 1 \in 1..(Len(heard[c]) + 1)
        BY <2>8
      <4>3. a \in Heard(c)'
        BY <2>8, <4>2 DEF Heard
      <4>4. ASSUME NEW i \in 1..Len(heard[c]) PROVE heard[c][i] \in Heard(c)'
        BY <2>8, <4>1 DEF Heard
      <4>5. QED
        BY <2>8, <4>3, <4>4 DEF Heard
    <3>4. QED
      BY <3>1, <3>2, <3>3
  <2>10. EachOnce'
    <3> SUFFICES ASSUME NEW k \in Key, NEW i \in DOMAIN heard'[k], NEW j \in DOMAIN heard'[k], i < j
                 PROVE  heard'[k][i] # heard'[k][j] /\ heard'[k][i] # EndOfStream
      BY DEF EachOnce
    <3>1. CASE k # c
      BY <1>1, <2>8, <3>1 DEF EachOnce
    <3>2. CASE k = c /\ j \in 1..Len(heard[c])
      <4>1. i \in 1..Len(heard[c])
        BY <2>8, <3>2
      <4>2. QED
        BY <1>1, <2>2, <2>8, <3>2, <4>1 DEF EachOnce
    <3>3. CASE k = c /\ j = Len(heard[c]) + 1
      <4>1. i \in 1..Len(heard[c])
        BY <2>8, <3>3
      <4>2. heard[c][i] \in Heard(c)
        BY <2>8, <4>1 DEF Heard
      <4>3. QED
        BY <2>6, <2>8, <3>3, <4>1, <4>2
    <3>4. QED
      BY <2>8, <3>1, <3>2, <3>3
  <2>11. \A i \in 1..Len(stack') :
            \/ i \in 1..(n - 1) /\ i \in 1..n /\ stack'[i] = stack[i]
            \/ i = n /\ stack'[i].kind = "segment" /\ stack'[i].arg = a /\ stack'[i].keys = keys \ {c}
            \/ i = n + 1 /\ stack'[i].kind = "app"
    <3>1. \A i \in 1..Len(stack') : (i \in 1..(n - 1) /\ i \in 1..n) \/ i = n \/ i = n + 1
      BY <2>a, <2>1
    <3>2. QED
      BY <2>1, <3>1 DEF Is
  <2>12. a = EndOfStream => maxReported = FinalSegment /\ Ends(stack)
    <3> SUFFICES ASSUME a = EndOfStream PROVE maxReported = FinalSegment /\ Ends(stack)
      OBVIOUS
    <3>1. maxReported = FinalSegment
      BY <1>1, <1>2, <2>4 DEF HandlersOK, Finishing, IsAt
    <3>2. ASSUME NEW i \in 1..n, stack[i].kind = "handler", stack[i].arg = FinalSegment
          PROVE  FALSE
      <4>1. i # n - 1
        BY <1>3, <2>4, <3>2
      <4>2. QED
        BY <1>1, <1>2, <2>4, <3>2, <4>1 DEF HandlersOK, Finishing, IsAt
    <3>3. QED
      BY <2>a, <3>1, <3>2
  <2>13. Ends(stack) => Ends(stack')
    BY <2>a, <2>11
  <2>14. ASSUME NEW i \in 1..(n - 1), stack[i].kind = "segment"
         PROVE  /\ stack[i].arg # a
                /\ i < n - 1
    <3>0. i \in 1..n /\ i <= n - 1 /\ i \in Nat
      BY <2>a, <2>14
    <3>1. Fits(i, stack[i - 1], stack[i])
      BY <1>1, <1>2, <3>0 DEF CallersOK
    <3>2. i > 1 /\ stack[i - 1].kind = "handler" /\ stack[i - 1].arg = stack[i].arg
      BY <2>14, <3>1 DEF Fits
    <3>3. i - 1 \in 1..n /\ i - 1 # n - 1 /\ n - 1 \in 1..n
      BY <2>a, <2>4, <3>0, <3>2
    <3>4. a # -1
      BY <1>3, <2>5
    <3>5. stack[i].arg # a
      BY <1>1, <1>2, <2>4, <3>2, <3>3, <3>4 DEF HandlersOK, IsAt
    <3>6. i # n - 1
      BY <2>4, <2>14
    <3>7. QED
      BY <2>a, <3>0, <3>5, <3>6
  <2>15. ASSUME NEW i \in 1..n, Later(stack, i) PROVE Later(stack', i)
    <3>1. PICK j \in 1..n : j > i /\ stack[j].kind = "handler" /\ stack[j].arg = EndOfStream
      BY <2>a, <2>15
    <3>2. j # n
      BY <1>2, <2>1, <3>1
    <3>3. j \in 1..(n - 1) /\ j \in 1..Len(stack')
      BY <2>a, <2>1, <3>1, <3>2
    <3>4. QED
      BY <2>1, <3>1, <3>3
  <2>16. ASSUME NEW k \in Key PROVE Old(stack', Heard(k)', k, onStream)
    <3> SUFFICES ASSUME NEW i \in 1..Len(stack'), stack'[i].kind = "segment", k \in stack'[i].keys
                 PROVE  /\ stack'[i].arg \notin Heard(k)'
                        /\ EndOfStream \in Heard(k)' /\ k \in onStream => Later(stack', i)
      OBVIOUS
    <3>1. /\ i \in 1..n /\ stack[i].kind = "segment" /\ k \in stack[i].keys
          /\ stack'[i].arg = stack[i].arg
          /\ i = n => k # c
          /\ i # n => i \in 1..(n - 1)
      <4>1. CASE i \in 1..(n - 1) /\ i \in 1..n /\ stack'[i] = stack[i]
        BY <4>1
      <4>2. CASE i = n /\ stack'[i].arg = a /\ stack'[i].keys = keys \ {c}
        <5>1. stack[n] = Top /\ n \in 1..n
          BY <1>2, <2>1
        <5>2. QED
          BY <2>1, <2>3, <4>2, <5>1
      <4>3. QED
        BY <2>11, <4>1, <4>2
    <3>2. /\ stack[i].arg \notin Heard(k)
          /\ EndOfStream \in Heard(k) /\ k \in onStream => Later(stack, i)
      BY <2>a, <1>4, <3>1
    <3>3. CASE k # c
      BY <2>9, <2>15, <3>1, <3>2, <3>3
    <3>4. CASE k = c
      <4>1. i \in 1..(n - 1) /\ stack[i].arg # a /\ i < n - 1
        BY <2>14, <3>1, <3>4
      <4>2. a = EndOfStream => Later(stack', i)
        <5>1. n - 1 \in 1..Len(stack')
          BY <1>2, <2>1, <2>4
        <5>2. QED
          BY <2>1, <2>4, <4>1, <5>1
      <4>3. QED
        <5>1. Heard(k)' = Heard(k) \union {a}
          BY <2>9, <3>4
        <5>2. stack'[i].arg \notin Heard(k)'
          BY <3>1, <3>2, <4>1, <5>1
        <5>3. ASSUME EndOfStream \in Heard(k)', k \in onStream PROVE Later(stack', i)
          BY <2>15, <3>1, <3>2, <4>2, <5>1, <5>3
        <5>4. QED
          BY <5>2, <5>3
    <3>5. QED
      BY <3>3, <3>4
  <2>17. HeardOK'
    <3>1. ASSUME NEW k \in Key
          PROVE  /\ Heard(k)' \subseteq (0..maxReported) \union {EndOfStream}
                 /\ EndOfStream \in Heard(k)' => maxReported = FinalSegment /\ Ends(stack')
      <4> HIDE DEF Ends, Old
      <4>1. CASE k # c
        BY <1>4, <2>9, <2>13, <4>1
      <4>2. CASE k = c
        <5>1. Heard(k)' = Heard(k) \union {a}
          BY <2>9, <4>2
        <5>2. QED
          BY <1>4, <2>5, <2>12, <2>13, <5>1
      <4>3. QED
        BY <4>1, <4>2
    <3> HIDE DEF Ends, Old
    <3>2. QED
      BY <1>5, <2>1, <2>16, <3>1
  <2>18. QED
    BY <2>10, <2>17
<1>9. QED
  BY <1>1, <1>6, <1>7, <1>8, HeardSteps

LEMMA InitOnce == Init => OnceInv
<1> SUFFICES ASSUME Init PROVE OnceInv
  OBVIOUS
<1>1. StateOK /\ KeysOK
  BY InitTypes
<1>2. DOMAIN stack = {} /\ \A k \in Key : Heard(k) = {} /\ DOMAIN heard[k] = {}
  BY DEF Init, Heard
<1>3. CallersOK /\ HandlersOK
  BY <1>2 DEF CallersOK, HandlersOK
<1>4. HeardOK
  BY <1>2 DEF HeardOK
<1>5. EachOnce
  BY <1>2 DEF EachOnce
<1>6. QED
  BY <1>1, <1>3, <1>4, <1>5 DEF OnceInv

\* Each of the parts that make EachOnce inductive holds in every state.
THEOREM CallbacksOnce == Spec => []OnceInv
<1>1. ASSUME OnceInv, [Next]_vars PROVE OnceInv'
  <2>1. StateOK /\ KeysOK /\ CallersOK /\ HandlersOK
    BY <1>1 DEF OnceInv
  <2>2. StateOK' /\ KeysOK' /\ CallersOK' /\ HandlersOK'
    BY <1>1, <2>1, StepTypes, StepCallers, StepHandlers
  <2>3. HeardOK' /\ EachOnce'
    BY <1>1, StepHeard
  <2>4. QED
    BY <2>2, <2>3 DEF OnceInv
<1>2. OnceInv /\ [Next]_vars => OnceInv'
  BY <1>1
<1>3. QED
  BY <1>2, InitOnce, PTL DEF Spec

\* However deep calls are nested, no onSegment callback is told of a segment or of the end
\* of stream twice, or of anything after the end of stream.
THEOREM CallbacksEachOnce == Spec => []EachOnce
<1>1. OnceInv => EachOnce
  BY DEF OnceInv
<1>2. QED
  BY <1>1, CallbacksOnce, PTL

-----------------------------------------------------------------------------
(* The order of the reports.                                                *)

\* A callback that has made a call from within a report is among the reentrant ones.
LEMMA StepNested ==
    ASSUME StateOK, KeysOK, NestedOK, [Next]_vars
    PROVE  NestedOK'
<1> USE DEF lists, history
<1> DEFINE n == Len(stack)
           App(S, i) == S[i].kind = "app" /\ S[i - 1].kind = "segment"
<1>1. /\ n \in Nat /\ DOMAIN stack = 1..n /\ DOMAIN stack' = 1..Len(stack')
      /\ stack # << >> => n > 0 /\ Top = stack[n]
      /\ stack = << >> => n = 0
  <2>1. stack \in Seq(FrameType) /\ stack' \in Seq(FrameType)
    BY StepTypes DEF StateOK
  <2>2. QED
    BY <2>1, LenProperties, EmptySeq DEF Top
<1>2. /\ \A i \in 1..n : i > 1 /\ App(stack, i) =>
            /\ \A k \in stack[i - 1].keys : k > stack[i].arg
            /\ i < n => stack[i].arg \in reentrant
      /\ reentrant \subseteq reentrant'
  <2>1. reentrant \subseteq reentrant'
    BY DEF Next, vars, FireOnNode, FireOnRoot, FireOnSegment, OnStateChanged, Arrive, AddCallback,
           RemoveCallback, ObjectNeeded, Shutdown, ReturnFromCallback
  <2>2. QED
    BY <1>1, <2>1 DEF NestedOK, IsAt
<1>3. ASSUME \A i \in 1..Len(stack') : i > 1 /\ App(stack', i) =>
                /\ \A k \in stack'[i - 1].keys : k > stack'[i].arg
                /\ i < Len(stack') => stack'[i].arg \in reentrant'
      PROVE  NestedOK'
  BY <1>1, <1>3 DEF NestedOK, IsAt
<1>4. ASSUME \A i \in 1..Len(stack') : i > 1 /\ App(stack', i) =>
                /\ i \in 1..n /\ App(stack, i) /\ stack'[i] = stack[i]
                /\ stack'[i - 1] = stack[i - 1]
                /\ i < Len(stack') => i < n \/ stack[i].arg \in reentrant'
      PROVE  NestedOK'
  <2> HIDE DEF App, n
  <2>1. QED
    BY <1>2, <1>3, <1>4
<1>5. CASE stack' = stack
  BY <1>1, <1>4, <1>5
<1>6. CASE stack # << >> /\ Pops(stack, stack')
  <2>1. Len(stack') = n - 1 /\ \A i \in 1..(n - 1) : stack'[i] = stack[i]
    BY <1>6 DEF Pops, Keeps
  <2> HIDE DEF n
  <2>2. \A i \in 1..(n - 1) : i \in 1..n /\ (i > 1 => i - 1 \in 1..(n - 1)) /\ i < n
    BY <1>1
  <2>3. QED
    BY <1>4, <2>1, <2>2
<1>7. ASSUME NEW f, Pushes(stack, stack', f), f.kind = "node",
             n > 1 /\ App(stack, n) => stack[n].arg \in reentrant'
      PROVE  NestedOK'
  <2>1. Len(stack') = n + 1 /\ (\A i \in 1..n : stack'[i] = stack[i]) /\ stack'[n + 1] = f
    BY <1>7 DEF Pushes, Keeps
  <2> HIDE DEF n
  <2>2. \A i \in 1..(n + 1) :
            i = n + 1 \/ (i \in 1..n /\ (i > 1 => i - 1 \in 1..n) /\ (i = n \/ i < n))
    BY <1>1
  <2>3. QED
    BY <1>4, <1>7, <2>1, <2>2
<1>8. ASSUME stack # << >>, NEW g, Continues(stack, stack', g), g.kind = "root"
      PROVE  NestedOK'
  <2>1. Len(stack') = n /\ (\A i \in 1..(n - 1) : stack'[i] = stack[i]) /\ stack'[n] = g
    BY <1>8 DEF Continues, Keeps
  <2> HIDE DEF n
  <2>2. \A i \in 1..n :
            i = n \/ (i \in 1..(n - 1) /\ (i > 1 => i - 1 \in 1..(n - 1)) /\ i < n)
    BY <1>1
  <2>3. QED
    BY <1>4, <1>8, <2>1, <2>2
<1>9. ASSUME stack # << >>, NEW g, NEW h, Nests(stack, stack', g, h), g.kind # "app",
             h.kind = "app" /\ g.kind = "segment" => \A k \in g.keys : k > h.arg
      PROVE  NestedOK'
  <2>1. /\ Len(stack') = n + 1 /\ (\A i \in 1..(n - 1) : stack'[i] = stack[i])
        /\ stack'[n] = g /\ stack'[n + 1] = h
    BY <1>9 DEF Nests, Keeps
  <2>2. n > 0
    BY <1>1, <1>9
  <2> HIDE DEF n
  <2>3. \A i \in 1..(n + 1) :
            \/ i = n + 1 /\ i - 1 = n
            \/ i = n
            \/ i \in 1..n /\ i \in 1..(n - 1) /\ (i > 1 => i - 1 \in 1..(n - 1)) /\ i < n
    BY <1>1, <2>2
  <2>4. ASSUME NEW i \in 1..(n + 1), i > 1, App(stack', i)
        PROVE  /\ \A k \in stack'[i - 1].keys : k > stack'[i].arg
               /\ i < n + 1 => stack'[i].arg \in reentrant'
    <3>1. CASE i = n + 1
      BY <1>9, <2>1, <2>3, <2>4, <3>1, <1>1
    <3>2. CASE i = n
      BY <1>9, <2>1, <2>4, <3>2
    <3>3. CASE i \in 1..n /\ i \in 1..(n - 1) /\ i - 1 \in 1..(n - 1) /\ i < n
      BY <1>2, <2>1, <2>4, <3>3
    <3>4. QED
      BY <2>3, <2>4, <3>1, <3>2, <3>3
  <2>5. QED
    BY <1>3, <2>1, <2>4
<1>10. StackStep
  BY StackStepIs
<1>11. CASE FireOnSegment
  <2>1. SegmentMove /\ stack # << >> /\ Top.kind = "segment" /\ Top \in FrameType
    BY <1>11, FireOnSegmentIs
  <2>2. CASE Pops(stack, stack')
    BY <1>6, <2>1, <2>2
  <2>3. CASE ~Pops(stack, stack')
    <3>1. /\ Live(Top.keys, onStream) # {}
          /\ \E g, h \in FrameType : /\ Nests(stack, stack', g, h)
                                     /\ Looks(Top, g, h, Live(Top.keys, onStream), "app",
                                              Min(Live(Top.keys, onStream)))
      BY <2>1, <2>3 DEF SegmentMove
    <3>2. PICK g, h \in FrameType : /\ Nests(stack, stack', g, h)
                                    /\ Looks(Top, g, h, Live(Top.keys, onStream), "app",
                                             Min(Live(Top.keys, onStream)))
      BY <3>1
    <3>3. Live(Top.keys, onStream) \in SUBSET Key
      BY KeysAreKeys DEF Live, KeysOK
    <3>4. \A k \in g.keys : k > h.arg
      BY <3>1, <3>2, <3>3, LowestKey DEF Looks, Is
    <3>5. g.kind # "app"
      BY <2>1, <3>2 DEF Looks, Is
    <3>6. QED
      BY <1>9, <2>1, <3>2, <3>4, <3>5
  <2>4. QED
    BY <2>2, <2>3
<1>12. CASE ObjectNeeded
  <2>1. PICK f : Pushes(stack, stack', f) /\ f.kind = "node"
    BY <1>12, ObjectNeededIs DEF ReadyMove, Is
  <2>2. reentrant' = reentrant \union Calling
    BY <1>12 DEF ObjectNeeded
  <2>3. n > 1 /\ App(stack, n) => stack[n].arg \in reentrant'
    <3>1. ASSUME n > 1, App(stack, n) PROVE n \in 2..Len(stack)
      BY <1>1, <3>1
    <3>2. QED
      BY <2>2, <3>1 DEF Calling
  <2>4. QED
    BY <1>7, <2>1, <2>3
<1>13. ASSUME NEW s \in Segment, Arrive(s) PROVE NestedOK'
  <2>1. PICK f : Pushes(stack, stack', f) /\ f.kind = "node"
    BY <1>13, SetReadyIs DEF ReadyMove, Is, Arrive
  <2>2. ~(n > 1)
    BY <1>1, <1>13 DEF Arrive
  <2>3. QED
    BY <1>7, <2>1, <2>2
<1>14. CASE UNCHANGED stack
  BY <1>5, <1>14
<1>15. CASE FireOnNode
  <2>1. NodeMove /\ stack # << >> /\ Top.kind = "node"
    BY <1>15, FireOnNodeIs
  <2>2. \/ Pops(stack, stack')
        \/ \E g : Continues(stack, stack', g) /\ g.kind = "root"
        \/ \E g, h : Nests(stack, stack', g, h) /\ g.kind = "node"
    BY <2>1 DEF NodeMove, Looks, Is
  <2>3. QED
    BY <1>6, <1>8, <1>9, <2>1, <2>2
<1>16. CASE FireOnRoot
  <2>1. RootMove /\ stack # << >> /\ Top.kind = "root"
    BY <1>16, FireOnRootIs
  <2>2. \/ Pops(stack, stack')
        \/ \E g, h : Nests(stack, stack', g, h) /\ g.kind = "root"
    BY <2>1 DEF RootMove, Looks, Is
  <2>3. QED
    BY <1>6, <1>9, <2>1, <2>2
<1>17. CASE OnStateChanged
  <2>1. HandlerMove /\ stack # << >> /\ Top.kind = "handler"
    BY <1>17, OnStateChangedIs
  <2>2. \/ Pops(stack, stack')
        \/ \E g, h : Nests(stack, stack', g, h) /\ g.kind = "handler"
    BY <2>1 DEF HandlerMove, AbandonedMove, Fires, Is
  <2>3. QED
    BY <1>6, <1>9, <2>1, <2>2
<1>18. CASE ReturnFromCallback
  BY <1>6, <1>18, ReturnFromCallbackIs
<1>19. QED
  BY <1>11, <1>12, <1>13, <1>14, <1>15, <1>16, <1>17, <1>18
  DEF Next, vars, AddCallback, RemoveCallback, Shutdown

LEMMA StepShutdown ==
    ASSUME [Next]_vars
    PROVE  isShutDown => isShutDown'
BY DEF lists, history, Next, vars, FireOnNode, FireOnRoot, FireOnSegment, OnStateChanged,
       Arrive, AddCallback, RemoveCallback, ObjectNeeded, Shutdown, ReturnFromCallback

LEMMA StepProgress ==
    ASSUME StateOK, KeysOK, HandlersOK, ProgressOK, [Next]_vars
    PROVE  ProgressOK'
<1> USE DEF lists, history
<1> DEFINE n == Len(stack)
           Coming(f) == \/ f.kind = "handler" /\ f.arg \notin {FinalSegment, EndOfStream}
                        \/ f.kind = "node" /\ Handler \in f.keys
<1>1. /\ n \in Nat /\ DOMAIN stack = 1..n /\ DOMAIN stack' = 1..Len(stack')
      /\ stack # << >> => n > 0 /\ n \in 1..n /\ Top = stack[n]
  <2>1. stack \in Seq(FrameType) /\ stack' \in Seq(FrameType)
    BY StepTypes DEF StateOK
  <2>2. QED
    BY <2>1, LenProperties, EmptySeq DEF Top
<1>2. /\ FinalSegment \in Nat /\ EndOfStream \notin Int /\ maxReported \in -1..FinalSegment
      /\ object \subseteq 0..FinalSegment /\ object' \subseteq 0..FinalSegment
  BY StepTypes, CallbacksAssumption DEF CallbacksAssumption, StateOK, Segment
<1>3. /\ 0..maxReported \subseteq object
      /\ maxReported < FinalSegment => Handler \in onNode
      /\ ~isShutDown /\ maxReported + 1 \in object => \E i \in 1..n : Coming(stack[i])
  BY <1>1 DEF ProgressOK, IsAt, Finishing
<1>4. ASSUME 0..maxReported' \subseteq object',
             maxReported' < FinalSegment => Handler \in onNode',
             ~isShutDown' /\ maxReported' + 1 \in object' => \E i \in 1..Len(stack') : Coming(stack'[i])
      PROVE  ProgressOK'
  BY <1>1, <1>4 DEF ProgressOK, IsAt, Finishing
<1>5. isShutDown => isShutDown'
  BY StepShutdown
<1> HIDE DEF Coming
<1>6. maxReported + 1 \in object => maxReported < FinalSegment
  BY <1>2
<1>7. ASSUME object' = object, maxReported' = maxReported, onNode \subseteq onNode',
             \A i \in 1..n : Coming(stack[i]) => \E j \in 1..Len(stack') : Coming(stack'[j])
      PROVE  ProgressOK'
  BY <1>3, <1>4, <1>5, <1>7
<1>8. ASSUME stack # << >>, Pops(stack, stack'), ~Coming(Top)
      PROVE  \A i \in 1..n : Coming(stack[i]) => \E j \in 1..Len(stack') : Coming(stack'[j])
  <2>1. \A i \in 1..n : i # n => i \in 1..Len(stack') /\ stack'[i] = stack[i]
    <3>1. Len(stack') = n - 1 /\ \A i \in 1..(n - 1) : stack'[i] = stack[i]
      BY <1>8 DEF Pops, Keeps
    <3> HIDE DEF n
    <3>2. QED
      BY <1>1, <3>1
  <2>2. QED
    BY <1>1, <1>8, <2>1
<1>9. ASSUME stack # << >>, NEW g, NEW h, Nests(stack, stack', g, h),
             Coming(Top) => Coming(g) \/ Coming(h)
      PROVE  \A i \in 1..n : Coming(stack[i]) => \E j \in 1..Len(stack') : Coming(stack'[j])
  <2>1. \A i \in 1..n : i # n => i \in 1..Len(stack') /\ stack'[i] = stack[i]
    <3>1. Len(stack') = n + 1 /\ \A i \in 1..(n - 1) : stack'[i] = stack[i]
      BY <1>9 DEF Nests, Keeps
    <3> HIDE DEF n
    <3>2. QED
      BY <1>1, <3>1
  <2>2. n \in 1..Len(stack') /\ n + 1 \in 1..Len(stack') /\ stack'[n] = g /\ stack'[n + 1] = h
    BY <1>1, <1>9 DEF Nests
  <2>3. QED
    BY <1>1, <1>9, <2>1, <2>2
<1>10. CASE FireOnNode
  <2> DEFINE keys == Live(Top.keys, onNode)
  <2>1. /\ NodeMove /\ stack # << >> /\ Top.kind = "node" /\ Top \in FrameType
        /\ object' = object /\ maxReported' = maxReported /\ onNode' = onNode
    BY <1>10, FireOnNodeIs DEF FireOnNode
  <2>2. CASE maxReported + 1 \notin object
    BY <1>3, <1>4, <1>5, <2>1, <2>2
  <2>3. CASE maxReported + 1 \in object
    <3>1. Handler \in onNode
      BY <1>3, <1>6, <2>3
    <3>2. Coming(Top) => Handler \in keys
      BY <2>1, <3>1 DEF Live, Coming
    <3>3. CASE keys # {}
      <4>1. PICK g, h \in FrameType :
              /\ Nests(stack, stack', g, h)
              /\ Looks(Top, g, h, keys, IF Min(keys) = Handler THEN "handler" ELSE "app",
                                        IF Min(keys) = Handler THEN -1 ELSE Min(keys))
        BY <2>1, <3>3 DEF NodeMove
      <4>2. -1 \notin {FinalSegment, EndOfStream}
        BY <1>2
      <4>3. Coming(Top) => Coming(g) \/ Coming(h)
        <5>1. CASE Min(keys) = Handler
          BY <4>1, <4>2, <5>1 DEF Looks, Is, Coming
        <5>2. CASE Min(keys) # Handler
          <6>1. g.kind = "node" /\ g.keys = keys \ {Min(keys)}
            BY <2>1, <4>1 DEF Looks, Is
          <6>2. QED
            BY <3>2, <5>2, <6>1 DEF Coming
        <5>3. QED
          BY <5>1, <5>2
      <4>4. QED
        BY <1>7, <1>9, <2>1, <4>1, <4>3
    <3>4. CASE keys = {}
      <4>1. ~Coming(Top)
        BY <3>2, <3>4
      <4>2. CASE Pops(stack, stack')
        BY <1>7, <1>8, <2>1, <4>1, <4>2
      <4>3. CASE \E g \in FrameType : Continues(stack, stack', g) /\ Is(g, "root", Top.arg, onRoot)
        <5>1. \A i \in 1..n : i # n => i \in 1..Len(stack') /\ stack'[i] = stack[i]
          <6>1. Len(stack') = n /\ \A i \in 1..(n - 1) : stack'[i] = stack[i]
            BY <4>3 DEF Continues, Keeps
          <6> HIDE DEF n
          <6>2. QED
            BY <1>1, <6>1
        <5>2. \A i \in 1..n : Coming(stack[i]) => \E j \in 1..Len(stack') : Coming(stack'[j])
          BY <1>1, <2>1, <4>1, <5>1
        <5>3. QED
          BY <1>7, <2>1, <5>2
      <4>4. QED
        BY <2>1, <3>4, <4>2, <4>3 DEF NodeMove
    <3>5. QED
      BY <3>3, <3>4
  <2>4. QED
    BY <2>2, <2>3
<1>11. ASSUME stack # << >>, Top.kind \in {"root", "segment", "app"},
              object' = object, maxReported' = maxReported, onNode' = onNode,
              Pops(stack, stack') \/ \E g, h : Nests(stack, stack', g, h)
       PROVE  ProgressOK'
  <2>1. ~Coming(Top)
    BY <1>11 DEF Coming
  <2>2. QED
    BY <1>7, <1>8, <1>9, <1>11, <2>1
<1>12. CASE FireOnRoot
  <2>1. /\ RootMove /\ stack # << >> /\ Top.kind = "root"
        /\ object' = object /\ maxReported' = maxReported /\ onNode' = onNode
    BY <1>12, FireOnRootIs DEF FireOnRoot
  <2>2. Pops(stack, stack') \/ \E g, h : Nests(stack, stack', g, h)
    BY <2>1 DEF RootMove
  <2>3. QED
    BY <1>11, <2>1, <2>2
<1>13. CASE FireOnSegment
  <2>1. /\ SegmentMove /\ stack # << >> /\ Top.kind = "segment"
        /\ object' = object /\ maxReported' = maxReported /\ onNode' = onNode
    BY <1>13, FireOnSegmentIs DEF FireOnSegment
  <2>2. Pops(stack, stack') \/ \E g, h : Nests(stack, stack', g, h)
    BY <2>1 DEF SegmentMove
  <2>3. QED
    BY <1>11, <2>1, <2>2
<1>14. CASE ReturnFromCallback
  <2>1. /\ Pops(stack, stack') /\ stack # << >> /\ Top.kind = "app"
        /\ object' = object /\ maxReported' = maxReported /\ onNode' = onNode
    BY <1>14, ReturnFromCallbackIs DEF ReturnFromCallback
  <2>2. QED
    BY <1>11, <2>1
<1>15. CASE OnStateChanged
  <2>1. HandlerMove /\ stack # << >> /\ Top.kind = "handler" /\ object' = object
    BY <1>15, OnStateChangedIs DEF OnStateChanged
  <2>2. CASE AbandonedMove
    <3>1. isShutDown' /\ maxReported' = maxReported /\ onNode' = onNode
      BY <1>5, <2>2 DEF AbandonedMove
    <3>2. QED
      BY <1>3, <1>4, <2>1, <3>1
  <2>3. CASE ~AbandonedMove /\ Top.arg \in {FinalSegment, EndOfStream}
    <3>1. maxReported = FinalSegment
      BY <1>1, <2>1, <2>3 DEF HandlersOK, Finishing, IsAt
    <3>2. maxReported' = maxReported
      BY <2>1, <2>3 DEF HandlerMove
    <3>3. maxReported + 1 \notin object /\ ~(maxReported < FinalSegment)
      BY <1>2, <3>1
    <3>4. QED
      BY <1>3, <1>4, <2>1, <3>2, <3>3
  <2>4. CASE ~AbandonedMove /\ Top.arg \notin {FinalSegment, EndOfStream} /\ maxReported + 1 \in object
    <3>1. maxReported' = maxReported + 1 /\ Fires(maxReported + 1) /\ onNode' = onNode
      BY <2>1, <2>4 DEF HandlerMove
    <3>2. 0..maxReported' \subseteq object'
      BY <1>2, <1>3, <2>1, <2>4, <3>1
    <3>3. maxReported' < FinalSegment => Handler \in onNode'
      BY <1>2, <1>3, <1>6, <2>4, <3>1
    <3>4. ASSUME maxReported' + 1 \in object'
          PROVE  \E i \in 1..Len(stack') : Coming(stack'[i])
      <4>1. maxReported + 1 # FinalSegment /\ maxReported + 1 # EndOfStream
        BY <1>2, <3>1, <3>4
      <4>2. n \in 1..Len(stack') /\ Coming(stack'[n])
        BY <1>1, <2>1, <3>1, <4>1 DEF Fires, Nests, Is, Coming
      <4>3. QED
        BY <4>2
    <3>5. QED
      BY <1>4, <3>2, <3>3, <3>4
  <2>5. CASE ~AbandonedMove /\ Top.arg \notin {FinalSegment, EndOfStream} /\ maxReported + 1 \notin object
    <3>1. maxReported' = maxReported /\ onNode' = onNode
      BY <2>1, <2>5 DEF HandlerMove
    <3>2. QED
      BY <1>3, <1>4, <1>5, <2>1, <2>5, <3>1
  <2>6. QED
    BY <2>2, <2>3, <2>4, <2>5
<1>16. ASSUME NEW s \in Segment, Arrive(s) PROVE ProgressOK'
  <2>1. /\ ReadyMove /\ object \subseteq object'
        /\ maxReported' = maxReported /\ onNode' = onNode
    BY <1>16, SetReadyIs DEF Arrive
  <2>2. PICK f \in FrameType : Pushes(stack, stack', f) /\ Is(f, "node", f.arg, onNode)
    BY <2>1 DEF ReadyMove
  <2>3. ASSUME maxReported' + 1 \in object' PROVE \E i \in 1..Len(stack') : Coming(stack'[i])
    <3>1. maxReported < FinalSegment
      BY <1>2, <2>1, <2>3
    <3>2. Coming(f)
      BY <1>3, <2>2, <3>1 DEF Is, Coming
    <3>3. n + 1 \in 1..Len(stack') /\ stack'[n + 1] = f
      BY <1>1, <2>2 DEF Pushes
    <3>4. QED
      BY <3>2, <3>3
  <2>4. QED
    BY <1>3, <1>4, <2>1, <2>3
<1>17. CASE ObjectNeeded
  <2>1. /\ ReadyMove /\ object' = object
        /\ maxReported' = maxReported /\ onNode' = onNode
    BY <1>17, ObjectNeededIs DEF ObjectNeeded
  <2>2. \A i \in 1..n : i \in 1..Len(stack') /\ stack'[i] = stack[i]
    BY <1>1, <2>1 DEF ReadyMove, Pushes, Keeps
  <2>3. QED
    BY <1>7, <2>1, <2>2
<1>18. ASSUME object' = object, maxReported' = maxReported, stack' = stack,
              Handler \in onNode => Handler \in onNode'
       PROVE  ProgressOK'
  BY <1>3, <1>4, <1>5, <1>18
<1>19. CASE AddCallback \/ RemoveCallback \/ Shutdown \/ UNCHANGED vars
  BY <1>18, <1>19 DEF AddCallback, RemoveCallback, Shutdown, vars
<1>20. QED
  BY <1>10, <1>12, <1>13, <1>14, <1>15, <1>16, <1>17, <1>19 DEF Next

\* What is behind the end of stream.
LEMMA EndedIs ==
    ASSUME StateOK, HandlersOK, ProgressOK, EndOK, Ended
    PROVE  /\ maxReported = FinalSegment
           /\ \A i \in DOMAIN stack : IsAt(i, "handler") => stack[i].arg # FinalSegment
<1>1. FinalSegment \in Nat /\ EndOfStream # FinalSegment /\ maxReported \in -1..FinalSegment
  BY CallbacksAssumption DEF CallbacksAssumption, StateOK
<1>2. CASE Handler \notin onNode
  <2>1. ~(maxReported < FinalSegment)
    BY <1>2 DEF ProgressOK
  <2>2. maxReported = FinalSegment
    BY <1>1, <2>1
  <2>3. QED
    BY <1>2, <2>2 DEF EndOK, Finishing
<1>3. ASSUME NEW j \in DOMAIN stack, IsAt(j, "handler"), stack[j].arg = EndOfStream
      PROVE  /\ maxReported = FinalSegment
             /\ \A i \in DOMAIN stack : IsAt(i, "handler") => stack[i].arg # FinalSegment
  BY <1>1, <1>3 DEF HandlersOK, Finishing
<1>4. QED
  BY <1>2, <1>3 DEF Ended

\* The end of stream stays behind.
LEMMA StepEnd ==
    ASSUME StateOK, KeysOK, HandlersOK, ProgressOK, EndOK, [Next]_vars
    PROVE  EndOK' /\ (QuietStep \/ Reports => (Ended' <=> Ended))
<1> DEFINE n == Len(stack)
           Fin(f) == f.kind = "handler" /\ f.arg \in {FinalSegment, EndOfStream}
           At(S, a) == \E i \in 1..Len(S) : S[i].kind = "handler" /\ S[i].arg = a
<1>1. /\ n \in Nat /\ DOMAIN stack = 1..n /\ DOMAIN stack' = 1..Len(stack')
      /\ stack # << >> => n > 0 /\ n \in 1..n /\ Top = stack[n]
  <2>1. stack \in Seq(FrameType) /\ stack' \in Seq(FrameType)
    BY StepTypes DEF StateOK
  <2>2. QED
    BY <2>1, LenProperties, EmptySeq DEF Top
<1>2. /\ FinalSegment \in Nat /\ EndOfStream \notin Int /\ maxReported \in -1..FinalSegment
      /\ object \subseteq 0..FinalSegment /\ -1 # FinalSegment /\ EndOfStream # -1
      /\ EndOfStream # FinalSegment
  BY CallbacksAssumption DEF CallbacksAssumption, StateOK, Segment
<1>3. isShutDown => isShutDown'
  BY StepShutdown
<1>4. /\ Handler \notin onNode => \A i \in 1..n : ~Fin(stack[i])
      /\ ~isShutDown /\ maxReported = FinalSegment => Ended \/ At(stack, FinalSegment)
      /\ Ended <=> Handler \notin onNode \/ At(stack, EndOfStream)
      /\ Ended' <=> Handler \notin onNode' \/ At(stack', EndOfStream)
  BY <1>1 DEF EndOK, Ended, Finishing, IsAt
<1>5. \A i, j \in 1..n : Fin(stack[i]) /\ Fin(stack[j]) => i = j
  BY <1>1 DEF HandlersOK, Finishing, IsAt
<1>6. \A i \in 1..n : Fin(stack[i]) => maxReported = FinalSegment
  BY <1>1 DEF HandlersOK, Finishing, IsAt
<1>7. ASSUME Handler \notin onNode' => \A i \in 1..Len(stack') : ~Fin(stack'[i]),
             ~isShutDown' /\ maxReported' = FinalSegment => Ended' \/ At(stack', FinalSegment)
      PROVE  EndOK'
  BY <1>1, <1>7 DEF EndOK, Finishing, IsAt
<1>8. CASE QuietStep
  <2>1. /\ maxReported' = maxReported
        /\ \A i \in 1..Len(stack') : stack'[i].kind = "handler" =>
              (i \in 1..n /\ stack'[i] = stack[i]) \/ stack'[i].arg = -1
        /\ Handler \in onNode' => Handler \in onNode
        /\ Handler \in onNode /\ Handler \notin onNode' =>
              /\ stack # << >> /\ Top.kind = "handler" /\ Top.arg = EndOfStream
              /\ Len(stack') = n - 1
    BY <1>8 DEF QuietStep
  <2>2. \A i \in 1..Len(stack') : Fin(stack'[i]) => i \in 1..n /\ stack'[i] = stack[i]
    BY <1>2, <2>1
  <2>3. Ended => Ended'
    <3>1. CASE Handler \notin onNode
      BY <1>4, <2>1, <3>1
    <3>2. ASSUME NEW i \in 1..n, stack[i].kind = "handler", stack[i].arg = EndOfStream,
                 Handler \in onNode'
          PROVE  At(stack', EndOfStream)
      BY <1>8, <3>2 DEF QuietStep
    <3>3. QED
      BY <1>4, <3>1, <3>2
  <2>4. Ended' => Ended
    <3>1. CASE Handler \notin onNode'
      BY <1>1, <1>4, <2>1, <3>1
    <3>2. CASE At(stack', EndOfStream)
      BY <1>2, <1>4, <2>2, <3>2
    <3>3. QED
      BY <1>4, <3>1, <3>2
  <2>5. ASSUME Handler \notin onNode', NEW i \in 1..Len(stack'), Fin(stack'[i]) PROVE FALSE
    <3>1. i \in 1..n /\ Fin(stack[i])
      BY <2>2, <2>5
    <3>2. Handler \in onNode
      BY <1>4, <3>1
    <3>3. n \in 1..n /\ Fin(stack[n]) /\ Len(stack') = n - 1
      BY <1>1, <2>1, <2>5, <3>2
    <3>4. i = n
      BY <1>5, <3>1, <3>3
    <3> HIDE DEF n, Fin
    <3>5. i \in 1..(n - 1)
      BY <2>5, <3>3
    <3>6. QED
      BY <1>1, <3>4, <3>5
  <2>6. ASSUME ~isShutDown', maxReported' = FinalSegment PROVE Ended' \/ At(stack', FinalSegment)
    <3>1. Ended \/ At(stack, FinalSegment)
      BY <1>3, <1>4, <2>1, <2>6
    <3>2. At(stack, FinalSegment) => At(stack', FinalSegment)
      BY <1>3, <1>8, <2>6 DEF QuietStep
    <3>3. QED
      BY <2>3, <3>1, <3>2
  <2>7. EndOK'
    <3> HIDE DEF Fin, At
    <3>1. QED
      BY <1>7, <2>5, <2>6
  <2>8. QED
    BY <2>3, <2>4, <2>7
<1>9. CASE Reports
  <2>1. /\ stack # << >> /\ Top.kind = "segment"
        /\ Len(stack') = n + 1
        /\ \A i \in 1..(n - 1) : stack'[i] = stack[i]
        /\ stack'[n].kind = "segment" /\ stack'[n + 1].kind = "app"
        /\ onNode' = onNode /\ maxReported' = maxReported
    BY <1>9 DEF Reports, Keeps, Is
  <2>a. n \in Nat /\ n > 0 /\ n \in 1..n /\ Top = stack[n] /\ Len(stack) = n
    BY <1>1, <2>1
  <2> HIDE DEF n
  <2>2. \A i \in 1..Len(stack') : (i \in 1..(n - 1) /\ i \in 1..n) \/ i = n \/ i = n + 1
    BY <2>1, <2>a
  <2>3. \A i \in 1..n : i = n \/ (i \in 1..(n - 1) /\ i \in 1..Len(stack'))
    BY <2>1, <2>a
  <2>4. \A i \in 1..Len(stack') : stack'[i].kind = "handler" => i \in 1..n /\ stack'[i] = stack[i]
    BY <2>1, <2>2
  <2>5. \A i \in 1..n : stack[i].kind = "handler" => i \in 1..Len(stack') /\ stack'[i] = stack[i]
    BY <2>1, <2>3, <2>a
  <2>6. \A a : At(stack', a) <=> At(stack, a)
    BY <2>4, <2>5, <2>a
  <2>7. \A i \in 1..Len(stack') : Fin(stack'[i]) => i \in 1..n /\ Fin(stack[i])
    BY <2>4
  <2> HIDE DEF Fin, At
  <2>8. Ended' <=> Ended
    BY <1>4, <2>1, <2>6
  <2>9. EndOK'
    BY <1>3, <1>4, <1>7, <2>1, <2>6, <2>7, <2>8
  <2>10. QED
    BY <2>8, <2>9
<1>10. CASE FiresNext
  <2>1. /\ stack # << >> /\ Top.kind = "handler"
        /\ Len(stack') = n + 1
        /\ \A i \in 1..(n - 1) : stack'[i] = stack[i]
        /\ onNode' = onNode
    BY <1>10 DEF FiresNext, Keeps
  <2>2. PICK s :
          /\ Is(stack'[n], "handler", s, Top.keys)
          /\ Is(stack'[n + 1], "segment", s, onStream)
          /\ \/ Top.arg = FinalSegment /\ s = EndOfStream /\ maxReported' = maxReported
             \/ /\ Top.arg \notin {FinalSegment, EndOfStream} /\ maxReported + 1 \in object
                /\ s = maxReported + 1 /\ maxReported' = s
    BY <1>10 DEF FiresNext
  <2>a. n \in Nat /\ n > 0 /\ n \in 1..n /\ Top = stack[n] /\ Len(stack) = n
        /\ n \in 1..Len(stack')
    BY <1>1, <2>1
  <2>3. Handler \in onNode'
    <3>1. CASE Top.arg = FinalSegment
      BY <1>4, <2>1, <2>a, <3>1
    <3>2. CASE maxReported + 1 \in object
      <4>1. maxReported < FinalSegment
        BY <1>2, <3>2
      <4>2. QED
        BY <2>1, <4>1 DEF ProgressOK
    <3>3. QED
      BY <2>2, <3>1, <3>2
  <2>4. At(stack', s)
    BY <2>2, <2>a DEF Is
  <2>5. maxReported' = FinalSegment => s \in {EndOfStream, FinalSegment}
    BY <2>2
  <2>6. s = EndOfStream => Ended'
    BY <1>4, <2>4
  <2>7. EndOK'
    <3> HIDE DEF At, Fin
    <3>1. QED
      BY <1>7, <2>3, <2>4, <2>5, <2>6
  <2>8. ~QuietStep /\ ~Reports
    <3>1. ~Reports
      BY <2>1 DEF Reports
    <3>2. stack'[n + 1].kind = "segment" /\ n + 1 \in 1..Len(stack') /\ n + 1 \notin 1..n
      BY <2>1, <2>2, <2>a DEF Is
    <3>3. QED
      BY <3>1, <3>2 DEF QuietStep
  <2>9. QED
    BY <2>7, <2>8
<1>11. QED
  BY <1>8, <1>9, <1>10, HeardSteps

\* The reports that a protected callback has still to hear of are those of the innermost
\* call, or of the one from within which the innermost call is made.
LEMMA OnlyInnermost ==
    ASSUME StateOK, CallersOK, NestedOK, NEW k \in Nat, Protected(k),
           NEW i \in 1..Len(stack), stack[i].kind = "segment", k \in stack[i].keys
    PROVE  i = Len(stack) \/ (i = Len(stack) - 1 /\ Top.kind = "app")
<1> DEFINE n == Len(stack)
<1>1. /\ n \in Nat /\ DOMAIN stack = 1..n /\ \A j \in 1..n : stack[j].kind \in Kinds
  <2>1. stack \in Seq(FrameType)
    BY DEF StateOK
  <2>2. \A j \in 1..n : stack[j] \in FrameType
    BY <2>1, ElementOfSeq
  <2>3. QED
    BY <2>1, <2>2, LenProperties DEF FrameType
<1>2. CASE i = n
  BY <1>2
<1>3. CASE i # n
  <2> HIDE DEF n
  <2>1. n = Len(stack)
    BY DEF n
  <2>2. PICK j \in 1..n : j = i + 1
    <3>1. i \in 1..n /\ i # n /\ n \in Nat
      BY <1>1, <1>3, <2>1
    <3>2. i + 1 \in 1..n
      BY ONLY <3>1
    <3>3. QED
      BY <3>2
  <2>3. j > 1 /\ j # 1 /\ j - 1 = i /\ j \in DOMAIN stack /\ (j < n \/ j = n) /\ i = n - (n - j) - 1
    <3>1. i \in Int /\ n \in Nat /\ i >= 1
      BY <1>1
    <3>2. j > 1 /\ j # 1 /\ j - 1 = i /\ (j < n \/ j = n) /\ i = n - (n - j) - 1
      BY ONLY <2>2, <3>1
    <3>3. QED
      BY <1>1, <3>2
  <2>4. Fits(j, stack[j - 1], stack[j]) /\ stack[j].kind \in Kinds
    BY <1>1, <2>3 DEF CallersOK
  <2>5. stack[j].kind = "app"
    BY <2>3, <2>4 DEF Fits, Kinds
  <2>6. /\ k > stack[j].arg
        /\ j < n => stack[j].arg \in reentrant
    <3>1. IsAt(j, "app") /\ IsAt(j - 1, "segment")
      BY <2>3, <2>5 DEF IsAt
    <3>2. /\ \A m \in stack[j - 1].keys : m > stack[j].arg
          /\ j < Len(stack) => stack[j].arg \in reentrant
      BY <2>3, <3>1 DEF NestedOK
    <3>3. QED
      BY <2>1, <2>3, <3>2
  <2>7. stack[j].arg \in reentrant => k <= stack[j].arg /\ stack[j].arg \in Nat
    <3>1. reentrant \subseteq Nat
      BY CallbacksAssumption DEF StateOK, Key, CallbacksAssumption
    <3>2. QED
      BY <3>1 DEF Protected
  <2>8. j = n
    BY <2>3, <2>6, <2>7
  <2>9. Top = stack[j]
    BY <2>1, <2>8 DEF Top
  <2>10. i = Len(stack) - 1
    <3>1. n \in Int
      BY <1>1
    <3>2. QED
      BY ONLY <2>1, <2>3, <2>8, <3>1
  <2>11. QED
    BY <2>5, <2>9, <2>10
<1>4. QED
  BY <1>2, <1>3

\* A callback is registered until the application removes it or the handler drops them all.
LEMMA StaysRegistered ==
    ASSUME StateOK, KeysOK, [Next]_vars, NEW k \in onStream, k \notin removed'
    PROVE  \/ k \in onStream'
           \/ stack # << >> /\ Top.kind = "handler" /\ Top.arg = EndOfStream
<1> USE DEF lists, history
<1>1. CASE OnStateChanged
  <2>1. HandlerMove /\ stack # << >> /\ Top.kind = "handler"
    BY <1>1, OnStateChangedIs
  <2>2. QED
    BY <2>1 DEF HandlerMove, AbandonedMove
<1>2. QED
  BY <1>1
  DEF Next, vars, FireOnNode, FireOnRoot, FireOnSegment, Arrive, AddCallback,
      RemoveCallback, ObjectNeeded, Shutdown, ReturnFromCallback

LEMMA StaysProtected ==
    ASSUME [Next]_vars, NEW k, Protected(k)'
    PROVE  Protected(k) /\ k \notin removed'
<1> USE DEF lists, history
<1>1. removed \subseteq removed' /\ reentrant \subseteq reentrant'
  BY DEF Next, vars, FireOnNode, FireOnRoot, FireOnSegment, OnStateChanged, Arrive, AddCallback,
         RemoveCallback, ObjectNeeded, Shutdown, ReturnFromCallback
<1>2. QED
  BY <1>1 DEF Protected

\* The n-th report is the segment n - 1, and after the last segment the end of stream.
LEMMA ReportIs ==
    ASSUME NEW m \in Int
    PROVE  Report(m) = IF m = FinalSegment + 2 THEN EndOfStream ELSE m - 1
BY DEF Report

\* A protected callback stays in turn.
LEMMA StepInTurn ==
    ASSUME OrderInv, [Next]_vars, NEW k \in Key, Protected(k)'
    PROVE  InTurn(k)'
<1> DEFINE n == Len(stack)
           In(S) == \E i \in 1..Len(S) : S[i].kind = "segment" /\ k \in S[i].keys
           F(e, max) == IF e THEN FinalSegment + 2 ELSE max + 1
           Turn(e, S, max, h, list) ==
               /\ \A m \in 1..Len(h) : h[m] = Report(m)
               /\ Len(h) = IF In(S) THEN F(e, max) - 1 ELSE F(e, max)
               /\ ~e => k \in list
               /\ \A i \in 1..Len(S) : S[i].kind = "segment" /\ k \in S[i].keys =>
                     k \in list /\ S[i].arg = Report(F(e, max))
<1>1. /\ StateOK /\ KeysOK /\ CallersOK /\ HandlersOK /\ NestedOK /\ StateOK'
      /\ Protected(k) /\ k \notin removed' /\ InTurn(k) /\ k \in Nat
      /\ ProgressOK /\ EndOK
  <2>1. Protected(k) /\ k \notin removed'
    BY StaysProtected
  <2>2. Key \subseteq Nat
    BY CallbacksAssumption DEF Key, CallbacksAssumption
  <2>3. QED
    BY <2>1, <2>2, StepTypes DEF OrderInv
<1>2. /\ n \in Nat /\ DOMAIN stack = 1..n /\ DOMAIN stack' = 1..Len(stack')
      /\ stack # << >> => n > 0 /\ n \in 1..n /\ Top = stack[n]
  <2>1. stack \in Seq(FrameType) /\ stack' \in Seq(FrameType)
    BY <1>1 DEF StateOK
  <2>2. QED
    BY <2>1, LenProperties, EmptySeq DEF Top
<1>3. /\ FinalSegment \in Nat /\ EndOfStream \notin Int /\ maxReported \in -1..FinalSegment
      /\ object \subseteq 0..FinalSegment
  BY <1>1, CallbacksAssumption DEF CallbacksAssumption, StateOK, Segment
<1>4. /\ heard[k] \in Seq(Segment \union {EndOfStream})
      /\ Len(heard[k]) \in Nat /\ DOMAIN heard[k] = 1..Len(heard[k])
      /\ DOMAIN heard'[k] = 1..Len(heard'[k])
  <2>1. heard[k] \in Seq(Segment \union {EndOfStream}) /\ heard'[k] \in Seq(Segment \union {EndOfStream})
    BY <1>1 DEF StateOK
  <2>2. QED
    BY <2>1, LenProperties
<1>5. Turn(Ended, stack, maxReported, heard[k], onStream)
  <2>2. Fired = F(Ended, maxReported)
    BY DEF Fired
  <2>3. (\E i \in DOMAIN stack : IsAt(i, "segment") /\ k \in stack[i].keys) <=> In(stack)
    BY <1>2 DEF IsAt
  <2> HIDE DEF F, In
  <2>4. QED
    BY <1>1, <1>2, <1>4, <2>2, <2>3 DEF InTurn, IsAt
<1>6. ASSUME Turn(Ended', stack', maxReported', heard'[k], onStream') PROVE InTurn(k)'
  <2>2. Fired' = F(Ended', maxReported')
    BY DEF Fired
  <2>3. (\E i \in DOMAIN stack' : stack'[i].kind = "segment" /\ k \in stack'[i].keys) <=> In(stack')
    BY <1>2
  <2>4. \A m : Report(m)' = Report(m)
    BY DEF Report
  <2> HIDE DEF F, In
  <2>5. /\ \A m \in DOMAIN heard'[k] : heard'[k][m] = Report(m)
        /\ Len(heard'[k]) =
             IF \E i \in DOMAIN stack' : stack'[i].kind = "segment" /\ k \in stack'[i].keys
               THEN Fired' - 1 ELSE Fired'
        /\ ~Ended' => k \in onStream'
        /\ \A i \in DOMAIN stack' : stack'[i].kind = "segment" /\ k \in stack'[i].keys =>
              k \in onStream' /\ stack'[i].arg = Report(Fired')
    BY <1>2, <1>4, <1>6, <2>2, <2>3
  <2>6. QED
    BY <2>5 DEF InTurn, IsAt, Report
<1>7. \A i \in 1..n : stack[i].kind = "segment" /\ k \in stack[i].keys =>
          i = n \/ (i = n - 1 /\ Top.kind = "app")
  BY <1>1, OnlyInnermost
<1>8. Ended' => \A i \in DOMAIN stack' : IsAt(i, "handler")' => stack'[i].arg # maxReported'
  <2>1. StateOK' /\ HandlersOK' /\ ProgressOK' /\ EndOK'
    BY <1>1, StepTypes, StepHandlers, StepProgress, StepEnd
  <2>2. (Ended => /\ maxReported = FinalSegment
                  /\ \A i \in DOMAIN stack : IsAt(i, "handler") => stack[i].arg # FinalSegment)'
    BY <2>1, EndedIs, PTL
  <2>3. QED
    BY <2>2
<1>9. CASE QuietStep
  <2>1. heard' = heard /\ maxReported' = maxReported
    BY <1>9 DEF QuietStep
  <2>2. Ended' <=> Ended
    BY <1>1, <1>9, StepEnd
  <2>3. ASSUME NEW i \in 1..Len(stack'), stack'[i].kind = "segment", k \in stack'[i].keys
        PROVE  i \in 1..n /\ stack[i].kind = "segment" /\ k \in stack[i].keys /\ stack'[i] = stack[i]
    BY <1>9, <2>3 DEF QuietStep
  <2>4. ASSUME NEW i \in 1..n, stack[i].kind = "segment", k \in stack[i].keys
        PROVE  i \in 1..Len(stack') /\ stack'[i] = stack[i]
    <3>1. k \in onStream
      BY <1>5, <2>4
    <3>2. Live(stack[i].keys, onStream) # {}
      BY <2>4, <3>1 DEF Live
    <3>3. QED
      BY <1>9, <2>4, <3>2 DEF QuietStep
  <2>5. In(stack) <=> In(stack')
    BY <2>3, <2>4
  <2>6. ASSUME k \in onStream, k \notin onStream' PROVE Ended /\ ~In(stack)
    <3>1. stack # << >> /\ Top.kind = "handler" /\ Top.arg = EndOfStream
      BY <1>1, <2>6, StaysRegistered
    <3>2. Ended
      BY <1>2, <3>1 DEF Ended, IsAt
    <3>3. ~In(stack)
      BY <1>2, <1>7, <3>1
    <3>4. QED
      BY <3>2, <3>3
  <2>7. Turn(Ended', stack', maxReported', heard'[k], onStream')
    <3>1. F(Ended', maxReported') = F(Ended, maxReported)
      BY <2>1, <2>2
    <3>2. ~Ended' => k \in onStream'
      BY <1>5, <2>2, <2>6
    <3>3. ASSUME NEW i \in 1..Len(stack'), stack'[i].kind = "segment", k \in stack'[i].keys
          PROVE  k \in onStream' /\ stack'[i].arg = Report(F(Ended, maxReported))
      <4>1. i \in 1..n /\ stack[i].kind = "segment" /\ k \in stack[i].keys /\ stack'[i] = stack[i]
        BY <2>3, <3>3
      <4>2. In(stack)
        BY <4>1
      <4>3. k \in onStream /\ stack[i].arg = Report(F(Ended, maxReported))
        BY <1>5, <4>1
      <4>4. QED
        BY <2>6, <4>1, <4>2, <4>3
    <3>4. Len(heard[k]) = IF In(stack) THEN F(Ended, maxReported) - 1 ELSE F(Ended, maxReported)
      BY <1>5
    <3>5. \A m \in 1..Len(heard[k]) : heard[k][m] = Report(m)
      BY <1>5
    <3> HIDE DEF F, In
    <3>6. QED
      BY <2>1, <2>5, <3>1, <3>2, <3>3, <3>4, <3>5
  <2>8. QED
    BY <1>6, <2>7
<1>10. CASE FiresNext
  <2>1. /\ stack # << >> /\ Top.kind = "handler"
        /\ Len(stack') = n + 1
        /\ \A i \in 1..(n - 1) : stack'[i] = stack[i]
        /\ heard' = heard /\ onStream' = onStream
    BY <1>10 DEF FiresNext, Keeps
  <2>2. PICK s :
          /\ Is(stack'[n], "handler", s, Top.keys)
          /\ Is(stack'[n + 1], "segment", s, onStream)
          /\ \/ Top.arg = FinalSegment /\ s = EndOfStream /\ maxReported' = maxReported
             \/ /\ Top.arg \notin {FinalSegment, EndOfStream} /\ maxReported + 1 \in object
                /\ s = maxReported + 1 /\ maxReported' = s
    BY <1>10 DEF FiresNext
  <2>3. ~In(stack)
    BY <1>2, <1>7, <2>1
  <2>a. n \in Nat /\ n > 0 /\ n \in 1..n /\ Top = stack[n] /\ Len(stack) = n
    BY <1>2, <2>1
  <2> HIDE DEF n
  <2>4. \A i \in 1..Len(stack') : (i \in 1..(n - 1) /\ i \in 1..n /\ i # n) \/ i = n \/ i = n + 1
    BY <2>a, <2>1
  <2>5. n \in 1..Len(stack') /\ n + 1 \in 1..Len(stack')
    BY <2>a, <2>1
  <2>6. /\ ~Ended
        /\ F(Ended, maxReported) = maxReported + 1
        /\ F(Ended', maxReported') = maxReported + 2
        /\ s = Report(maxReported + 2)
    <3>1. CASE Top.arg = FinalSegment /\ s = EndOfStream /\ maxReported' = maxReported
      <4>1. ~Ended
        BY <1>1, <1>2, <2>a, <2>1, <3>1, EndedIs DEF IsAt
      <4>2. maxReported = FinalSegment
        BY <1>1, <1>2, <2>a, <2>1, <3>1 DEF HandlersOK, Finishing, IsAt
      <4>3. Ended'
        BY <1>2, <2>2, <2>5, <3>1 DEF Ended, IsAt, Is
      <4>6. F(Ended, maxReported) = maxReported + 1
        BY <4>1
      <4>7. F(Ended', maxReported') = FinalSegment + 2
        BY <4>3
      <4>8. s = Report(FinalSegment + 2)
        BY <3>1 DEF Report
      <4> HIDE DEF F
      <4>9. QED
        BY <4>1, <4>2, <4>6, <4>7, <4>8
    <3>2. CASE /\ Top.arg \notin {FinalSegment, EndOfStream} /\ maxReported + 1 \in object
               /\ s = maxReported + 1 /\ maxReported' = s
      <4>1. maxReported # FinalSegment /\ maxReported + 2 # FinalSegment + 2
        BY <1>3, <3>2
      <4>8. ~Ended
        BY <1>1, <4>1, EndedIs
      <4>2. F(Ended, maxReported) = maxReported + 1
        BY <4>8
      <4>3. ~Ended'
        BY <1>2, <1>8, <2>2, <2>5, <3>2 DEF IsAt, Is
      <4>4. F(Ended', maxReported') = maxReported' + 1
        BY <4>3
      <4> HIDE DEF F
      <4>5. maxReported' + 1 = maxReported + 2 /\ s = maxReported + 2 - 1
        BY <1>3, <3>2
      <4>6. F(Ended', maxReported') = maxReported + 2
        BY <4>4, <4>5
      <4>7. s = Report(maxReported + 2)
        <5>1. Report(maxReported + 2) = maxReported + 2 - 1
          <6>1. maxReported \in Int /\ FinalSegment \in Nat
            BY <1>3
          <6>2. maxReported + 2 \in Int /\ maxReported + 2 # FinalSegment + 2
            BY <4>1, <6>1
          <6>3. QED
            BY <6>1, <6>2, ReportIs
        <5>2. QED
          BY ONLY <4>5, <5>1
      <4>9. QED
        BY <4>2, <4>6, <4>7, <4>8
    <3>3. QED
      BY <2>2, <3>1, <3>2
  <2>7. k \in onStream /\ Len(heard[k]) = maxReported + 1 /\ \A m \in 1..Len(heard[k]) : heard[k][m] = Report(m)
    <3>1. k \in onStream
      BY <1>5, <2>6
    <3>2. Len(heard[k]) = F(Ended, maxReported)
      BY <1>5, <2>3
    <3>3. \A m \in 1..Len(heard[k]) : heard[k][m] = Report(m)
      BY <1>5
    <3> HIDE DEF F
    <3>4. QED
      BY <2>6, <3>1, <3>2, <3>3
  <2>8. In(stack')
    BY <2>2, <2>5, <2>7 DEF Is
  <2>9. ASSUME NEW i \in 1..Len(stack'), stack'[i].kind = "segment", k \in stack'[i].keys
        PROVE  k \in onStream /\ stack'[i].arg = s
    <3>1. i # n
      BY <2>2, <2>9 DEF Is
    <3>2. ~(i \in 1..(n - 1) /\ i \in 1..n)
      BY <2>a, <2>1, <2>3, <2>9
    <3>3. i = n + 1
      BY <2>4, <3>1, <3>2
    <3>4. QED
      BY <2>2, <2>7, <3>3 DEF Is
  <2>10. Turn(Ended', stack', maxReported', heard'[k], onStream')
    <3> HIDE DEF F, In
    <3>1. maxReported + 1 = maxReported + 2 - 1
      BY <1>3
    <3>2. heard'[k] = heard[k] /\ k \in onStream'
      BY <2>1, <2>7
    <3>3. Len(heard'[k]) = F(Ended', maxReported') - 1
      <4>1. F(Ended', maxReported') = maxReported + 2 /\ Len(heard[k]) = maxReported + 1
        BY <2>6, <2>7
      <4>2. QED
        <5>0. maxReported \in Int /\ maxReported + 2 \in Int
          BY <1>3
        <5>1. F(Ended', maxReported') - 1 = maxReported + 2 - 1
          <6>1. \A x, y \in Int : x = y => x - 1 = y - 1
            OBVIOUS
          <6>2. F(Ended', maxReported') \in Int
            BY <4>1, <5>0
          <6>3. QED
            BY ONLY <4>1, <5>0, <6>1, <6>2
        <5>2. Len(heard'[k]) = maxReported + 1
          BY <3>2, <4>1
        <5>3. QED
          BY <3>1, <5>1, <5>2
    <3>4. \A m \in 1..Len(heard'[k]) : heard'[k][m] = Report(m)
      BY <2>7, <3>2
    <3>5. ASSUME NEW i \in 1..Len(stack'), stack'[i].kind = "segment", k \in stack'[i].keys
          PROVE  k \in onStream' /\ stack'[i].arg = Report(F(Ended', maxReported'))
      BY <2>6, <2>9, <3>2, <3>5
    <3>6. QED
      BY <2>8, <3>2, <3>3, <3>4, <3>5
  <2>11. QED
    BY <1>6, <2>10
<1>11. CASE Reports
  <2> DEFINE keys == Live(Top.keys, onStream)
             a == Top.arg
  <2>0. PICK c : c = Min(keys)
    OBVIOUS
  <2>1. /\ stack # << >> /\ Top.kind = "segment" /\ keys # {}
        /\ Len(stack') = n + 1
        /\ \A i \in 1..(n - 1) : stack'[i] = stack[i]
        /\ Is(stack'[n], "segment", a, keys \ {c})
        /\ stack'[n + 1].kind = "app"
        /\ heard' = [heard EXCEPT ![c] = Append(@, a)]
        /\ onStream' = onStream /\ maxReported' = maxReported
    BY <1>2, <1>11, <2>0 DEF Reports, Keeps, Is
  <2>2. c \in keys /\ c \in Key
    <3>1. keys \in SUBSET Key
      BY <1>1, KeysAreKeys DEF Live, KeysOK
    <3>2. QED
      BY <2>0, <2>1, <3>1, LowestKey
  <2>3. keys \subseteq Top.keys /\ (k \in keys <=> k \in Top.keys /\ k \in onStream)
    BY DEF Live
  <2>a. n \in Nat /\ n > 0 /\ n \in 1..n /\ Top = stack[n] /\ Len(stack) = n
    BY <1>2, <2>1
  <2> HIDE DEF n, keys
  <2>4. \A i \in 1..Len(stack') : (i \in 1..(n - 1) /\ i \in 1..n /\ i # n) \/ i = n \/ i = n + 1
    BY <2>a, <2>1
  <2>5. n \in 1..Len(stack') /\ n + 1 \in 1..Len(stack') /\ 1..(n - 1) \subseteq 1..Len(stack')
        /\ \A i \in 1..n : i # n => i \in 1..(n - 1)
    BY <2>a, <2>1
  <2>6. Ended' <=> Ended
    BY <1>1, <1>11, StepEnd
  <2>7. F(Ended', maxReported') = F(Ended, maxReported)
    BY <2>1, <2>6
  <2>8. ~(\E i \in 1..n : i # n /\ stack[i].kind = "segment" /\ k \in stack[i].keys)
    BY <1>7, <2>1
  <2>9. In(stack) <=> k \in Top.keys
    BY <2>a, <2>1, <2>8
  <2>10. In(stack') <=> k \in keys /\ k # c
    <3>1. ASSUME k \in keys, k # c PROVE In(stack')
      BY <2>1, <2>5, <3>1 DEF Is
    <3>2. ASSUME NEW i \in 1..Len(stack'), stack'[i].kind = "segment", k \in stack'[i].keys
          PROVE  i = n /\ k \in keys /\ k # c
      <4>1. i # n + 1
        BY <2>1, <3>2
      <4>2. ~(i \in 1..(n - 1) /\ i \in 1..n /\ i # n)
        BY <2>1, <2>8, <3>2
      <4>3. i = n
        BY <2>4, <4>1, <4>2
      <4>4. QED
        BY <2>1, <3>2, <4>3 DEF Is
    <3>3. QED
      BY <3>1, <3>2
  <2>11. k \in Top.keys => k \in onStream /\ a = Report(F(Ended, maxReported))
    BY <1>5, <2>a, <2>1
  <2>12. \A i \in 1..Len(stack') : stack'[i].kind = "segment" /\ k \in stack'[i].keys =>
             k \in onStream /\ stack'[i].arg = Report(F(Ended, maxReported))
    <3>1. ASSUME NEW i \in 1..Len(stack'), stack'[i].kind = "segment", k \in stack'[i].keys
          PROVE  k \in onStream /\ stack'[i].arg = Report(F(Ended, maxReported))
      <4>1. i # n + 1
        BY <2>1, <3>1
      <4>2. ~(i \in 1..(n - 1) /\ i \in 1..n /\ i # n)
        BY <2>1, <2>8, <3>1
      <4>3. i = n
        BY <2>4, <4>1, <4>2
      <4>4. k \in Top.keys /\ stack'[i].arg = a
        BY <2>1, <2>3, <3>1, <4>3 DEF Is
      <4>5. QED
        BY <2>11, <4>4
    <3>2. QED
      BY <3>1
  <2>13. /\ Len(heard[k]) = IF k \in Top.keys THEN F(Ended, maxReported) - 1 ELSE F(Ended, maxReported)
         /\ \A m \in 1..Len(heard[k]) : heard[k][m] = Report(m)
         /\ ~Ended => k \in onStream
    <3>1. Len(heard[k]) = IF In(stack) THEN F(Ended, maxReported) - 1 ELSE F(Ended, maxReported)
      BY <1>5
    <3>2. \A m \in 1..Len(heard[k]) : heard[k][m] = Report(m)
      BY <1>5
    <3>3. ~Ended => k \in onStream
      BY <1>5
    <3> HIDE DEF In, F
    <3>4. QED
      BY <2>9, <3>1, <3>2, <3>3
  <2>14. F(Ended, maxReported) \in Nat
    BY <1>3
  <2>15. CASE k # c
    <3>1. heard'[k] = heard[k]
      BY <1>1, <2>1, <2>15 DEF StateOK
    <3>2. In(stack') <=> k \in Top.keys
      BY <2>3, <2>10, <2>11, <2>15
    <3> HIDE DEF In, F
    <3>3. Turn(Ended', stack', maxReported', heard'[k], onStream')
      BY <2>1, <2>6, <2>7, <2>12, <2>13, <3>1, <3>2
    <3>4. QED
      BY <1>6, <3>3
  <2>16. CASE k = c
    <3>1. heard'[k] = Append(heard[k], a)
      BY <1>1, <2>1, <2>2, <2>16 DEF StateOK
    <3>2. k \in Top.keys /\ ~In(stack')
      BY <2>2, <2>3, <2>10, <2>16
    <3>3. a \in Segment \union {EndOfStream}
      BY <1>1, <1>2, <2>a, <2>1 DEF KeysOK, FrameOK
    <3> HIDE DEF In, F
    <3>4. /\ Len(heard'[k]) = Len(heard[k]) + 1
          /\ \A m \in 1..Len(heard[k]) : heard'[k][m] = heard[k][m]
          /\ heard'[k][Len(heard[k]) + 1] = a
      BY <1>4, <3>1, <3>3, AppendProperties
    <3>5. Len(heard[k]) + 1 = F(Ended, maxReported)
      BY <1>4, <2>13, <2>14, <3>2
    <3>6. a = Report(F(Ended, maxReported))
      BY <2>11, <3>2
    <3>7. \A m \in 1..Len(heard'[k]) : m \in 1..Len(heard[k]) \/ m = Len(heard[k]) + 1
      BY <1>4, <3>4
    <3>8. \A m \in 1..Len(heard'[k]) : heard'[k][m] = Report(m)
      BY <2>13, <3>4, <3>5, <3>6, <3>7
    <3>9. Turn(Ended', stack', maxReported', heard'[k], onStream')
      BY <2>1, <2>6, <2>7, <2>12, <2>13, <3>2, <3>4, <3>5, <3>8
    <3>10. QED
      BY <1>6, <3>9
  <2>17. QED
    BY <2>15, <2>16
<1>12. QED
  BY <1>1, <1>9, <1>10, <1>11, HeardSteps

\* No report has been fired at the start.
LEMMA InitOrder == Init => OrderInv
<1> SUFFICES ASSUME Init PROVE OrderInv
  OBVIOUS
<1>1. StateOK /\ KeysOK
  BY InitTypes
<1>2. /\ DOMAIN stack = {} /\ maxReported = -1 /\ object = {}
      /\ onStream = OnStream /\ Handler \in onNode
  BY DEF Init
<1>3. CallersOK /\ HandlersOK /\ NestedOK
  BY <1>2 DEF CallersOK, HandlersOK, NestedOK
<1>4. ProgressOK /\ EndOK
  <2>1. maxReported # FinalSegment
    BY <1>2, CallbacksAssumption DEF CallbacksAssumption
  <2>2. QED
    BY <1>2, <2>1 DEF ProgressOK, EndOK
<1>5. ASSUME NEW k \in Key, Protected(k) PROVE InTurn(k)
  <2>1. ~Ended /\ Fired = 0
    BY <1>2 DEF Ended, Fired
  <2>2. heard[k] = << >> /\ DOMAIN heard[k] = {} /\ Len(heard[k]) = 0
    BY <1>5 DEF Init
  <2>3. k \in onStream
    BY <1>2, <1>5 DEF Protected
  <2>4. QED
    BY <1>2, <2>1, <2>2, <2>3 DEF InTurn
<1>6. QED
  BY <1>1, <1>3, <1>4, <1>5 DEF OrderInv

\* The parts of the order hold in every state, for every nesting of the calls.
THEOREM CallbacksOrder == Spec => []OrderInv
<1>1. ASSUME OrderInv, [Next]_vars PROVE OrderInv'
  <2>1. StateOK /\ KeysOK /\ CallersOK /\ HandlersOK /\ NestedOK /\ ProgressOK /\ EndOK
    BY <1>1 DEF OrderInv
  <2>2. /\ StateOK' /\ KeysOK' /\ CallersOK' /\ HandlersOK' /\ NestedOK' /\ ProgressOK'
        /\ EndOK'
    BY <1>1, <2>1, StepTypes, StepCallers, StepHandlers, StepNested, StepProgress, StepEnd
  <2>3. ASSUME NEW k \in Key, Protected(k)' PROVE InTurn(k)'
    BY <1>1, <2>3, StepInTurn
  <2>4. \A k \in Key : Protected(k)' => InTurn(k)'
    BY <2>3
  <2>5. Key' = Key
    BY DEF Key
  <2>6. QED
    BY <2>2, <2>4, <2>5 DEF OrderInv
<1>2. OrderInv /\ [Next]_vars => OrderInv'
  BY <1>1
<1>3. QED
  BY <1>2, InitOrder, PTL DEF Spec

\* What there is to report, by the smallest segment that is missing.
LEMMA DueIs ==
    ASSUME object \subseteq Segment, maxReported \in -1..FinalSegment,
           0..maxReported \subseteq object
    PROVE  \E x \in (maxReported + 1)..(FinalSegment + 1) :
              /\ maxReported + 1 \notin object => x = maxReported + 1
              /\ Due \in Seq(Segment \union {EndOfStream})
              /\ Len(Due) = IF x > FinalSegment THEN x + 1 ELSE x
              /\ \A i \in 1..Len(Due) : Due[i] = Report(i)
<1> DEFINE missing == Nat \ object
           whole == {s \in Segment : 0..s \subseteq object}
           Data == Segment \union {EndOfStream}
<1>1. FinalSegment \in Nat /\ Segment = 0..FinalSegment
  BY CallbacksAssumption DEF CallbacksAssumption, Segment
<1>2. PICK x \in missing : \A y \in missing : x <= y
  <2>1. FinalSegment + 1 \in missing
    BY <1>1
  <2>2. missing \in SUBSET Nat /\ missing # {}
    BY <2>1
  <2>3. QED
    BY <2>2, MinIs
<1>3. x \in (maxReported + 1)..(FinalSegment + 1) /\ x \in Nat
  <2>1. FinalSegment + 1 \in missing /\ x \in Nat
    BY <1>1
  <2>2. x <= FinalSegment + 1
    BY <1>2, <2>1
  <2>3. x \notin 0..maxReported
    BY <1>2
  <2>4. QED
    BY <1>1, <2>1, <2>2, <2>3
<1>4. maxReported + 1 \notin object => x = maxReported + 1
  BY <1>2, <1>3
<1>5. whole = 0..(x - 1)
  <2>1. ASSUME NEW s \in whole PROVE s \in 0..(x - 1)
    <3>1. s \in Nat /\ x \notin 0..s
      BY <1>1, <1>2
    <3>2. QED
      BY <1>3, <3>1
  <2>2. ASSUME NEW s \in 0..(x - 1) PROVE s \in whole
    <3>1. s \in Segment
      BY <1>1, <1>3
    <3>2. ASSUME NEW t \in 0..s PROVE t \in object
      <4>1. t \in Nat /\ ~(x <= t)
        BY <1>3
      <4>2. QED
        BY <1>2, <4>1
    <3>3. QED
      BY <3>1, <3>2
  <2>3. QED
    BY <2>1, <2>2
<1>6. Cardinality(whole) = x
  <2>1. Cardinality(0..(x - 1)) = IF 0 > x - 1 THEN 0 ELSE x - 1 - 0 + 1
    BY <1>3, FS_Interval
  <2>2. \A y \in Nat : (IF 0 > y - 1 THEN 0 ELSE y - 1 - 0 + 1) = y
    OBVIOUS
  <2>3. Cardinality(0..(x - 1)) = x
    BY ONLY <1>3, <2>1, <2>2
  <2>4. QED
    BY <1>5, <2>3
<1> DEFINE a == [i \in 1..x |-> i - 1]
           b == IF x > FinalSegment THEN <<EndOfStream>> ELSE << >>
<1>7. Due = a \o b
  BY <1>6 DEF Due
<1> HIDE DEF missing, whole
<1>8. /\ a \in Seq(Data) /\ Len(a) = x
      /\ \A i \in 1..x : a[i] = i - 1
  <2>1. \A i \in 1..x : i - 1 \in Data
    BY <1>1, <1>3
  <2>2. a \in [1..x -> Data] /\ DOMAIN a = 1..x
    BY <2>1
  <2>3. a \in Seq(Data)
    BY <1>3, <2>2
  <2>4. QED
    BY <1>3, <2>2, <2>3, LenProperties
<1>9. /\ b \in Seq(Data)
      /\ x > FinalSegment => Len(b) = 1 /\ b[1] = EndOfStream
      /\ ~(x > FinalSegment) => Len(b) = 0
  <2>1. CASE x > FinalSegment
    <3>1. b = <<EndOfStream>>
      BY <2>1
    <3> HIDE DEF b
    <3>2. <<EndOfStream>> \in Seq(Data) /\ Len(<<EndOfStream>>) = 1
      OBVIOUS
    <3>3. QED
      BY <2>1, <3>1, <3>2
  <2>2. CASE ~(x > FinalSegment)
    <3>1. b = << >>
      BY <2>2
    <3> HIDE DEF b
    <3>2. QED
      BY <2>2, <3>1
  <2>3. QED
    BY <2>1, <2>2
<1> HIDE DEF a, b
<1>10. /\ a \o b \in Seq(Data)
       /\ Len(a \o b) = Len(a) + Len(b)
       /\ \A i \in 1..(Len(a) + Len(b)) : (a \o b)[i] = IF i <= Len(a) THEN a[i] ELSE b[i - Len(a)]
  BY <1>8, <1>9, ConcatProperties
<1>11. /\ Due \in Seq(Data)
       /\ Len(Due) = IF x > FinalSegment THEN x + 1 ELSE x
  <2>1. Due \in Seq(Data) /\ Len(Due) = x + Len(b)
    BY <1>7, <1>8, <1>10
  <2>2. CASE x > FinalSegment
    BY <1>9, <2>1, <2>2
  <2>3. CASE ~(x > FinalSegment)
    BY <1>3, <1>9, <2>1, <2>3
  <2>4. QED
    BY <2>2, <2>3
<1>12. ASSUME NEW i \in 1..Len(Due) PROVE Due[i] = Report(i)
  <2>1. CASE i <= x
    <3>1. i \in 1..x /\ i # FinalSegment + 2
      BY <1>1, <1>3, <1>11, <2>1
    <3>2. Due[i] = i - 1
      BY <1>7, <1>8, <1>10, <1>11, <2>1, <3>1
    <3>3. QED
      BY <3>1, <3>2 DEF Report
  <2>2. CASE ~(i <= x)
    <3>1. x > FinalSegment /\ x = FinalSegment + 1 /\ i = FinalSegment + 2 /\ i - x = 1
      BY <1>1, <1>3, <1>11, <2>2
    <3>2. Due[i] = EndOfStream
      BY <1>7, <1>8, <1>9, <1>10, <1>11, <2>2, <3>1
    <3>3. QED
      BY <3>1, <3>2 DEF Report
  <2>3. QED
    BY <2>1, <2>2
<1>13. QED
  BY <1>3, <1>4, <1>11, <1>12

\* A sequence of the first reports is a prefix of all of them.
LEMMA PrefixOfDue ==
    ASSUME NEW S, NEW s \in Seq(S), NEW t \in Seq(S), Len(s) <= Len(t),
           \A i \in 1..Len(s) : s[i] = t[i]
    PROVE  IsPrefix(s, t)
<1> DEFINE n == Len(s)
<1>1. n \in Nat /\ Len(t) \in Nat /\ n <= Len(t) /\ 1..n \subseteq 1..Len(t)
  <2>1. n \in Nat /\ Len(t) \in Nat /\ n <= Len(t)
    BY LenProperties
  <2> HIDE DEF n
  <2>2. QED
    BY <2>1
<1>2. \A i \in 1..n : s[i] \in S /\ t[i] \in S
  BY <1>1, ElementOfSeq
<1>3. /\ SubSeq(s, 1, n) \in Seq(S) /\ SubSeq(t, 1, n) \in Seq(S)
      /\ Len(SubSeq(s, 1, n)) = Len(SubSeq(t, 1, n))
      /\ \A i \in 1..(n - 1 + 1) : SubSeq(s, 1, n)[i] = s[1 + i - 1] /\ SubSeq(t, 1, n)[i] = t[1 + i - 1]
      /\ Len(SubSeq(s, 1, n)) = IF 1 <= n THEN n - 1 + 1 ELSE 0
  <2> HIDE DEF n
  <2>1. 1 \in Int /\ n \in Int
    BY <1>1
  <2>2. QED
    BY <1>2, <2>1, SubSeqProperties
<1>4. \A i \in 1..Len(SubSeq(s, 1, n)) : SubSeq(s, 1, n)[i] = SubSeq(t, 1, n)[i]
  <2>1. ASSUME NEW i \in 1..Len(SubSeq(s, 1, n))
        PROVE  SubSeq(s, 1, n)[i] = SubSeq(t, 1, n)[i]
    <3>1. i \in 1..n /\ i \in 1..(n - 1 + 1) /\ 1 + i - 1 = i /\ s[i] = t[i]
      <4>1. Len(SubSeq(s, 1, n)) = n
        <5> HIDE DEF n
        <5>1. QED
          BY <1>1, <1>3
      <4>2. i \in 1..n
        BY <4>1
      <4>3. s[i] = t[i]
        BY <4>2
      <4> HIDE DEF n
      <4>4. QED
        BY <1>1, <4>2, <4>3
    <3> HIDE DEF n
    <3>2. QED
      BY <1>3, <3>1
  <2>2. QED
    BY <2>1
<1>5. SubSeq(s, 1, n) = SubSeq(t, 1, n)
  BY <1>3, <1>4, SeqEqual
<1>6. QED
  BY <1>1, <1>5 DEF IsPrefix

\* Unless an earlier callback that calls objectNeeded() gets ahead of it, an onSegment
\* callback is called with the segments in order, and unless the Namespace is shut down has had
\* all of them when the calls have returned, however deep they were nested.
THEOREM CallbacksInOrder == Spec => []InOrder
<1>1. OrderInv => InOrder
  <2> SUFFICES ASSUME OrderInv, NEW k \in OnStream \ removed, \A r \in reentrant : k <= r
               PROVE  /\ IsPrefix(heard[k], Due)
                      /\ stack = << >> /\ ~isShutDown => heard[k] = Due
    BY DEF InOrder
  <2>1. /\ FinalSegment \in Nat /\ LastKey \in Nat /\ MaxActs \in Nat /\ k \in 0..LastKey
    BY CallbacksAssumption DEF CallbacksAssumption
  <2>2. k \in Key /\ Protected(k)
    BY <2>1 DEF Key, Protected
  <2>3. StateOK /\ HandlersOK /\ ProgressOK /\ EndOK /\ InTurn(k)
    BY <2>2 DEF OrderInv
  <2>4. /\ object \subseteq Segment /\ maxReported \in -1..FinalSegment
        /\ 0..maxReported \subseteq object
    BY <2>3 DEF StateOK, ProgressOK
  <2>5. PICK x \in (maxReported + 1)..(FinalSegment + 1) :
              /\ maxReported + 1 \notin object => x = maxReported + 1
              /\ Due \in Seq(Segment \union {EndOfStream})
              /\ Len(Due) = IF x > FinalSegment THEN x + 1 ELSE x
              /\ \A i \in 1..Len(Due) : Due[i] = Report(i)
    BY <2>4, DueIs
  <2> DEFINE h == heard[k]
  <2>6. h \in Seq(Segment \union {EndOfStream}) /\ Len(h) \in Nat /\ DOMAIN h = 1..Len(h)
    <3>1. h \in Seq(Segment \union {EndOfStream})
      BY <2>2, <2>3 DEF StateOK
    <3>2. QED
      BY <3>1, LenProperties
  <2>7. /\ \A i \in 1..Len(h) : h[i] = Report(i)
        /\ Len(h) = Fired - 1 \/ Len(h) = Fired
        /\ stack = << >> => Len(h) = Fired
    BY <2>3, <2>6 DEF InTurn
  <2> HIDE DEF h
  <2>8. Fired <= Len(Due)
    <3>1. CASE Ended
      <4>1. maxReported = FinalSegment /\ Fired = FinalSegment + 2
        BY <2>3, <3>1, EndedIs DEF Fired
      <4>2. QED
        BY <2>1, <2>5, <4>1
    <3>2. CASE ~Ended
      <4>1. Fired = maxReported + 1
        BY <3>2 DEF Fired
      <4>2. QED
        BY <2>1, <2>4, <2>5, <4>1
    <3>3. QED
      BY <3>1, <3>2
  <2>9. Fired \in Int
    BY <2>1, <2>4 DEF Fired
  <2>10. Len(h) <= Len(Due) /\ 1..Len(h) \subseteq 1..Len(Due)
    <3>1. Len(Due) \in Int
      BY <2>1, <2>4, <2>5
    <3>2. QED
      <4>1. \A p, q, r \in Int : q <= r /\ (p = q - 1 \/ p = q) => p <= r /\ 1..p \subseteq 1..r
        OBVIOUS
      <4>2. Len(h) \in Int /\ (Len(h) = Fired - 1 \/ Len(h) = Fired)
        BY <2>6, <2>7
      <4>3. QED
        BY ONLY <2>8, <2>9, <3>1, <4>1, <4>2
  <2>11. \A i \in 1..Len(h) : h[i] = Due[i]
    BY <2>5, <2>7, <2>10
  <2>12. IsPrefix(h, Due)
    BY <2>5, <2>6, <2>10, <2>11, PrefixOfDue
  <2>13. ASSUME stack = << >>, ~isShutDown PROVE h = Due
    <3>1. DOMAIN stack = {}
      BY <2>13
    <3>2. maxReported + 1 \notin object
      BY <2>3, <2>13, <3>1 DEF ProgressOK
    <3>3. Ended <=> maxReported = FinalSegment
      BY <2>3, <2>13, <3>1, EndedIs DEF EndOK
    <3>4. Fired = IF maxReported = FinalSegment THEN FinalSegment + 2 ELSE maxReported + 1
      BY <3>3 DEF Fired
    <3>5. Len(Due) = Fired
      BY <2>1, <2>4, <2>5, <3>2, <3>4
    <3>6. Len(h) = Len(Due)
      BY <2>7, <2>13, <3>5
    <3>7. QED
      BY <2>5, <2>6, <2>11, <3>6, SeqEqual
  <2>14. QED
    BY <2>12, <2>13 DEF h
<1>2. QED
  BY <1>1, CallbacksOrder, PTL
================================================================================
