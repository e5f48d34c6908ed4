----------------------------- MODULE MCNamespace -----------------------------
(* Values of the constants of Namespace for TLC. *)
EXTENDS Namespace

\* A root, its child, and two grandchildren.
Names == {<< >>, <<1>>, <<1, 1>>, <<1, 2>>}
Path == {<< >>, <<1>>, <<1, 1>>}
NoNames == {}
RootOnly == {<< >>}
Parent == {<<1>>}
First == {<<1, 1>>}
Second == {<<1, 2>>}
Leaves == First \union Second
ParentAndSecond == Parent \union Second
AllButSecond == RootOnly \union Parent \union First
ParentAndFirst == Parent \union First
RootAndLeaves == RootOnly \union Leaves
RootAndSecond == RootOnly \union Second

NoInterests == {}
PrefixAndLeaf == {OwnInterest(<<1>>, TRUE), OwnInterest(<<1, 1>>, FALSE)}
ProducedNames == {OwnInterest(<<1>>, TRUE), OwnInterest(<<1, 2>>, FALSE)}
FirstInterest == {OwnInterest(<<1, 1>>, FALSE)}
=============================================================================
