--------------------------- MODULE MCNamespaceSync --------------------------
(* Values of the constants of NamespaceSync for TLC. *)
EXTENDS NamespaceSync

\* Two branches, one of them deeper than the sync depth.
Branches == {<< >>, <<1>>, <<1, 1>>, <<2>>}
RootAndBranch == {<< >>, <<1>>}
=============================================================================
