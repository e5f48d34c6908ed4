------------------------- MODULE MCGeneralizedObject -------------------------
(* Values of the constants of GeneralizedObject for TLC. *)
EXTENDS GeneralizedObject

AllMarked == 0..FinalSegment   \* a producer that uses setObject
=============================================================================
