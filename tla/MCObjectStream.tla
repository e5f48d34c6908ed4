--------------------------- MODULE MCObjectStream ---------------------------
(* Values of the constants of ObjectStream for TLC. *)
EXTENDS ObjectStream

WithGap  == {0, 2}   \* setObject leaves a number out
=============================================================================
