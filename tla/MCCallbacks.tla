------------------------------ MODULE MCCallbacks ------------------------------
(* Callbacks has no constants that need a definition. *)
EXTENDS Callbacks
===============================================================================
