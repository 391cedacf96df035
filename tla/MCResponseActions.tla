------------------------ MODULE MCResponseActions ------------------------
(* Instances of ResponseActions for TLC. *)
EXTENDS ResponseActions
===========================================================================
