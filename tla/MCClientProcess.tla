--------------------------- MODULE MCClientProcess ---------------------------
(***************************************************************************)
(* Instances of ClientProcess for TLC.                                     *)
(***************************************************************************)
EXTENDS ClientProcess

CONSTANT s1
=============================================================================
