-------------------------- MODULE MCServerServices --------------------------
(***************************************************************************)
(* An instance of ServerServices for TLC: two workers and one reload of    *)
(* one package, so that the calls of log_msg fit into MaxCalls without     *)
(* meeting it: three of the acceptor, one of the reload thread, one of the *)
(* workers and one of main.  What a reload can read is the matter of       *)
(* MCManifest.                                                             *)
(***************************************************************************)
EXTENDS ServerServices

CONSTANTS w1, w2

Packages == { <<1, 0>> }
Confs ==
  { << [key |-> "LATEST_VERSION", value |-> 1], [key |-> "PACKAGE_FILE", value |-> "package"] >> }
=============================================================================
