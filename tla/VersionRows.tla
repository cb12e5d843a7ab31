----------------------------- MODULE VersionRows -----------------------------
(***************************************************************************)
(* What the shared version table promises to the client processes of one   *)
(* machine (README.md:139-147): a row for each client id, which only the   *)
(* client with that id changes, in one step and on its own.  Only a power  *)
(* loss can take rows back, and then the whole table to a state it has     *)
(* been in.                                                                *)
(*                                                                         *)
(* VersionTable implements this with a text file, a lock file and a        *)
(* temporary file that is renamed.                                         *)
(***************************************************************************)
EXTENDS Naturals

CONSTANTS
  Id,        \* ids that may have a row
  Client,    \* the ids whose clients run
  Version

VARIABLES
  rows,      \* the version in each id's row, 0 when it has none
  past       \* the states the table has been in

vars == <<rows, past>>

Init == rows \in [Id -> Version \cup {0}] /\ past = {rows}

Record(p, v) ==
  /\ rows' = [rows EXCEPT ![p] = v]
  /\ past' = past \cup {rows'}

PowerLoss == rows' \in past /\ UNCHANGED past

Next == (\E p \in Client, v \in Version : Record(p, v)) \/ PowerLoss

Spec == Init /\ [][Next]_vars
=============================================================================
