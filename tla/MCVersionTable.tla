--------------------------- MODULE MCVersionTable ---------------------------
(***************************************************************************)
(* An instance of VersionTable for TLC: two clients, and a third id whose  *)
(* row only has to survive.                                                *)
(***************************************************************************)
EXTENDS VersionTable

CONSTANTS a, b, c

Line1(i, v) == [id |-> i, ver |-> v]
Text(lines, ended, readable) ==
  [lines |-> lines, ended |-> ended, readable |-> readable, synced |-> TRUE]

(* No file; a table with room for the rows that are still missing; a table *)
(* without room for a second new row; one with a duplicate row.            *)
SoundTables ==
  { NoFile,
    Text(<<Line1(c, 1), Note>>, TRUE, TRUE),
    Text(<<Line1(a, 1), Line1(c, 2), Line1(b, 1)>>, TRUE, TRUE),
    Text(<<Note, Line1(c, 1), Line1(a, 1), Note>>, TRUE, TRUE),
    Text(<<Line1(c, 1), Line1(a, 1), Line1(c, 2)>>, TRUE, TRUE) }
=============================================================================
