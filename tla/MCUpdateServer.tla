--------------------------- MODULE MCUpdateServer ---------------------------
(***************************************************************************)
(* Instances of UpdateServer for TLC.                                      *)
(***************************************************************************)
EXTENDS UpdateServer, TLC

CONSTANTS c1, c2, c3, x, y

(* Two connections of one client and one of another: with two slots, the   *)
(* registry can have a gap below the slot of an active id.                 *)
IdOf3 == c1 :> x @@ c2 :> x @@ c3 :> y
Alike == Permutations({c1, c2})

(* Two clients: with one slot, the registry can be full.                   *)
IdOf2 == c1 :> x @@ c2 :> y
=============================================================================
