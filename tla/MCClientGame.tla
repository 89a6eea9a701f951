---------------------------- MODULE MCClientGame ----------------------------
(***************************************************************************)
(* ClientGame on a map of four columns and two rows of tiles of three      *)
(* pixels, walked in steps of two, so that steps end short of an obstacle. *)
(* One wall has grass at its left and none at its right, the other has no  *)
(* grass near it.                                                          *)
(***************************************************************************)
EXTENDS ClientGame

StartHere == [x |-> 2, y |-> 3]
WallHere == {<<1, 0>>, <<3, 1>>}
GrassHere == {<<0, 0>>}

=============================================================================
