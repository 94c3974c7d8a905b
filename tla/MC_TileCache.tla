---------------------------- MODULE MC_TileCache ----------------------------
(* Instances of TileCache for TLC. *)
EXTENDS TileCache

(* One tile the archive does not have, and two of different sizes. *)
Sizes == [t \in Tiles |-> CASE t = "sea" -> 0 [] t = "park" -> 1 [] t = "town" -> 2]

(* The index is flushed at every put at first, then at every other. *)
Intervals == [n \in 1 .. Cardinality(Tiles) |-> IF n < 2 THEN 1 ELSE 2]
=============================================================================
