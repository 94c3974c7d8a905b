---------------------------- MODULE MC_MapEngine ----------------------------
(* Instances of MapEngine for TLC. *)
EXTENDS MapEngine

TwoOrigins == {[x |-> 0, y |-> 0], [x |-> 3, y |-> 2]}

OneOrigin == {[x |-> 1, y |-> 1]}

(* One drift of each kind: along a row, along a column, and diagonally. *)
ThreeShifts == {<<1, 0>>, <<0, -1>>, <<1, 1>>}

EastShift == {<<1, 0>>}

NorthWestShift == {<<-1, -1>>}
=============================================================================
