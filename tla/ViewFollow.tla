----------------------------- MODULE ViewFollow -----------------------------
(***************************************************************************)
(* What part of the map is shown: map_update, view_follow, map_pan_step,    *)
(* map_pan_reset and map_seed_position of mapengine.cpp.  Lengths are in    *)
(* parts of a tile; a point has two coordinates.  Both working zooms of     *)
(* mapconfig.h are Z_FLOOR, so the zoom does not change.  The memo of       *)
(* map_update only leaves out passes that would compute the same from the   *)
(* same fix, for up to a second: here any pass may compute.  The world is a *)
(* plane; what the tiles show is in MapEngine.                              *)
(***************************************************************************)
EXTENDS Integers

CONSTANTS
    TILE,       \* SUBTILE_PX, in parts
    SCREEN_W,   \* width of the visible map
    SCREEN_H,   \* its height, between status bar and footer
    OVER,       \* by how much a step across is longer than the band
    FixesX,     \* the coordinates a fix may have
    FixesY,
    PAN_LIMIT   \* bound of the model: how far from the fixes taps may pan

GRID_N == 2

ASSUME ViewAssumption ==
    /\ TILE \in Nat \ {0} /\ SCREEN_W \in Nat /\ SCREEN_H \in Nat
    /\ OVER \in Nat /\ PAN_LIMIT \in Nat
    /\ FixesX \subseteq Int /\ FixesY \subseteq Int

Axes == {"x", "y"}
Points == [x : FixesX, y : FixesY]
Origin == [x |-> 0, y |-> 0]

VARIABLES
    here,     \* the fix the engine is given: placed (gnss_coarse), at
    corner,   \* g_grid.origin: the tile at the canvas's top left
    view,     \* g_view_set; g_view_wx, g_view_wy, which are read only if set
    anchor,   \* g_anchor_wx, g_anchor_wy
    marker,   \* g_marker_wx, g_marker_wy and g_marker_valid
    engine,   \* g_centred, g_panning
    calm      \* not in the code: passes computed since the fix moved or a tap

viewVars == <<here, corner, view, anchor, marker, engine, calm>>

-----------------------------------------------------------------------------
Screen == [x |-> SCREEN_W, y |-> SCREEN_H]

(* bx and by: the band is the middle third of the screen. *)
Margin == [a \in Axes |-> Screen[a] \div 3]

(* One step of a pan: a band's width.  Across, SW * MARKER_BAND is rounded  *)
(* to a float and comes out a trifle longer than the band; down, both are   *)
(* the same double.                                                         *)
PanBy == [a \in Axes |-> Screen[a] - 2 * Margin[a] + (IF a = "x" THEN OVER ELSE 0)]

(* How far a point is from the middle of the canvas. *)
FromMiddle(p, c, a) == p[a] - (c[a] * TILE + (GRID_N * TILE) \div 2)

(* grid_drift and grid_origin_for. *)
Drift(p, c) ==
    [a \in Axes |-> IF 2 * FromMiddle(p, c, a) < -TILE THEN -1
                    ELSE IF 2 * FromMiddle(p, c, a) >= TILE THEN 1 ELSE 0]
OriginFor(p) == [a \in Axes |-> (2 * p[a] - GRID_N * TILE + TILE) \div (2 * TILE)]

Drifted(p, c) == \E a \in Axes : Drift(p, c)[a] # 0

(* More than one tile: cheaper to centre anew than to shift. *)
Jumped(p, c) ==
    \E a \in Axes : 2 * FromMiddle(p, c, a) \notin -3 * TILE .. 3 * TILE

-----------------------------------------------------------------------------
NoView == [set |-> FALSE, at |-> Origin]

Between(v, low, high) == IF v < low THEN low ELSE IF v > high THEN high ELSE v

(* Mutant: only one of the two lines is looked at. *)
SteppedOverOnce(v, p, a) ==
    IF v > p[a] - Margin[a] THEN p[a] - (Screen[a] - Margin[a]) ELSE v

(* A view that left the band by one of its lines is put on the other. *)
SteppedOver(v, p, a) ==
    LET low == p[a] - (Screen[a] - Margin[a])
        high == p[a] - Margin[a]
    IN  IF v < low THEN high ELSE IF v > high THEN low ELSE v

OnCanvas(v, c, a) ==
    Between(v, c[a] * TILE, (c[a] + GRID_N) * TILE - Screen[a])

(* view_follow; a view that was not set is centred, wherever the canvas is. *)
Followed(v, p, c) ==
    [set |-> TRUE,
     at |-> [a \in Axes |->
               IF v.set THEN OnCanvas(SteppedOver(v.at[a], p, a), c, a)
               ELSE p[a] - Screen[a] \div 2]]

(* What follows view_follow in map_update and map_pan_step: a shift leaves  *)
(* the view where it has just been put.                                     *)
Refitted(p, viewIfCentred) ==
    LET followed == Followed(view, p, corner)
    IN  IF ~Drifted(p, corner) THEN view' = followed /\ UNCHANGED corner
        ELSE IF Jumped(p, corner) THEN view' = viewIfCentred /\ corner' = OriginFor(p)
        ELSE /\ view' = followed
             /\ corner' = [a \in Axes |-> corner[a] + Drift(p, corner)[a]]

-----------------------------------------------------------------------------
ViewInit ==
    /\ here = [placed |-> FALSE, at |-> Origin]
    /\ corner = Origin /\ view = NoView /\ anchor = Origin
    /\ marker = [valid |-> FALSE, at |-> Origin]
    /\ engine = [centred |-> FALSE, panning |-> FALSE]
    /\ calm = 0

(* The receiver, or the Wi-Fi estimate that stands in for it: a new place,  *)
(* or none.                                                                 *)
FixMoves ==
    /\ \/ \E p \in Points : here' = [placed |-> TRUE, at |-> p]
       \/ here' = [here EXCEPT !.placed = FALSE]
    /\ calm' = 0
    /\ UNCHANGED <<corner, view, anchor, marker, engine>>

(* map_seed_position, with the place saved by an earlier run. *)
Seed ==
    /\ ~engine.centred /\ ~marker.valid
    /\ \E p \in Points :
        /\ anchor' = p
        /\ marker' = [marker EXCEPT !.at = p]
        /\ corner' = OriginFor(p)
        /\ view' = Followed(NoView, p, OriginFor(p))
    /\ engine' = [engine EXCEPT !.centred = TRUE]
    /\ UNCHANGED <<here, calm>>

(* map_update, when its memo lets it compute. *)
FirstFix ==
    /\ here.placed /\ ~engine.centred
    /\ marker' = [valid |-> TRUE, at |-> here.at]
    /\ corner' = OriginFor(here.at) /\ view' = NoView
    /\ engine' = [engine EXCEPT !.centred = TRUE]
    /\ UNCHANGED <<here, anchor, calm>>

FollowFix ==
    /\ here.placed /\ engine.centred /\ ~engine.panning
    /\ marker' = [valid |-> TRUE, at |-> here.at]
    /\ anchor' = here.at
    /\ Refitted(here.at, NoView)
    /\ calm' = IF calm = 2 THEN 2 ELSE calm + 1
    /\ UNCHANGED <<here, engine>>

MarkFix ==
    /\ here.placed /\ engine.centred /\ engine.panning
    /\ marker' = [valid |-> TRUE, at |-> here.at]
    /\ UNCHANGED <<here, corner, view, anchor, engine, calm>>

MapUpdate == FirstFix \/ FollowFix \/ MarkFix

(* Where a pan starts from: the marker, if the view was following it. *)
PanFrom == IF engine.panning THEN anchor ELSE marker.at

(* map_pan_step: a tap on one of the eight outer fields of the map. *)
PanStep(d) ==
    LET p == [a \in Axes |-> PanFrom[a] + d[a] * PanBy[a]]
    IN  /\ engine.centred
        /\ \A a \in Axes : p[a] - marker.at[a] \in -PAN_LIMIT .. PAN_LIMIT
        /\ anchor' = p
        /\ engine' = [engine EXCEPT !.panning = TRUE]
        /\ Refitted(p, Followed(NoView, p, OriginFor(p)))
        /\ calm' = 0
        /\ UNCHANGED <<here, marker>>

Fields == [Axes -> -1 .. 1] \ {[a \in Axes |-> 0]}

Pan == \E d \in Fields : PanStep(d)

(* map_pan_reset: the home button, or the screen going off. *)
PanReset ==
    /\ engine.panning
    /\ engine' = [engine EXCEPT !.panning = FALSE]
    /\ anchor' = marker.at
    /\ corner' = OriginFor(marker.at)
    /\ view' = Followed(NoView, marker.at, OriginFor(marker.at))
    /\ calm' = 0
    /\ UNCHANGED <<here, marker>>

ViewNext == FixMoves \/ Seed \/ MapUpdate \/ Pan \/ PanReset

ViewSpec == ViewInit /\ [][ViewNext]_viewVars

-----------------------------------------------------------------------------
ViewTypeOK ==
    /\ here \in [placed : BOOLEAN, at : [Axes -> Int]]
    /\ corner \in [Axes -> Int] /\ anchor \in [Axes -> Int]
    /\ view.set \in BOOLEAN /\ marker.valid \in BOOLEAN
    /\ engine \in [centred : BOOLEAN, panning : BOOLEAN]
    /\ calm \in 0 .. 2

(* "The marker is kept inside a band in the middle of the screen"           *)
(* (mapconfig.h:27): two computed passes after a fix came to rest, however  *)
(* far it had jumped and whatever was shown before, the marker is in the    *)
(* band and the screen is filled by the canvas.                             *)
MarkerInBand ==
    engine.centred /\ ~engine.panning /\ calm = 2 =>
        /\ view.set
        /\ \A a \in Axes :
            /\ here.placed => here.at[a] - view.at[a] \in Margin[a] .. Screen[a] - Margin[a]
            /\ OnCanvas(view.at[a], corner, a) = view.at[a]

(* "The canvas is finite, so the view cannot wander past its edges"         *)
(* (mapengine.cpp:1387): what is drawn after a pass lies on the canvas.     *)
ViewOnCanvas ==
    view.set => \A a \in Axes : OnCanvas(view.at[a], corner, a) = view.at[a]

(* "A discrete step ... produces exactly one view move" (mapengine.cpp:2943) *)
(* "and a tap on the map steps the view one third of a screen towards       *)
(* wherever it landed" (tab5_map.cpp:1884).                                 *)
PanMoves ==
    [][\A d \in Fields : PanStep(d) /\ view.set =>
          \A a \in Axes : d[a] # 0 => d[a] * (view'.at[a] - view.at[a]) > 0]_viewVars
=============================================================================
