------------------------------ MODULE TileGrid ------------------------------
(***************************************************************************)
(* The tile window of tile_grid.c: GRID_N x GRID_N slots that follow a     *)
(* position by rotating the ownership of a fixed set of pixel buffers.     *)
(*                                                                         *)
(* A slot is named by its <<row, column>>; the code's index row * GRID_N + *)
(* column is the row-major order below.  The zoom is fixed: Z_LEVEL_CLOSE  *)
(* equals Z_LEVEL_WIDE in mapconfig.h, so a tile is its column and row.    *)
(***************************************************************************)
EXTENDS Integers, FiniteSets, Sequences

CONSTANTS
    GRID_N,     \* slots along one side of the window
    WORLD       \* tiles along one side of the world at the working zoom

ASSUME GridAssumption == GRID_N \in Nat \ {0} /\ WORLD \in Nat \ {0}

Slots == (0 .. GRID_N - 1) \X (0 .. GRID_N - 1)

TileStates == {"EMPTY", "PENDING", "COARSE", "READY", "NODATA", "ERROR"}

(* tile_drawable: the states the compositor may blit. *)
Drawable(state) == state \in {"COARSE", "READY"}

TileId == [x : Int, y : Int]

Job == [id : TileId, slot : Slots, generation : Nat]

Slot(buffers) ==
    [id : TileId, state : TileStates, pixels : buffers, generation : Nat]

Grid(buffers) ==
    [origin : TileId, generation : Nat, slots : [Slots -> Slot(buffers)]]

-----------------------------------------------------------------------------
(* Tile identity: columns wrap round the world, rows do not. *)

TileAt(origin, drow, dcol) ==
    [x |-> (origin.x + dcol) % WORLD, y |-> origin.y + drow]

OnWorld(id) == id.y \in 0 .. WORLD - 1

FreshState(id) == IF OnWorld(id) THEN "PENDING" ELSE "NODATA"

-----------------------------------------------------------------------------
(* Orders on slots, as sets of pairs, and the ranks they give. *)

EarlierIndex(a, b) == a[1] < b[1] \/ (a[1] = b[1] /\ a[2] < b[2])

RowMajor == {p \in Slots \X Slots : EarlierIndex(p[1], p[2])}

(* slot_rank: squared distance from the middle of the window, doubled so   *)
(* that the middle of an even window is an integer.                        *)
SlotRank(s) ==
    LET dr == 2 * s[1] - (GRID_N - 1)
        dc == 2 * s[2] - (GRID_N - 1)
    IN  dr * dr + dc * dc

NearerCentre(a, b) ==
    \/ SlotRank(a) < SlotRank(b)
    \/ SlotRank(a) = SlotRank(b) /\ EarlierIndex(a, b)

CentreFirst == {p \in Slots \X Slots : NearerCentre(p[1], p[2])}

RankIn(S, order, s) == Cardinality({t \in S : <<t, s>> \in order})

Nth(S, order, n) == CHOOSE s \in S : RankIn(S, order, s) = n

Sorted(S, order) == [k \in 1 .. Cardinality(S) |-> Nth(S, order, k - 1)]

-----------------------------------------------------------------------------
(* emit_jobs: one render request per slot that needs one, nearest the      *)
(* centre first, each carrying the generation it was emitted in.           *)
EmitJobs(grid, needs) ==
    [k \in 1 .. Cardinality(needs) |->
        LET s == Nth(needs, CentreFirst, k - 1)
        IN  [id |-> grid.slots[s].id, slot |-> s,
             generation |-> grid.generation]]

(* grid_init *)
GridInit(bufs, origin) ==
    [origin |-> origin,
     generation |-> 1,
     slots |-> [s \in Slots |->
        LET id == TileAt(origin, s[1], s[2])
        IN  [id |-> id, state |-> FreshState(id), pixels |-> bufs[s],
             generation |-> 1]]]

(* Mutant: the window drags its tiles the wrong way. *)
SourceBack(s, dx, dy) == <<s[1] - dy, s[2] - dx>>

(* The old slot whose tile a slot of the shifted window shows. *)
Source(s, dx, dy) == <<s[1] + dy, s[2] + dx>>

(* Slots of the shifted window that find their tile in the old one. *)
Carried(grid, dx, dy) ==
    LET origin == TileAt(grid.origin, dy, dx)
    IN  {s \in Slots :
            /\ Source(s, dx, dy) \in Slots
            /\ grid.slots[Source(s, dx, dy)].id = TileAt(origin, s[1], s[2])}

(* Mutant: a slot that needs a tile renders into the buffer it had before  *)
(* the shift, which a carried slot may have taken along.                   *)
ShiftedGridInPlace(grid, dx, dy) ==
    LET origin  == TileAt(grid.origin, dy, dx)
        gen     == grid.generation + 1
        Fresh(s) ==
            LET id == TileAt(origin, s[1], s[2])
            IN  [id |-> id, state |-> FreshState(id),
                 pixels |-> grid.slots[s].pixels, generation |-> gen]
    IN  [origin |-> origin,
         generation |-> gen,
         slots |-> [s \in Slots |->
            IF s \in Carried(grid, dx, dy)
            THEN grid.slots[Source(s, dx, dy)] ELSE Fresh(s)]]

(* Mutant: only a drift along a row moves the window. *)
ShiftedGridRowBound(grid, dx, dy) ==
    [ShiftedGridInPlace(grid, dx, dy) EXCEPT
        !.origin = TileAt(grid.origin, 0, dx)]

(* grid_shift: carried slots keep pixels, state and generation; each of    *)
(* the others takes a buffer that no carried slot kept, in index order.    *)
ShiftedGrid(grid, dx, dy) ==
    LET origin  == TileAt(grid.origin, dy, dx)
        gen     == grid.generation + 1
        carried == Carried(grid, dx, dy)
        needs   == Slots \ carried
        donors  == Slots \ {Source(s, dx, dy) : s \in carried}
        Donor(s) == Nth(donors, RowMajor, RankIn(needs, RowMajor, s))
        Fresh(s) ==
            LET id == TileAt(origin, s[1], s[2])
            IN  [id |-> id, state |-> FreshState(id),
                 pixels |-> grid.slots[Donor(s)].pixels, generation |-> gen]
    IN  [origin |-> origin,
         generation |-> gen,
         slots |-> [s \in Slots |->
            IF s \in carried THEN grid.slots[Source(s, dx, dy)]
                             ELSE Fresh(s)]]

ShiftJobs(grid, dx, dy) ==
    LET new == ShiftedGrid(grid, dx, dy)
    IN  EmitJobs(new, {s \in Slots \ Carried(grid, dx, dy) :
                            new.slots[s].state # "NODATA"})

(* grid_set_zoom: nothing is kept but the buffers. *)
RezonedGrid(grid, origin) ==
    LET gen == grid.generation + 1
    IN  [origin |-> origin,
         generation |-> gen,
         slots |-> [s \in Slots |->
            LET id == TileAt(origin, s[1], s[2])
            IN  [id |-> id, state |-> FreshState(id),
                 pixels |-> grid.slots[s].pixels, generation |-> gen]]]

(* Mutant: the jobs are stamped before the generation moves on. *)
RezoneJobsEarly(grid, origin) ==
    LET new == [RezonedGrid(grid, origin) EXCEPT !.generation = @ - 1]
    IN  EmitJobs(new, {s \in Slots : OnWorld(new.slots[s].id)})

RezoneJobs(grid, origin) ==
    LET new == RezonedGrid(grid, origin)
    IN  EmitJobs(new, {s \in Slots : OnWorld(new.slots[s].id)})

-----------------------------------------------------------------------------
(* Mutant: the slot still shows the tile, so the layout does not matter. *)
AcceptsAnyLayout(grid, job) ==
    /\ job.slot \in Slots
    /\ grid.slots[job.slot].id = job.id

(* The check both commits make: the grid has not moved on, and the slot    *)
(* still shows the tile the job was for.                                   *)
Accepts(grid, job) ==
    /\ job.slot \in Slots
    /\ job.generation = grid.generation
    /\ grid.slots[job.slot].id = job.id

(* Mutant: the state is committed and the pixels are left where they were. *)
CommitStateOnly(grid, job, result, fresh) ==
    IF Accepts(grid, job)
    THEN [grid EXCEPT !.slots[job.slot].state = result]
    ELSE grid

(* grid_commit_swap *)
CommitSwap(grid, job, result, fresh) ==
    IF Accepts(grid, job)
    THEN [grid EXCEPT !.slots[job.slot] =
            [@ EXCEPT !.pixels = fresh, !.state = result]]
    ELSE grid

(* Mutant: a refused commit hands nothing back. *)
RecycledNull(grid, job, fresh) ==
    IF Accepts(grid, job) THEN grid.slots[job.slot].pixels ELSE <<>>

(* Mutant: the worker keeps the buffer it has just published. *)
RecycledKept(grid, job, fresh) == fresh

(* The buffer grid_commit_swap hands back through *recycled. *)
Recycled(grid, job, fresh) ==
    IF Accepts(grid, job) THEN grid.slots[job.slot].pixels ELSE fresh

(* grid_commit *)
Commit(grid, job, result) ==
    IF Accepts(grid, job)
    THEN [grid EXCEPT !.slots[job.slot].state = result]
    ELSE grid
=============================================================================
