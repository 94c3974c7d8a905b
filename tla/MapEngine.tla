----------------------------- MODULE MapEngine ------------------------------
(***************************************************************************)
(* The tile pipeline of mapengine.cpp: the UI task, which moves the window *)
(* of tiles and draws from it, and the render worker, which takes jobs off *)
(* a bounded queue and renders into a spare buffer.  g_glock protects the  *)
(* grid's metadata only, so one action below is one critical section, one  *)
(* queue operation, or one end of an unlocked buffer access.               *)
(*                                                                         *)
(* Pixels, label texts and the clock are abstracted: a buffer holds the    *)
(* tile and palette it was painted for, or "mixed" when two tasks wrote it *)
(* at once; the overview's retry timer may fire whenever it is armed.      *)
(***************************************************************************)
EXTENDS TileGrid

CONSTANTS
    COARSE_SPAN,     \* working tiles along one side of an overview tile
    QUEUE_LEN,       \* capacity of g_jobs
    Origins,         \* origins the map may be recentred on
    Shifts,          \* <<dx, dy>> the drift trigger may ask for
    Ops,             \* the UI operations that happen
    Results,         \* what rendering a tile may return
    FillPending,     \* COARSE_FILL_PENDING /\ g_fill_pending
    MAX_GENERATION,  \* bound on the number of layouts
    MAX_WAKES,       \* bound on how often the screen comes on
    MAX_PLACES,      \* bound on the place blocks waiting in the queue
    NoTile           \* what a buffer painted for no tile shows

UiOps == {"recentre", "shift", "palette", "screen", "places", "fill", "labels"}

ASSUME EngineAssumption ==
    /\ COARSE_SPAN \in Nat \ {0}
    /\ QUEUE_LEN \in Nat \ {0}
    /\ Origins \subseteq TileId
    /\ Shifts \subseteq (-1 .. 1) \X (-1 .. 1)
    /\ Ops \subseteq UiOps
    /\ Results \subseteq {"READY", "NODATA", "ERROR"}
    /\ FillPending \in BOOLEAN
    /\ MAX_GENERATION \in Nat /\ MAX_WAKES \in Nat /\ MAX_PLACES \in Nat
    /\ NoTile \notin TileId

VARIABLES
    grid,        \* g_grid
    jobs,        \* g_jobs, front first
    spare,       \* g_spare
    pixels,      \* what each pixel buffer holds
    labels,      \* g_labels: the label set of each slot
    wLabels,     \* w_labels: the worker's own set
    names,       \* the tile whose names each label set holds
    coarse,      \* g_coarse_ok, _id, _want, and whether _retry_at is set
    overview,    \* what g_coarse_px holds
    visible,     \* g_visible
    dark,        \* the palette style_init last installed
    centred,     \* g_centred
    wakes,       \* how often the screen has come on
    ui,          \* where the UI task is, and its locals
    wk           \* where the worker is, and its locals

gridVars  == <<grid, spare, pixels>>
labelVars == <<labels, wLabels, names>>
overVars  == <<coarse, overview>>
modeVars  == <<visible, dark, centred, wakes>>
vars == <<gridVars, jobs, labelVars, overVars, modeVars, ui, wk>>

-----------------------------------------------------------------------------
(* Buffers and label sets: one per slot and a spare.  Each is named by the *)
(* slot it is first given to.                                              *)
SpareName == <<GRID_N, 0>>
Buffers   == Slots \cup {SpareName}

OVERVIEW_SLOT == <<GRID_N, 1>>
PLACE_SLOT    == <<GRID_N, 2>>
JobSlots      == Slots \cup {OVERVIEW_SLOT, PLACE_SLOT}

QueuedJob == [id : TileId, slot : JobSlots, generation : Nat]

Content ==
    [kind : {"blank", "map", "overview", "writing", "mixed"},
     tile : TileId \cup {NoTile}, dark : BOOLEAN]

Blank   == [kind |-> "blank",   tile |-> NoTile, dark |-> FALSE]
Writing == [kind |-> "writing", tile |-> NoTile, dark |-> FALSE]
Mixed   == [kind |-> "mixed",   tile |-> NoTile, dark |-> FALSE]
Painted(kind, id, palette) == [kind |-> kind, tile |-> id, dark |-> palette]

NoId  == [x |-> 0, y |-> 0]
NoJob == [id |-> NoId, slot |-> OVERVIEW_SLOT, generation |-> 0]

UiIdle == [pc |-> "idle", op |-> "none", jobs |-> <<>>,
           slot |-> <<0, 0>>, was |-> "EMPTY", buffer |-> SpareName]
WkIdle == [pc |-> "idle", job |-> NoJob, result |-> "READY"]

UiStates == {"idle", "restyled", "invalidate", "waking", "overview",
             "sending", "draining", "picked", "filling", "unfilled", "ready",
             "labels"}
WkStates == {"idle", "check", "overview", "render", "fetch", "commit"}

(* The worker is writing its spare buffer and its label set. *)
Rendering == wk.pc = "render"

(* The UI task is writing buffer b, without the lock. *)
Filling(b) == ui.pc = "filling" /\ ui.buffer = b

-----------------------------------------------------------------------------
(* map_begin: buffers handed out, the grid on tile 0/0, nothing queued. *)
Init ==
    /\ grid = GridInit([s \in Slots |-> s], NoId)
    /\ jobs = <<>>
    /\ spare = SpareName
    /\ pixels = [b \in Buffers |-> Blank]
    /\ labels = [s \in Slots |-> s]
    /\ wLabels = SpareName
    /\ names = [l \in Buffers |-> NoTile]
    /\ coarse = [ok |-> FALSE, id |-> NoTile, want |-> NoTile,
                 retry |-> FALSE]
    /\ overview = Blank
    /\ visible = TRUE
    /\ dark = FALSE
    /\ centred = FALSE
    /\ wakes = 0
    /\ ui = UiIdle
    /\ wk = WkIdle

-----------------------------------------------------------------------------
(* The queue.  Only the UI task sends. *)
Room == Len(jobs) < QUEUE_LEN

SendFront(job) == jobs' = IF Room THEN <<job>> \o jobs ELSE jobs
SendBack(job)  == jobs' = IF Room THEN Append(jobs, job) ELSE jobs

(* map_has_picture *)
HasPicture ==
    centred /\ \E s \in Slots : Drawable(grid.slots[s].state)

-----------------------------------------------------------------------------
(* UI operations that lay the grid out again.  Each starts with a critical *)
(* section and then goes on to the overview and the queue.                 *)
Begin(op) ==
    /\ op \in Ops
    /\ ui.pc = "idle"

Relayout(op, newGrid, newJobs, pc) ==
    /\ grid' = newGrid
    /\ ui' = [UiIdle EXCEPT !.pc = pc, !.op = op, !.jobs = newJobs]

(* recentre_at *)
Recentre(origin) ==
    /\ Begin("recentre")
    /\ grid.generation < MAX_GENERATION
    /\ Relayout("recentre", RezonedGrid(grid, origin),
                RezoneJobs(grid, origin), "overview")
    /\ UNCHANGED <<jobs, spare, pixels, labelVars, overVars, modeVars, wk>>

(* map_update and map_pan_step, when the anchor has drifted out of the     *)
(* middle tile.                                                            *)
Shift(dx, dy) ==
    /\ Begin("shift")
    /\ centred
    /\ <<dx, dy>> # <<0, 0>>
    /\ grid.generation < MAX_GENERATION
    /\ Relayout("shift", ShiftedGrid(grid, dx, dy), ShiftJobs(grid, dx, dy),
                "overview")
    /\ UNCHANGED <<jobs, spare, pixels, labelVars, overVars, modeVars, wk>>

(* map_set_dark: the palette changes under whatever is being rendered, *)
Restyle ==
    /\ Begin("palette")
    /\ grid.generation < MAX_GENERATION
    /\ dark' = ~dark
    /\ pixels' = IF Rendering THEN [pixels EXCEPT ![spare] = Mixed]
                              ELSE pixels
    /\ overview' = IF wk.pc = "overview" THEN Mixed ELSE overview
    /\ ui' = [UiIdle EXCEPT !.pc = "restyled", !.op = "palette"]
    /\ UNCHANGED <<grid, jobs, spare, labelVars, coarse, visible, centred, wakes,
                   wk>>

(* ... then every slot is asked for again, *)
RestyleGrid ==
    /\ ui.pc = "restyled"
    /\ Relayout("palette", RezonedGrid(grid, grid.origin),
                RezoneJobs(grid, grid.origin), "invalidate")
    /\ UNCHANGED <<jobs, spare, pixels, labelVars, overVars, modeVars, wk>>

(* ... and the overview disowned.  Nothing is queued before the first fix. *)
InvalidateCoarse ==
    /\ ui.pc = "invalidate"
    /\ coarse' = [coarse EXCEPT !.id = NoTile]
    /\ ui' = IF centred THEN [ui EXCEPT !.pc = "overview"] ELSE UiIdle
    /\ UNCHANGED <<gridVars, jobs, labelVars, overview, modeVars, wk>>

(* map_set_visible(false), from screenOff *)
ScreenOff ==
    /\ Begin("screen")
    /\ visible
    /\ visible' = FALSE
    /\ UNCHANGED <<gridVars, jobs, labelVars, overVars, dark, centred, wakes,
                   ui, wk>>

(* map_set_visible(true), from screenOn *)
ScreenOn ==
    /\ Begin("screen")
    /\ ~visible
    /\ wakes < MAX_WAKES
    /\ visible' = TRUE
    /\ wakes' = wakes + 1
    /\ ui' = [UiIdle EXCEPT !.pc = "waking", !.op = "wake"]
    /\ UNCHANGED <<gridVars, jobs, labelVars, overVars, dark, centred, wk>>

(* Slots by distance from slot (GRID_N/2, GRID_N/2), then in index order. *)
Ring(s) ==
    LET mid == GRID_N \div 2
        Off(i) == IF i < mid THEN mid - i ELSE i - mid
    IN  IF Off(s[1]) > Off(s[2]) THEN Off(s[1]) ELSE Off(s[2])

WakesEarlier(a, b) ==
    Ring(a) < Ring(b) \/ (Ring(a) = Ring(b) /\ EarlierIndex(a, b))

WakeOrder == {p \in Slots \X Slots : WakesEarlier(p[1], p[2])}

(* ... whose job carries the generation recorded in the slot. *)
RequeueUndrawn ==
    LET undrawn == {s \in Slots : ~Drawable(grid.slots[s].state)}
        order == Sorted(undrawn, WakeOrder)
        JobOf(s) == [id |-> grid.slots[s].id, slot |-> s,
                     generation |-> grid.slots[s].generation]
    IN  /\ ui.pc = "waking"
        /\ ui' = IF undrawn = {} THEN UiIdle
                 ELSE [ui EXCEPT !.pc = "overview",
                                 !.jobs = [k \in DOMAIN order |->
                                                JobOf(order[k])]]
        /\ UNCHANGED <<gridVars, jobs, labelVars, overVars, modeVars, wk>>

-----------------------------------------------------------------------------
(* The two steps every layout ends with. *)

CoarseOf(origin) ==
    [x |-> (origin.x + GRID_N \div 2) \div COARSE_SPAN,
     y |-> (origin.y + GRID_N \div 2) \div COARSE_SPAN]

OverviewJob(id) == [id |-> id, slot |-> OVERVIEW_SLOT, generation |-> 0]

(* recentre_at centres the map once its jobs are queued. *)
Finish ==
    /\ ui' = UiIdle
    /\ centred' = (centred \/ ui.op = "recentre")

GoOn(rest) ==
    IF rest = <<>> THEN Finish
    ELSE /\ ui' = [ui EXCEPT !.pc = "sending", !.jobs = rest]
         /\ UNCHANGED centred

(* ensure_coarse *)
EnsureCoarse ==
    LET want == CoarseOf(grid.origin) IN
    /\ ui.pc = "overview"
    /\ IF coarse.ok /\ coarse.id = want
       THEN UNCHANGED <<jobs, coarse>>
       ELSE /\ coarse' = [coarse EXCEPT !.want = want, !.retry = FALSE]
            /\ IF HasPicture THEN SendFront(OverviewJob(want))
                             ELSE SendBack(OverviewJob(want))
    /\ GoOn(ui.jobs)
    /\ UNCHANGED <<gridVars, labelVars, overview, visible, dark, wakes, wk>>

(* enqueue: one job at a time; on a full queue the front entry is drained  *)
(* and the send tried once more.                                           *)
Enqueue ==
    /\ ui.pc = "sending"
    /\ IF Room
       THEN /\ jobs' = Append(jobs, Head(ui.jobs))
            /\ GoOn(Tail(ui.jobs))
       ELSE /\ ui' = [ui EXCEPT !.pc = "draining"]
            /\ UNCHANGED <<jobs, centred>>
    /\ UNCHANGED <<gridVars, labelVars, overVars, visible, dark, wakes, wk>>

DrainAndRetry ==
    /\ ui.pc = "draining"
    /\ jobs' = IF jobs = <<>> THEN jobs
               ELSE Append(Tail(jobs), Head(ui.jobs))
    /\ GoOn(Tail(ui.jobs))
    /\ UNCHANGED <<gridVars, labelVars, overVars, visible, dark, wakes, wk>>

(* ensure_place_blocks: a place-name block shares the queue.  What it      *)
(* fills is PlaceIndex's.                                                  *)
RequestPlaces ==
    /\ Begin("places")
    /\ centred
    /\ Cardinality({k \in DOMAIN jobs : jobs[k].slot = PLACE_SLOT}) < MAX_PLACES
    /\ SendBack([id |-> NoId, slot |-> PLACE_SLOT, generation |-> 0])
    /\ UNCHANGED <<gridVars, labelVars, overVars, modeVars, ui, wk>>

-----------------------------------------------------------------------------
(* coarse_fill_pending, from map_draw and map_pump. *)
Drawing ==
    /\ ui.pc = "idle"
    /\ visible
    /\ centred

RetryOverview ==
    /\ Drawing
    /\ ~coarse.ok
    /\ coarse.retry
    /\ coarse' = [coarse EXCEPT !.retry = FALSE]
    /\ SendFront(OverviewJob(coarse.want))
    /\ UNCHANGED <<gridVars, labelVars, overview, modeVars, ui, wk>>

Gap(state) == state \in {"NODATA", "ERROR"}

WantsFill(state) == Gap(state) \/ (FillPending /\ state = "PENDING")

(* Under the lock: the first slot with nothing to show. *)
PickUnpainted ==
    LET wanting == {s \in Slots : WantsFill(grid.slots[s].state)}
        s == Nth(wanting, RowMajor, 0)
    IN  /\ "fill" \in Ops
        /\ Drawing
        /\ coarse.ok
        /\ wanting # {}
        /\ ui' = [UiIdle EXCEPT !.pc = "picked", !.op = "fill", !.slot = s,
                                !.was = grid.slots[s].state,
                                !.buffer = grid.slots[s].pixels]
        /\ UNCHANGED <<gridVars, jobs, labelVars, overVars, modeVars, wk>>

Covers(id, tile) ==
    /\ id # NoTile
    /\ tile.x \div COARSE_SPAN = id.x
    /\ tile.y \div COARSE_SPAN = id.y

(* coarse_fill, outside the lock: paint the slot's buffer from the         *)
(* overview if there is one and it reaches this tile.                      *)
BeginFill ==
    /\ ui.pc = "picked"
    /\ IF coarse.ok /\ Covers(coarse.id, grid.slots[ui.slot].id)
       THEN /\ ui' = [ui EXCEPT !.pc = "filling"]
            /\ pixels' = [pixels EXCEPT ![ui.buffer] =
                    IF Rendering /\ spare = ui.buffer THEN Mixed ELSE Writing]
       ELSE /\ ui' = [ui EXCEPT !.pc = "unfilled"]
            /\ UNCHANGED pixels
    /\ UNCHANGED <<grid, spare, jobs, labelVars, overVars, modeVars, wk>>

(* The worker has not committed to the slot since it was picked. *)
StillPicked ==
    /\ grid.slots[ui.slot].state = ui.was
    /\ grid.slots[ui.slot].pixels = ui.buffer

(* Mutant: the slot is marked without looking at it again. *)
EndFillBlind ==
    /\ ui.pc = "filling"
    /\ pixels' = [pixels EXCEPT ![ui.buffer] =
            IF @ = Writing /\ overview.kind = "map"
            THEN Painted("overview", grid.slots[ui.slot].id, overview.dark)
            ELSE Mixed]
    /\ grid' = [grid EXCEPT !.slots[ui.slot].state = "COARSE"]
    /\ ui' = UiIdle
    /\ UNCHANGED <<spare, jobs, labelVars, overVars, modeVars, wk>>

(* Under the lock again: the slot shows the placeholder, or is given up. *)
EndFill ==
    /\ ui.pc = "filling"
    /\ pixels' = [pixels EXCEPT ![ui.buffer] =
            IF @ = Writing /\ overview.kind = "map"
            THEN Painted("overview", grid.slots[ui.slot].id, overview.dark)
            ELSE Mixed]
    /\ grid' = IF StillPicked
               THEN [grid EXCEPT !.slots[ui.slot].state = "COARSE"]
               ELSE grid
    /\ ui' = UiIdle
    /\ UNCHANGED <<spare, jobs, labelVars, overVars, modeVars, wk>>

GiveUpFill ==
    /\ ui.pc = "unfilled"
    /\ grid' = IF StillPicked /\ ui.was # "PENDING"
               THEN [grid EXCEPT !.slots[ui.slot].state = "EMPTY"]
               ELSE grid
    /\ ui' = UiIdle
    /\ UNCHANGED <<spare, pixels, jobs, labelVars, overVars, modeVars, wk>>

(* draw_labels: readiness is read under the lock, *)
CheckReady(s) ==
    /\ "labels" \in Ops
    /\ Drawing
    /\ grid.slots[s].state = "READY"
    /\ ui' = [UiIdle EXCEPT !.pc = "ready", !.op = "labels", !.slot = s]
    /\ UNCHANGED <<gridVars, jobs, labelVars, overVars, modeVars, wk>>

(* ... the slot's label set after it. *)
BeginLabels ==
    /\ ui.pc = "ready"
    /\ ui' = [ui EXCEPT !.pc = "labels", !.buffer = labels[ui.slot]]
    /\ UNCHANGED <<gridVars, jobs, labelVars, overVars, modeVars, wk>>

EndLabels ==
    /\ ui.pc = "labels"
    /\ ui' = UiIdle
    /\ UNCHANGED <<gridVars, jobs, labelVars, overVars, modeVars, wk>>

-----------------------------------------------------------------------------
(* worker_task.  A place block is read without touching the grid. *)
TakeJob ==
    LET job == Head(jobs) IN
    /\ wk.pc = "idle"
    /\ jobs # <<>>
    /\ jobs' = Tail(jobs)
    /\ job.slot # OVERVIEW_SLOT
    /\ wk' = IF job.slot = PLACE_SLOT THEN WkIdle
             ELSE [WkIdle EXCEPT !.pc = "check", !.job = job]
    /\ UNCHANGED <<gridVars, labelVars, overVars, modeVars, ui>>

(* The overview is withdrawn, then painted where the UI task reads it. *)
TakeOverview ==
    /\ wk.pc = "idle"
    /\ jobs # <<>>
    /\ Head(jobs).slot = OVERVIEW_SLOT
    /\ jobs' = Tail(jobs)
    /\ coarse' = [coarse EXCEPT !.ok = FALSE]
    /\ \E result \in Results :
        /\ wk' = [pc |-> "overview", job |-> Head(jobs), result |-> result]
        /\ IF result = "READY"
           THEN /\ overview' = Writing
                /\ pixels' = IF ui.pc = "filling"
                             THEN [pixels EXCEPT ![ui.buffer] = Mixed]
                             ELSE pixels
           ELSE UNCHANGED <<overview, pixels>>
    /\ UNCHANGED <<grid, spare, labelVars, modeVars, ui>>

EndOverview ==
    /\ wk.pc = "overview"
    /\ IF wk.result = "READY"
       THEN /\ coarse' = [coarse EXCEPT !.id = wk.job.id, !.ok = TRUE]
            /\ overview' = IF overview = Writing
                           THEN Painted("map", wk.job.id, dark) ELSE Mixed
       ELSE /\ coarse' = [coarse EXCEPT !.retry = TRUE, !.want = wk.job.id]
            /\ UNCHANGED overview
    /\ wk' = WkIdle
    /\ UNCHANGED <<gridVars, jobs, labelVars, modeVars, ui>>

(* A job of an older generation is dropped. *)
DropStale ==
    /\ wk.pc = "check"
    /\ wk.job.generation # grid.generation
    /\ wk' = WkIdle
    /\ UNCHANGED <<gridVars, jobs, labelVars, overVars, modeVars, ui>>

(* prefetch_tile_bytes: with the screen off the tile is fetched, not drawn. *)
StartFetch ==
    /\ wk.pc = "check"
    /\ wk.job.generation = grid.generation
    /\ ~visible
    /\ wk' = [wk EXCEPT !.pc = "fetch"]
    /\ UNCHANGED <<gridVars, jobs, labelVars, overVars, modeVars, ui>>

EndFetch ==
    /\ wk.pc = "fetch"
    /\ \E result \in {"NODATA", "PENDING"} :
        /\ result = "NODATA" => "NODATA" \in Results
        /\ grid' = Commit(grid, wk.job, result)
    /\ wk' = WkIdle
    /\ UNCHANGED <<spare, pixels, jobs, labelVars, overVars, modeVars, ui>>

(* render_tile: no byte of the buffer or the label set is written unless   *)
(* the tile decodes.                                                       *)
StartRender ==
    /\ wk.pc = "check"
    /\ wk.job.generation = grid.generation
    /\ visible
    /\ \E result \in Results :
        IF result = "READY"
        THEN /\ wk' = [wk EXCEPT !.pc = "render", !.result = result]
             /\ pixels' = [pixels EXCEPT ![spare] =
                                IF Filling(spare) THEN Mixed ELSE Writing]
             /\ names' = [names EXCEPT ![wLabels] = NoTile]
        ELSE /\ wk' = [wk EXCEPT !.pc = "commit", !.result = result]
             /\ UNCHANGED <<pixels, names>>
    /\ UNCHANGED <<grid, spare, jobs, labels, wLabels, overVars, modeVars, ui>>

(* Mutant: the pixels change hands and the names do not. *)
CommitPixelsOnly ==
    LET job == wk.job
    IN  /\ wk.pc = "render"
        /\ pixels' = [pixels EXCEPT ![spare] =
                IF @ = Writing THEN Painted("map", job.id, dark) ELSE Mixed]
        /\ names' = [names EXCEPT ![wLabels] = job.id]
        /\ grid' = CommitSwap(grid, job, "READY", spare)
        /\ spare' = Recycled(grid, job, spare)
        /\ wk' = WkIdle
        /\ UNCHANGED <<jobs, labels, wLabels, overVars, modeVars, ui>>

(* Mutant: the worker publishes its label set and goes on writing to it. *)
CommitKeepingLabels ==
    LET job == wk.job
    IN  /\ wk.pc = "render"
        /\ pixels' = [pixels EXCEPT ![spare] =
                IF @ = Writing THEN Painted("map", job.id, dark) ELSE Mixed]
        /\ names' = [names EXCEPT ![wLabels] = job.id]
        /\ grid' = CommitSwap(grid, job, "READY", spare)
        /\ spare' = Recycled(grid, job, spare)
        /\ labels' = IF Accepts(grid, job)
                     THEN [labels EXCEPT ![job.slot] = wLabels] ELSE labels
        /\ wk' = WkIdle
        /\ UNCHANGED <<jobs, wLabels, overVars, modeVars, ui>>

(* grid_commit_swap: the buffer and the label set change hands together. *)
CommitRender ==
    LET job == wk.job
        accepted == Accepts(grid, job)
    IN  /\ wk.pc = "render"
        /\ pixels' = [pixels EXCEPT ![spare] =
                IF @ = Writing THEN Painted("map", job.id, dark) ELSE Mixed]
        /\ names' = [names EXCEPT ![wLabels] = job.id]
        /\ grid' = CommitSwap(grid, job, "READY", spare)
        /\ spare' = Recycled(grid, job, spare)
        /\ labels' = IF accepted THEN [labels EXCEPT ![job.slot] = wLabels]
                                 ELSE labels
        /\ wLabels' = IF accepted THEN labels[job.slot] ELSE wLabels
        /\ wk' = WkIdle
        /\ UNCHANGED <<jobs, overVars, modeVars, ui>>

(* grid_commit: no pixels, and the slot's names are emptied. *)
CommitFailure ==
    LET job == wk.job IN
    /\ wk.pc = "commit"
    /\ grid' = Commit(grid, job, wk.result)
    /\ names' = IF Accepts(grid, job)
                THEN [names EXCEPT ![labels[job.slot]] = NoTile] ELSE names
    /\ wk' = WkIdle
    /\ UNCHANGED <<spare, pixels, jobs, labels, wLabels, overVars, modeVars, ui>>

-----------------------------------------------------------------------------
UiStarts ==
    \/ \E origin \in Origins : Recentre(origin)
    \/ \E d \in Shifts : Shift(d[1], d[2])
    \/ Restyle \/ ScreenOff \/ ScreenOn \/ RequestPlaces
    \/ RetryOverview \/ PickUnpainted
    \/ \E s \in Slots : CheckReady(s)

(* Once started, an operation runs to its end on the UI task. *)
UiContinues ==
    \/ RestyleGrid \/ InvalidateCoarse \/ RequeueUndrawn \/ EnsureCoarse
    \/ Enqueue \/ DrainAndRetry \/ BeginFill \/ EndFill \/ GiveUpFill
    \/ BeginLabels \/ EndLabels

Worker ==
    \/ TakeJob \/ TakeOverview \/ EndOverview \/ DropStale
    \/ StartFetch \/ EndFetch \/ StartRender \/ CommitRender \/ CommitFailure

Next == UiStarts \/ UiContinues \/ Worker

Spec == Init /\ [][Next]_vars

(* The two tasks are pinned to different cores and never wait for each     *)
(* other outside g_glock; map_draw runs on every pass of loop().           *)
FairSpec ==
    /\ Spec
    /\ WF_vars(Worker)
    /\ WF_vars(UiContinues)
    /\ WF_vars(RetryOverview)

-----------------------------------------------------------------------------
(* PROPERTIES *)

(* The values the variables range over. *)
TypeOK ==
    /\ grid \in Grid(Buffers)
    /\ jobs \in Seq(QueuedJob)
    /\ Len(jobs) <= QUEUE_LEN
    /\ spare \in Buffers
    /\ pixels \in [Buffers -> Content]
    /\ labels \in [Slots -> Buffers]
    /\ wLabels \in Buffers
    /\ names \in [Buffers -> TileId \cup {NoTile}]
    /\ coarse \in [ok : BOOLEAN, id : TileId \cup {NoTile},
                   want : TileId \cup {NoTile}, retry : BOOLEAN]
    /\ overview \in Content
    /\ visible \in BOOLEAN /\ dark \in BOOLEAN /\ centred \in BOOLEAN
    /\ wakes \in Nat
    /\ ui \in [pc : UiStates, op : UiOps \cup {"none", "wake"},
               jobs : Seq(Job), slot : Slots, was : TileStates,
               buffer : Buffers]
    /\ wk \in [pc : WkStates, job : QueuedJob,
               result : {"READY", "NODATA", "ERROR"}]

(* The two pools of buffers.  A shift may rotate the slots' buffers but    *)
(* never touches the one the worker is writing; only a commit exchanges    *)
(* them, and both tasks may write their own without a lock.                *)
PixelPool == INSTANCE BufferPool
    WITH Holder <- Slots, Buffer <- Buffers, mine <- spare,
         held <- [s \in Slots |-> grid.slots[s].pixels]

NamePool == INSTANCE BufferPool
    WITH Holder <- Slots, Buffer <- Buffers, mine <- wLabels, held <- labels

(* tile_grid.h, invariant 1, with the spare of mapengine.cpp: no pixel     *)
(* buffer is held by two slots, or by a slot and the worker, whatever      *)
(* shifts, commits and re-requests happen.  Likewise for label sets.       *)
BufferOwnership == PixelPool!Apart /\ NamePool!Apart

(* The pipeline hands pixel buffers over as the pool promises. *)
PixelsHandedOver == PixelPool!Spec

(* Label sets are handed over in the same way. *)
NamesHandedOver == NamePool!Spec

(* A READY slot shows its own tile, whole and in the palette in force.     *)
(* While map_set_dark stands between installing the palette and asking for *)
(* the tiles again, the slots still show the outgoing one.                 *)
ReadyFaithful ==
    ui.pc # "restyled" =>
        \A s \in Slots : grid.slots[s].state = "READY" =>
            pixels[grid.slots[s].pixels] =
                Painted("map", grid.slots[s].id, dark)

(* tile_grid.h, invariant 2: slot ids follow the origin. *)
IdsFollowOrigin ==
    \A s \in Slots : grid.slots[s].id = TileAt(grid.origin, s[1], s[2])

(* tile_grid.h, invariants 3 and 4: the tiles of the window move only with *)
(* a new generation, and a READY tile that is still in the window after a  *)
(* shift keeps its pixels and its state.                                   *)
ReadyKept ==
    [][ /\ grid'.origin # grid.origin => grid'.generation > grid.generation
        /\ grid'.generation # grid.generation /\ ui'.op = "shift" =>
            \A s, t \in Slots :
                /\ grid.slots[s].state = "READY"
                /\ grid'.slots[t].id = grid.slots[s].id
                => /\ grid'.slots[t].state = "READY"
                   /\ grid'.slots[t].pixels = grid.slots[s].pixels]_vars

(* A READY slot's label set names the tile the slot shows. *)
LabelsFaithful ==
    \A s \in Slots : grid.slots[s].state = "READY" =>
        names[labels[s]] = grid.slots[s].id

Misnamed ==
    {s \in Slots : grid.slots[s].state = "READY" /\ names[labels[s]] # grid.slots[s].id}

(* Tiles and names are parted by drifts alone (mapengine.cpp:1665): a READY *)
(* slot whose label set names another tile is one that was so before, with  *)
(* the same tile, or one a shift has just carried a READY tile to from      *)
(* another slot.  A tile that is committed comes with its names, and no     *)
(* commit, failure, placeholder or new palette spoils those of the others,  *)
(* however often the window has drifted.                                    *)
NamesPartOnlyByDrift ==
    [][\A s \in Misnamed' : \E t \in Slots :
        /\ grid.slots[t].state = "READY"
        /\ grid'.slots[s].id = grid.slots[t].id
        /\ grid'.slots[s].pixels = grid.slots[t].pixels
        /\ IF t = s THEN s \in Misnamed
           ELSE grid'.generation # grid.generation /\ ui'.op = "shift"]_vars

(* The worker never fills the label set draw_labels is reading. *)
LabelsNotShared == ~(Rendering /\ ui.pc = "labels" /\ ui.buffer = wLabels)

(* Jobs in the queue, in the worker's hands, or still to be sent. *)
Outstanding ==
    {jobs[k] : k \in DOMAIN jobs} \cup {ui.jobs[k] : k \in DOMAIN ui.jobs}
        \cup (IF wk.pc = "idle" THEN {} ELSE {wk.job})

LiveJobs(s) ==
    {job \in Outstanding : job.slot = s /\ Accepts(grid, job)}

(* A slot of a centred window that waits for a tile has a job that will    *)
(* fill it: one that neither the worker nor the commit will turn away.     *)
PendingHasJob ==
    centred => \A s \in Slots :
        grid.slots[s].state = "PENDING" => LiveJobs(s) # {}

(* A job that nothing replaces: its slot waits for it, or it is the only   *)
(* one for the overview that the present layout wants.                     *)
StillWanted(job) ==
    \/ Accepts(grid, job)
    \/ /\ job.slot = OVERVIEW_SLOT
       /\ job.id = coarse.want
       /\ ~(coarse.ok /\ coarse.id = job.id)
       /\ wk.pc # "overview"
       /\ Cardinality({k \in DOMAIN jobs : jobs[k].slot = OVERVIEW_SLOT}) = 1

(* "drain one stale entry and retry once" (mapengine.cpp:1407): what       *)
(* enqueue throws away when the queue is full is of no use to anyone.      *)
DrainsStale ==
    [][DrainAndRetry /\ jobs # <<>> => ~StillWanted(Head(jobs))]_vars

(* Once every tile can be rendered, a slot of a centred window comes to    *)
(* show its own tile, however the window was laid out, restyled and filled *)
(* with placeholders in the meantime.                                      *)
Sharpens ==
    \A s \in Slots :
        centred /\ grid.slots[s].state # "READY"
            ~> grid.slots[s].state = "READY"

(* When the screen comes back on to stay, every slot of the window comes   *)
(* to show its own tile, whatever was fetched or dropped in the dark.      *)
WakeSharpens ==
    <>[](visible /\ centred) =>
        \A s \in Slots : <>[](grid.slots[s].state = "READY")
=============================================================================
