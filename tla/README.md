# TLA+ models of the GNSS live map

This directory holds formal models of the map application in this repository:
TLA+ modules, the TLC configurations that check them on small instances, and
proofs that TLAPS checks for every value of the constants. Paths such as
`mapengine.cpp:885` refer to the repository's source.

Run from this directory:

    tlc -workers 2 -config engine_relayout.cfg MC_MapEngine
    tlapm MapEngine_proofs.tla

`PROJECT.json` lists the components, the runs, the mutated definitions that show
each property can fail, the source lines behind each definition, the hazards and
the findings.

## 1. The program and its parts

The device shows a map of vector tiles that follows a GNSS position. FreeRTOS
tasks on two cores share it: the Arduino `loop()` (the UI task, core 0), the
render worker (core 1), the GNSS reader, the prefetch and world-floor tasks, and
the USB driver's own task.

| Part | State it keeps | Operations | Talks to |
|---|---|---|---|
| Tile window (`tile_grid.c`) | GRID_N x GRID_N slots: tile id, state, pixel buffer, generation; origin | init, shift, set_zoom, drift, commit, commit_swap | called by both tasks under `g_glock` |
| Tile pipeline (`mapengine.cpp`) | the window, job queue (32), spare buffer, label sets, overview and its retry timer, visibility, palette | recentre, shift, restyle, sleep/wake, placeholder fill, label drawing; worker: take, drop, fetch, render, commit | UI task and worker, by queue, lock and volatile flags |
| View and panning (`mapengine.cpp`) | view and anchor positions, marker, `g_panning` | map_update, view_follow, pan step and reset, seed | UI task only, moves the window |
| Place names (`mapengine.cpp`) | two place blocks and two region blocks, an active index each | rebuild (worker), search (UI) | queue, active index |
| World check, worker pause | boot picture and its state, pause request and acknowledgement | start, poll, time out; pause, resume | boot sequence and worker |
| Tile sources (`netsource.cpp`) | adopted daily build, memo, archives on the card, shared directory buffer, markers of the world floor | get, prefetch, walk over the world, refresh | worker, two download tasks, storage |
| Tile cache (`tilecache.cpp`) | append-only blob, sorted index, flushed length | open, get, put, flush, wipe | tile sources |
| Archive reader (`pmtiles.c`, `bigfile.cpp`) | header, root and leaf caches | find, read | tile sources |
| Decoders (`mvt.c`, `inflate.c`, `raster.c`) | scratch buffers | decode, rasterise | render worker |
| GNSS receiver (`gnss.cpp`) | fix, parser state, capture of a UBX exchange | feed, publish, exchange with timeout, set rate | reader task, save task, UI task |
| GNSS trust (`gpstrust.cpp`) | evidence flags with times, previous fix, level | update, expire, reset | UI task |
| Wi-Fi positioning (`wifiloc.cpp`) | radio state, scan in flight, table of access points | poll, learn, locate, flush, load | UI task, radio |
| Credentials and portal (`wifistore.cpp`, `portal.cpp`) | the credential on the card; the portal's page and timer | save, load; run | boot, settings panel |
| Points and log (`waypoints.cpp`, `maglog.cpp`) | list with a target; buffer, timers, cap | add, remove, target; row, flush | UI task, storage |
| Storage (`storage.cpp`, `idf_usb_msc.cpp`) | chosen volume, drive state, event queue | pick, rescan, connect, disconnect | everyone |
| Compass (`compass.cpp`) | correction, sums, calibration sweep, heading filter | sample, sweep, cancel, import, export | UI task |
| Application (`tab5_map.cpp`) | boot stage, power, theme, panels, policies | setup, loop | everything |

### What is hard here

- Two tasks share the window. The lock covers metadata only; pixel buffers and
  label sets are kept apart by ownership alone, and handed over by pointer.
- A job is a request made in one layout and answered in another. Generations
  and tile ids decide whether the answer is still wanted.
- The queue is bounded and drops jobs; with the screen off, jobs end without
  pixels; a slot that waits must still have a job coming.
- What is cached is recognised by little: an offset (directories, memo), a
  length (the cache's index), a signature (panels). Each is right only if it is
  forgotten when what it stands for changes.
- Files on a removable card are written in place or by remove-and-rename, and
  the device is switched off by its power button.
- Exchanges with the receiver, the radio, the bus and the drive time out while
  the other side may still answer; cards and drives come and go.
- Policies are evaluated at some 200 Hz on inputs that change once a second:
  what a pass remembers of the previous one is usually the same input.

What makes each part correct: for the window, the four invariants written in
`tile_grid.h:7-13`; for the pipeline, that a READY slot shows its own tile in
the current palette with its own names, that no buffer has two owners and that
a waiting slot is eventually served; for the view, that the marker comes to rest
in the band and the screen inside the canvas; for the sources, that a tile is the
one its build or archive has; for the cache and the saved files, that a power cut
leaves the old or the new content; for receiver, radio, bus and boot, that they
neither wait for ever nor act on a late answer; for panels and policies, that
what is shown or set is what is wanted once nothing changes any more.

## 2. Modules

| Module | Models | Code |
|---|---|---|
| `TileGrid` | the window as operators on a grid record: layout, shift, re-request, the two commits and the order of emitted jobs | `tile_grid.c`, `tile_grid.h` |
| `MapEngine` | both tasks around the window: one action per critical section, queue operation or end of an unlocked buffer access | `mapengine.cpp` |
| `BufferPool` | what the code promises about buffers, without tiles: rotations among slots and exchanges with the worker | (abstract) |
| `ViewFollow` | view, anchor, marker and the canvas they move, in parts of a tile | `mapengine.cpp`, `tile_grid.c` |
| `TileCache` | the cache's files and memory, the tasks that use it, power cuts at every step | `tilecache.cpp`, `netsource.cpp`, `flushIfIdle` |
| `NetSource` | the daily build and its discovery, memo, cache, markers, prefetch and the walk that stores the world floor, restarts | `netsource.cpp`, `mapengine.cpp` |
| `LocalArchives` | archives on the card, the shared directory buffer and its slots, a lookup in steps each of which may fail | `pmtiles.c`, `netsource.cpp` |
| `TileIndex` | tile ids on the Hilbert curve and the search of one directory, against the entries its writer put there | `pmtiles.c` |
| `GnssLink` | the reader task byte by byte, capture and exchange, what a sentence publishes, the dump and its write-back | `gnss.cpp`, `tab5_map.cpp` |
| `GpsTrust` | the checks on a fix, their expiry and the level, pass by pass | `gpstrust.cpp` |
| `WifiLoc` | scans and the radio, with the other users of it | `wifiloc.cpp` |
| `ApTable` | what scans fold into the table of access points, its pruning and its file | `wifiloc.cpp` |
| `SavedFiles` | how each small file is replaced and what a boot makes of what it finds | `wifiloc.cpp`, `wifistore.cpp`, `waypoints.cpp`, `tab5_map.cpp` |
| `Portal` | the portal and what it stores | `portal.cpp`, `wifistore.cpp` |
| `MagLog` | the log's buffer, timers and cap | `maglog.cpp` |
| `Touch` | taps, the list of points and its target, what panel and footer show | `tab5_map.cpp`, `waypoints.cpp` |
| `RatePolicy` | the receiver's rate and the idle dimming | `tab5_map.cpp` |
| `Theme` | palette and backlight, with the screen off and on | `tab5_map.cpp` |
| `Calibration` | the compass's sweeps, what a finished one does to correction and sums, the blob | `compass.cpp`, `tab5_map.cpp` |
| `Boot` | `setup()` from the search for a store on, the slot, the USB task, the choice between them | `tab5_map.cpp`, `storage.cpp`, `main/idf_usb_msc.cpp` |
| `Battery` | the gauge's polls and the recovery of its bus | `tab5_map.cpp` |
| `MC_MapEngine`, `MC_TileCache` | values for TLC | |
| `MC_Position`, `MC_App`, `MC_Device` | several modules in one instance (section 3) | |
| `BufferPool_proofs`, `MapEngine_proofs` (with `TileGrid`'s lemmas), `MapEngine_jobs_proofs`, `TileCache_proofs`, `TileCache_recovery_proofs` | theorems about the module before the underscore | |
| `Position_proofs`, `App_proofs`, `Device_proofs` | theorems about the modules each instance puts together | |

`MapEngine` composes the window (by EXTENDS) and implements `BufferPool` twice
(by INSTANCE). The other modules meet at narrow places only, and each models
the part of its neighbour it depends on: `ViewFollow` the drift that shifts the
window, with `MapEngine`'s `Shift` happening at any time whatever the view says;
`NetSource` a cache that keeps what was flushed (`TileCache` says what that takes);
`WifiLoc` a table that has entries or has none (`ApTable`); `Calibration`,
`ApTable` and `Portal` a file that is saved, or is not (`SavedFiles`).

### How `MapEngine` corresponds to the code

- `grid`, `jobs`, `spare` are `g_grid`, `g_jobs`, `g_spare`; `labels` and
  `wLabels` are `g_labels` and `w_labels`; `coarse` bundles `g_coarse_ok`,
  `g_coarse_id`, `g_coarse_want` and whether `g_coarse_retry_at` is set.
- `pixels`, `names` and `overview` say what the memory holds: painted for a tile
  in a palette, being written, or `mixed` when two tasks wrote it at once (or
  the palette changed half-way).
- `ui` and `wk` are the program counters and locals of the two tasks. An
  operation of the UI task runs to its end before the next one starts, because
  all of them are called from `loop()`; the worker interleaves at every step.
- `recentre_at`, `map_update`'s shift and `map_set_dark` are a critical section
  (`Recentre`, `Shift`, `Restyle`/`RestyleGrid`/`InvalidateCoarse`) followed by
  `EnsureCoarse` and one `Enqueue` per job; `DrainAndRetry` is a step of its own
  because the worker can make room between the failed send and the drain.
- `coarse_fill_pending` is `PickUnpainted` (locked), `BeginFill` (the unlocked
  copy starts), `EndFill` or `GiveUpFill` (locked again).
- `draw_labels` is `CheckReady` (locked), `BeginLabels` and `EndLabels` (the set
  is read in between).
- The worker is `TakeJob`/`TakeOverview`, then `DropStale`, `StartFetch` or
  `StartRender`, then `EndFetch`, `CommitRender`, `CommitFailure` or
  `EndOverview`.

Abstractions: the zoom is fixed, as `Z_LEVEL_CLOSE` equals `Z_LEVEL_WIDE` in
`mapconfig.h`. `map_draw` returns unless `g_view_set`, which the first
`map_update` after a recentre sets; the model uses "centred". `Shift` may happen
with any drift at any time after centring. The retry timer may fire as soon as it
is armed. A render's outcome is chosen from `Results`; a tile that fails leaves
the buffer as it was, as `render_tile` does. A place block occupies the queue; its
contents are not modelled. The boot world (`WORLD_SLOT`) is not a job of this model.

### How `TileCache` corresponds to the code

- `card` holds the files by build: the blob as a sequence of cells (a header
  cell, then the payload's cells), the index file, the manifest. `synced` is
  each blob as of its last flush or close; a power cut goes back to it, except
  that cells overwritten since may have been written through.
- `cache` holds `g_blob`/`g_idx` (open or not), `g_blob_len`, the index,
  `g_since_flush`; `build` is netsource's `g_build`; `guard` is `g_clock`.
- `todo` lists the steps a task has still to do: `"net"` is whichever task holds
  netsource's own lock, so there is one; `"ui"` is `loop()`, which only flushes.
  A put and its flush hold `g_clock`, open, close and wipe do not.
- `idx_save` is `SaveBegins` (the old file is truncated) and `SaveEnds` (the
  unchecked writes succeed or leave nothing usable), or `SaveFails`.
- A change of build or a wipe is close, remove, remove, open, load, with a power
  cut possible between any two.
- `mishaps` is a history for the properties and changes nothing else.

Abstractions: an index file cut short is the same as none, because `idx_load`
refuses both. A header is written whole or not at all. Blobs are flushed
successfully. `r+` and `w+` fail together: that the first fails alone, and the
second then empties a blob, is outside the model. Any newer build may be found at
any time (`NetSource` has the calendar). A put names a tile and appends its cells.

### How the other modules correspond to the code

Each action is one handler, one pass of `loop()`'s share of it, or one step of a
task between two points where another may run; the header of a module says how
its time and its lengths are scaled. History variables, which the code does not
have, are marked so where they are declared. What surrounds a part is an action
of its own: the receiver and its line in `GnssLink` (bytes may be lost, answers
may come late or not), the fix and the radio's other users in `WifiLoc`, cards,
drives and the user's touches in `Boot`, the server's calendar of builds in
`NetSource`, the power switch in `SavedFiles`, `ApTable`, `NetSource` and
`Calibration`. Where the code calls the file system or the network, success and
failure are both possible.

- `ViewFollow`: `Followed` is `view_follow`, `Refitted` what `map_update` and
  `map_pan_step` do after it. `SCREEN_W * MARKER_BAND` is rounded to a float in
  the code and to a double down the screen, so that a step across is a trifle
  longer than the band and a step down exactly as long: `OVER` is that trifle.
- `NetSource`: `netsource_get` holds `g_lock` throughout, so a fetch is one step;
  the walk is not, and yields between tiles. A build has each tile, or not, and
  stores tiles of one class once, which is what the memo exploits.
- `LocalArchives`: one lookup is several steps, though under the lock, because a
  read in the middle may fail and leave the shared buffer as it is.
- `GnssLink`: the reader and the save task share a core and the reader has the
  higher priority (`MayRun`); moved to another core, the capture would be
  written after its time (the mutant of `CaptureHeld`).
- `Boot`: the USB task takes its events one at a time and mounts between them;
  `lost` records that the driver's queue overran. Formatting takes the card or fails,
  and after a failure the wait goes on and does not ask again.

## 3. Runs

The engine's runs use a 2 x 2 window (`GRID_N` of `mapconfig.h`) on a world of 4 x 4 tiles, the
smallest in which columns wrap and a window near the edge has rows off the
world; an overview tile spans 2 x 2 of them, so that windows straddle overviews.
Three generations allow two layouts after the initial one, so that a job, a
render or a placeholder can be two layouts out of date.

| Run | Result | Shows |
|---|---|---|
| `engine_relayout` | holds | Recentring, three kinds of shift, palette changes and placeholders with failing tiles. The queue holds 6, one layout and a bit, so the full-queue path is taken. `TypeOK`, `BufferOwnership`, `ReadyFaithful`, `IdsFollowOrigin`, `ReadyKept`, `NamesPartOnlyByDrift`. |
| `engine_settle` | holds | A queue of 10 holds every job of two layouts, as the code's 32 do. Without drift and sleep: `PendingHasJob`, `LabelsNotShared` and, under fairness, `Sharpens`. |
| `engine_sleep` | holds | Screen off and on, fetches in the dark, a place block in the queue: both refinements of `BufferPool`. |
| `cache_power` | holds | Two builds, three tiles of different sizes (one empty), an index of two entries, appends that may be cut short. `TypeOK`, `GetFaithful`, `ZeroPendingIsSafeIfSound`, `SurvivorsKept`. |
| `position` | holds | `GnssLink`, `GpsTrust`, `WifiLoc`, `ViewFollow`: `CaptureHeld`, `CaptureWalks`, `SuspicionShown`, `LearnedNearby`, `MarkerInBand` and, under fairness, `ScansAgain`. |
| `app` | holds | `Touch`, `RatePolicy`, `Theme`, `SavedFiles`, `ApTable`, `MagLog`, `Portal`, `Calibration`: `TargetFollowsPin`, `ScreenTrue`, `RateHeld`, `ThemeTrue`, `NoHalfLoaded`, `KeptUnlessExposed`, `OnlyFixedLocate`, `LoggedSoon`, `StoredJoins`, `RejectedForgotten`. |
| `device` | holds | `Boot`, `Battery`, `NetSource`, `LocalArchives`, `TileIndex`: `CacheOfBuild`, `FloorStored`, `LocalFaithful`, `FoundIsTheTiles` and, under fairness, `BootsInTheEnd` and `WedgeClears`. |
| `engine_wake` | violated | `WakeSharpens`: a fetch started in the dark ends after the wake and blanks a slot. |
| `cache_overlap` | violated | `IndexHeldWhileWritten`: close takes no lock. |
| `trust_deaf` | violated | `JumpNoticed`: the previous fix is that of the previous pass. |
| `view_edge` | violated | `ViewOnCanvas`: the view is clamped before the canvas is shifted. |
| `pan_uneven` | violated | `PanMoves`: a pan is as long as the band is wide. |

### Instances of several modules

`MC_Position`, `MC_App` and `MC_Device` check modules that share no variable. A
behaviour of such an instance moves one of them, chosen at the start, and leaves
the others in one of their initial states, so its states are the sum and not the
product of its parts; every property speaks of one module only, and holds of
that module's own specification exactly if it holds here. The fairness of a part
is asked in the behaviours that move it.

### Bounds

- `cache_power`: blobs of at most 6 cells together, the sum of the three records:
  enough for a full index, a record that finds it full, and a tail left in front
  of a shorter record. The index is flushed at the first put and at every other
  one after, so that there are pending puts; a blob longer than 2 cells with
  fewer than two entries is wiped, so that wipes happen. `Mishaps` says which
  accidents an instance explores; `cache_power` lets appends fail and excludes
  the three accidents after which a promise is known to break.
- `GnssLink`: frames of 10 bytes at most, a buffer of two, four items on the line
  and one lost byte: a lost byte in a header, a length, a payload and a checksum,
  and frames after it. `GpsTrust`: positions that are the same, next to each other
  and far apart; passes of one and two ticks, so that a held-up pass occurs.
  `WifiLoc`: a fix at 0, 1 and 4, that is 1, 3 and 4 apart, of which 3 is the
  most a learned scan may be off (speed 1, a scan's two ticks, tolerance 1) and 4 is
  beyond it; each interval as short as it can be and still differ from the ones
  the code compares it with. `ViewFollow`: a tile of 24 parts and a
  screen of 24 by 12, thirds and halves of which are whole; fixes on and beside
  the half-tile line and more than a tile and a half away; two pans deep.
- `Touch`: two points and one row, so that the list scrolls and the target
  shifts; `RatePolicy`, `Theme`, `MagLog`: intervals of one to three ticks, in the
  code's order; `SavedFiles`: three versions, so that a save follows a save that
  failed after one that did not; `ApTable`: three addresses for two records, two
  observations, three spots of which the outer two are too far apart;
  `Calibration`: three sweeps, so that one follows a rejected one and a restart.
- `Boot`: a queue of two events; `Battery`: four faults, staleness after six ticks
  and a new set-up every two, as 30 s and 5 s round; `NetSource`: three days, of
  which the server keeps two, three tiles of which one is claimed by an archive;
  `LocalArchives`: three archives (one with a level more, one whose root fits its
  cache, one cut short), three leaves, two slots; `TileIndex`: zooms 0 to 2,
  directories of up to three entries with runs of 0, 1 and 4 and gaps of 0 and 4,
  so that runs touch, leaves lie between runs and ids fall in gaps.

Deadlock is not checked: the number of layouts, versions, sweeps, faults and days
is bounded, boot ends, a walk is done, a directory is full, and an instance then
has nothing left to do.

### Fairness

`FairSpec` of `MapEngine` asks for weak fairness of the worker, of the UI task's
started operations, and of the overview's retry. The two tasks are pinned to
different cores and share nothing that blocks except `g_glock`, held for a few
memory accesses; a started operation has no wait of its own; `map_draw` runs on
every pass of `loop()`, so an armed retry timer is eventually noticed. No fairness
is asked of new layouts, screen changes or placeholders. In `position` weak
fairness is asked of a poll one unit of time after the last, since `loop()` polls
at every pass; in `device`, of `setup()`, which never waits without a poll or a
deadline, of the USB task, which blocks on its queue alone, and of the gauge's
poll. Nothing is asked of the environment: no card need be inserted, no network
appear and no scan complete. The properties name what they need of it.

## 4. What the violated runs say

1. **Wake race** (`engine_wake`). The dark fetch commits PENDING late, over a READY
   slot that the wake had no reason to re-queue, against `mapengine.h:274-275`.
2. **Unlocked close** (`cache_overlap`). A fetch that finds a new build closes the
   cache and frees the index while `loop()` may be writing it out, against
   `tilecache.cpp:63-66`.
3. **Deaf to jumps** (`trust_deaf`). The jump test wants a previous fix at least a
   quarter of a second old; `loop()` replaces it at every pass, so the jump is
   seen between two fixes some milliseconds apart and the test is skipped
   (`gpstrust.cpp:158-160`, `gpstrust.h:42`). Only a pass that was itself held up
   for that long can raise the flag.
4. **View off the canvas** (`view_edge`). `view_follow` clamps, then the shift moves
   the canvas by a tile. Up to about 200 of 720 pixels show no map until the next
   pass that computes, at most a second later.
5. **Uneven pans** (`pan_uneven`). After one tap the anchor lies on the band's line;
   down the screen the next tap moves the view by nothing or by two steps, across
   it the clamp to the canvas undoes part of the step.

### Properties stated and in no run

The modules state some more properties that the code breaks, or breaks under
constants other than those of the runs. They can be checked by naming them in a
configuration; what TLC shows is in the findings.

- `Sharpens` with drift: a shift carries a PENDING slot along (`tile_grid.c:118-124`)
  and emits no job for it; the job it had is dropped as stale.
- `ReadyFaithful` with `FillPending`: `coarse_fill_pending` paints a buffer it saw
  under the lock, which a commit has since made the worker's. `engine_relayout`
  runs with `FillPending` false, the code during boot (`tab5_map.cpp:4219`).
- `LabelsFaithful` with drift: label sets are not moved on a shift. What holds, and
  is checked and proved, is that nothing else parts a picture from its names
  (`NamesPartOnlyByDrift`): a commit brings both, and no layout, palette or lost job
  touches one without the other.
- `DrainsStale` (`MapEngine`): a drift sends the overview's job to the front of the
  queue; if its own tile jobs then overflow the queue, `enqueue` drains the front,
  which is that job, and nothing asks for the overview again before the next layout
  (`mapengine.cpp:1407-1412`). TLC finds it at once with `GRID_N = 2`, `QUEUE_LEN = 6`
  and shifts `NorthWestShift`; the code's queue of 32 needs about ten drifts during
  one slow render.
- `ZeroPendingIsSafe` (`TileCache`): a put that fails part way leaves cells after
  `g_blob_len` that the next start counts.
- `FloorReady` (`NetSource`): the floor is marked as stored though fetches failed,
  and stays marked when a new build wipes the cache. `FloorStored`, which is
  checked, excepts exactly these.
- `AgesOut` (`NetSource`): the date is taken once per boot, so a build never ages.
- `StaysUndimmed` (`RatePolicy`): the pass after the one that undims dims again.
- `DrawnOnWaking` (`Touch`): `drawFooter` is not called while the screen is off
  (`tab5_map.cpp:4734`), so the row the screen-off wiped is not forgotten, and after a
  short sleep the footer is blank until the heartbeat. `ScreenTrue`, which is
  checked, promises the footer at the heartbeat only.

That each passing run leaves out what breaks is deliberate: together they say
which ingredient breaks which promise. The findings without a run were met while
reading the code for the model and follow from the lines they name.

## 5. Proofs

A theorem here holds for every value of the constants that the assumptions
allow: any window, world, queue, card, table, list, any intervals and limits,
any choice of operations. The assumptions are the `ASSUME`s of the component
modules; every run evaluates those of the modules it extends. They ask for no
more than the code fixes at compile time: sizes, intervals and limits are natural
numbers, those that are divided by or indexed with are not zero, sets of tiles
and of access points are finite, `SingleFixChecks` names checks that look at one
fix only (clock, signal strength, Wi-Fi).

No theorem needs fairness; where a run's specification has it, the theorem is
about the specification without it, or drops it.

### The window and the pipeline

- `MapEngine_proofs` begins with lemmas about the window alone: ranks by a total
  order are a bijection between a finite set and an interval (`NthExists`), so "the
  n-th slot" and sorted job lists are well defined; `slot_rank` with ties by index is
  such an order. `GiverInjective` is
  the heart of `grid_shift`: carried slots and donated buffers together form an
  injection on slots, because as many slots need a tile as buffers are left over
  (`DonorsMatchNeeds`, the comment at `tile_grid.c:131-133`).
- `TypeCorrect`: `TypeInv` adds to `TypeOK` that the UI task
  has a job in hand while it sends and that the retry timer is armed only for an
  overview with a name; without them `Head` of an empty list and a nameless job
  would be typed by nothing.
- `BuffersOwned`, `PixelsImplementPool`, `NamesImplementPool`: the inductive
  invariant is `TypeInv` with `BufferOwnership` itself. Each step of the pipeline
  is shown to be a step of `BufferPool` or a stutter (`PixelStep`, `NameStep`); a
  shift is a rotation only because the slots' buffers are already distinct, so
  ownership and refinement are proved together.
- `SlotsFollowOrigin`: invariant 2 of `tile_grid.h`.
- `MapEngine_jobs_proofs` rests on the jobs (`JobsInv`): as long as the screen
  stays on, no two jobs of the present layout are for one slot, wherever they are
  - in the queue, still to be sent, in the worker's hands -, and a slot that has
  one waits for it. From there `ReadyShowsItsTile` (`ShownInv`: the gap being
  painted is still a gap with the same buffer, and what the worker renders for the
  present layout is spoilt by nobody), `LabelsReadAlone` (`QuietInv`: the slot
  whose names are read stays READY and keeps its set). `ReadySurvivesShift` is
  invariants 3 and 4 of `tile_grid.h`.
- `OnlyDriftsPartNames`: `Misnamed`, the slots that show a tile under other names,
  gains a member only in a step that moves slots. It rests on ownership, so that
  what the worker writes is no slot's label set, and on the worker's own control: one
  that commits has painted the spare and `w_labels` for the same tile.
- `WaitingSlotsHaveJobs`: a layout asks for every slot it leaves waiting, each job
  is passed from the UI task to the queue to the worker without a gap
  (`AllServed`, from the recentring that will centre the window on: `Centring`), and
  the worker drops only what no slot waits for. A drift sends jobs for the slots it
  empties (`ServedShifted`).
- `QueueHoldsLayouts` counts: what is queued, to be sent, and still owed to the
  overview (`Load`) grows by `LayoutJobs`, a job for each slot and one for the
  overview, when a layout is begun, and by nothing else - another attempt at the
  overview takes the place of the one that failed. So a queue never overflows if each
  layout is begun with that much room left, however many layouts there are.
  `RoomForgetsNoSlot` joins the two.

Six of these have a hypothesis about what the environment does, and none can do
without:

| Theorem | Hypothesis | Without it |
|---|---|---|
| `ReadyShowsItsTile` | `OnlyGapsFilled`: placeholders are painted into gaps only (`g_fill_pending` off), and the screen is not switched; or there are none | with `FillPending`, or with `Ops` of recentring, screen and placeholders and tiles the archive lacks, TLC finds the UI task painting a buffer that a commit has just given the worker |
| `LabelsReadAlone` | the screen stays on | a job that slept may be committed over a READY slot, as in `engine_wake` |
| `WaitingSlotsHaveJobs` | `DriftsAnswered`: a drift comes when the tiles it carries have been answered (rendered or failed), not while one waits; the screen stays on; `enqueue` finds room (`QueueHolds`) | a waiting slot that is carried keeps its old generation and gets no job; a fetch in the dark leaves its slot waiting; a drain may throw away a job of the present layout, or find the queue emptied meanwhile and send nothing (`mapengine.cpp:1412`) |
| `QueueHoldsLayouts` | `BegunWithRoom`: a layout is begun with at most `QUEUE_LEN - LayoutJobs` jobs outstanding, which for the code's queue of 32 and window of 2 by 2 is 27; the screen stays on and there are no place blocks | the layouts alone fill the queue |
| `RoomForgetsNoSlot` | `BegunWithRoom` and `DriftsAnswered`, the screen stays on, no place blocks | as above |
| `ReadySurvivesShift` | `GRID_N < WORLD` | two columns of a wrapped window show one tile; the code's world is 2^Z wide |

`DriftsAnswered` and `BegunWithRoom` are not guards of the code: they say how
slow the worker may be next to the drifts. Once the window has moved the next drift takes about a tile of
travel, so that they fail only for a worker that spends that long on one window, or
lags five layouts behind; that it may is the finding about carried slots. With both
conjoined to the next-state relation, three kinds of shift and a queue of 6, TLC
finds `PendingHasJob` and `QueueHolds` kept and many drifts made; with either
left out it finds them broken.

### The tile cache

`TileCache_proofs` has two layers. `Kept` (types, bounds and control) follows the
two tasks through their lists of steps: which step may follow which
(`Planned`), that the UI task only ever flushes, who holds `g_clock`, that the
cache is open exactly where a step needs it, that a draft exists only between the
two halves of `idx_save`. From it `CacheIsTyped`: the index fits its array and the
program's count never passes the end of the file. On top of it `Right`, as long as
the card is sound:

- `Untorn`, `Torn`: a blob is whole records (`Formed`: there is a set of places,
  with 0 and the end in it, closed under stepping from a header over its payload);
  only the blob that is open, or has just been closed to be removed, may have a
  torn end;
- `Indexed`: the index in memory is right about the open blob, and no index file,
  written or half written, is of a longer one;
- `Written`: every index file, and every draft of one, claims nothing wrong of the
  blob it would be accepted for - for a blob exactly as long as it says.

`GetIsFaithful` follows. A rescan is a recursive function over the file, and what
it finds (`RescanFaithful`) is proved through `CountingUp`, induction over a finite
interval obtained from the pigeonhole principle: a set of numbers that has 0 and
with each number its successor would otherwise inject into a smaller one. The
index must never be longer than the blob because a blob that grows into it would
be taken for the one it was made of; that is what the `stale` mishap stands for.

`TileCache_recovery_proofs` is about power cuts. First the walk itself: what rescan
reads of a file that begins with whole records is what it reads of those records,
then more (`WalkSplit`); more cells never take a tile away (`FoundWithin`), and an
appended record adds just its tile, unless the index would be full by then
(`FoundAppend`). On top of `Right` comes `Safe`, as long as the card is sound and no
flush has run beside an open or a close:

- `Whole`, `Known`, `Drafted`: every index file, the index in memory and the one
  being written have exactly the tiles rescan would find in as much of the blob, so
  it never matters which of them an open believes;
- `Apart`, `NetFlushes`: while one task flushes, no step of an open or a close is to
  come;
- `Settled`, `Flushed`: only the open blob has cells that were not flushed, and it
  has none by the time an index is written - but for `tilecache_close`, which saves
  first and closes after;
- `Stored`: with nothing pending, some whole records that were flushed hold every
  tile of the index. They need not be all of the blob: a record that found the
  index full is appended without being counted as pending.

`ZeroPendingCostsNothing` reads it off: in whatever a power cut leaves, an accepted
index file has at least the tiles of those records, and so has a rescan.
`WhatSurvivesIsKept` shows that without a mishap what survives is what rescan finds
in the flushed part (`SurvivorsAre`), whatever the index file holds, and that the
flushed part only ever grows (`FlushedGrows`).

### The parts of the instances

Each of the 17 modules in `MC_Position`, `MC_App` and `MC_Device` has an inductive
invariant of its own; the theorems are about that module's specification, and
`PositionPartsHold`, `PartsKeepTheirTypes` and `DevicePartsHold` show that a
behaviour of the instance is one of each part, so that all of them hold there.

- `CapturesStayInside`: the frame is as long as the parser's state says
  (`FrameFits`), and a capture is in progress only while its exchange runs.
- `CapturesWalk`: what the parser has of a frame starts with the sync bytes and
  tells its own length (`Shape`), so a finished frame with a payload is whole
  (`FinishedWhole`); a capture is whole frames one after the other (`Framed`), which
  a further one keeps (`FramedAppend`), and over which the walk of `gnss_dbd_write`
  goes to the end (`FramedWalks`). A frame of no length, which the parser finishes
  one byte early, is the exception the property itself makes.
- `SuspicionsAreShown`: the property itself is inductive with the types.
- `LearningStaysNear`: a scan that polls have watched is never older than its
  timeout (`AgeBounded`), so the way made meanwhile is bounded by speed, time and
  the tolerance (`LEARN_SLACK`, the 10 m of `wifiloc.cpp:660`).
- `MarkerStaysInBand`: after one quiet pass at most one more shift is due, and the
  view is where that shift does not cut it off (`Near`); after two it is done
  (`Settling`). Needs `SmallScreen`, a screen no larger than a tile either way:
  `SUBTILE_PX` is 1280, the panel's longer side (`mapconfig.h:24`). With `TILE` 6
  and a screen 10 wide TLC finds the marker outside the band.
- `StoredCredentialsJoin`, `RowsReachTheCard` (every row is younger than the last
  flush), `RejectedSweepsAreForgotten` (`CalTraced`: no sweep that was rejected is
  in the correction, the sums, or the blob, and the one that runs is in none of
  them), `RatesSettle` (a pending rate has been wanted for as long as it is
  pending), `OnlyFixedPointsLocate` (the extremes of a record span what it saw),
  `PaletteIsTrue` (`PaletteComes`, `LitAsWanted`), `SavedFilesSurvive` (`DraftComes`:
  what is written so far of the draft follows from the step of the script and from
  no write having failed), `ScreenFollows` (`PanelSound`: what the panel shows is
  its content wherever its signature is the last one drawn; `FooterSound`).
- `CacheKeepsItsBuild` (`WalkSettles`: every tile behind the walk, or behind its
  checkpoint, is cached, covered or gone), `DirectoriesAreTheirOwn` (`ClaimsTrue`:
  what an archive takes the shared buffer and the slots to hold, they hold of the
  archive that owns them).
- `TheTilesAreFound`: a directory says of the entries it was written from what they
  are, and they lie in the order of the curve, none before the end of another
  (`DirectoryOf`); walked from the first entry it gives them back (`ReadBack`); and
  the last one that begins up to a tile is the only one that can be for it
  (`SearchFinds`). Its hypothesis, `CurveInverse`, is that `pmt_zxy_to_tileid` and
  `pmt_tileid_to_zxy` are inverse to each other on the zooms there are. The provers
  know nothing of powers, so this is not proved: TLC evaluates it for zooms 0 to 2 in
  every run of `MC_Device` (`CurveOfInstance`, which no proof cites).

Some definitions are written for the prover without a change of meaning: counts
as cardinalities instead of folds (`Writes` in `SavedFiles`, `CellsOfOthers` in
`TileCache`), the record a rescan stands on as operators of its own (`RecordEnd`,
`RecordAt`, `RecordsFrom`), the victim of a slot as a predicate (`LocalArchives`).

### What is only model-checked

- `CurveInverse`, on which `TheTilesAreFound` rests: that the curve and its inverse
  agree, which takes powers of two.
- All liveness: `Sharpens`, `ScansAgain`, `BootsInTheEnd`, `WedgeClears`. Fairness
  and ENABLED are beyond the prover.
- The properties the code breaks (section 4), for which a run finds the violation.

Every invariant and every action property of the passing runs is stated by a
theorem. What is left would be new: `CurveInverse` by induction over the zoom, for a
prover that knows powers, and an abstract tile cache (`tilecache_get` and
`tilecache_put` on a set of tiles) that `TileCache` refines.

## 6. Not modelled, and why

- Decoders, rasteriser, heading filter, the arithmetic of the Wi-Fi estimate and of
  the ellipsoid fit: sequential computation over large data or doubles, out of
  TLC's reach; only their outcomes appear.
- Drawing: what is drawn where. What decides whether something is drawn again is
  in `Touch`, `Theme` and `MapEngine`.
- Place names, the worker's side of the boot check and `map_worker_pause`: small
  hand-overs whose hazards need a render longer than the code's own timeouts.
- The USB host stack failing to come up (`usb_msc_begin`): every poll of the wait for
  storage tries again, so `Boot` begins with the stack up. A stack that never
  comes up is a port no drive is ever found in.
- TLS, DNS, HTTP, cryptography, HTML, FatFs below a call: taken as calls that
  succeed or fail.
- `map_set_zoom`: both zooms are the same, so it never does anything.
- `netsource_prefetch_world`: nothing calls it; the walk is `world_task`.
- Build scripts and offline tools are not part of the running program.
