----------------------------- MODULE NetSource -----------------------------
(***************************************************************************)
(* Where a tile comes from: netsource.cpp with the walk over the world's    *)
(* low zooms that keeps them for offline use (world_task of mapengine.cpp). *)
(*                                                                          *)
(* The server has a build for each day, named after it, and keeps it for    *)
(* HOSTED days.  A build's tiles of one class are stored once; what is at   *)
(* an offset of one build is something else in another.  A tile may be in   *)
(* one build and missing from the next.  g_lock makes every fetch one step. *)
(* The archives on the card are there in so far as the search order needs   *)
(* them; the tile cache (TileCache) keeps what has been flushed.            *)
(***************************************************************************)
EXTENDS Integers, FiniteSets

CONSTANTS
    TILES,          \* the tiles of the walk, in its order, are 1 .. TILES
    Covered,        \* those a local archive's header claims
    MAX_DAY,        \* bound on the calendar
    HOSTED,         \* days a build is on the server
    MAX_PROBE_DAYS,
    REFRESH_DAYS

ASSUME NetAssumption ==
    /\ TILES \in Nat \ {0} /\ Covered \subseteq 1 .. TILES
    /\ {MAX_DAY, HOSTED, MAX_PROBE_DAYS, REFRESH_DAYS} \subseteq Nat \ {0}

VARIABLES
    world,  \* the day, and if there is a link
    date,   \* g_today_epochdays, and loop()'s dateSet
    dev,    \* g_build, g_adopted_epochdays, the build g_remote is open on,
            \* the build and offset of the memo, the tile cache
    disk,   \* what of it a restart finds: build.txt, world.pos, world.ok, the
            \* tiles whose index entry is flushed
    walk,   \* the tile world_task is at, and whether it has asked for it; 0: no task
    gone,   \* not in the code: tiles the walk has passed without them, lost
            \* with their build, or lost in a power cut
    stale   \* not in the code: a fetch has taken a build for fresh that is not

netVars == <<world, date, dev, disk, walk, gone, stale>>

-----------------------------------------------------------------------------
Tiles == 1 .. TILES
Days == 1 .. MAX_DAY

(* The server. *)
Class(t) == IF t =< 2 THEN 1 ELSE t
IsSea(build, t) == t = 2 /\ build % 2 = 1
HostedOn(day) == {b \in Days : b =< day /\ b > day - HOSTED}

NotCached == [what |-> "nothing", of |-> 0, at |-> 0]
Marker == [what |-> "empty", of |-> 0, at |-> 0]
Blob(build, offset) == [what |-> "blob", of |-> build, at |-> offset]

(* What a build has for a tile. *)
Holds(build, t) == IF IsSea(build, t) THEN Marker ELSE Blob(build, Class(t))

NoMemo == [of |-> 0, off |-> 0]
NoTiles == [t \in Tiles |-> NotCached]
NoPos == [build |-> 0, at |-> 0]

-----------------------------------------------------------------------------
NetInit ==
    /\ world = [day |-> 1, link |-> TRUE]
    /\ date = [today |-> 0, set |-> FALSE]
    /\ dev = [build |-> 0, adopted |-> 0, remote |-> 0, memo |-> NoMemo, tiles |-> NoTiles]
    /\ disk = [build |-> 0, adopted |-> 0, pos |-> NoPos, ok |-> FALSE, flushed |-> {}]
    /\ walk = [at |-> 1, asked |-> FALSE]
    /\ gone = {} /\ stale = FALSE

Reads(build) == world.link /\ build \in HostedOn(world.day)

(* Mutant: the memo outlives its build. *)
OpenRemoteKeepingMemo(d) == [d EXCEPT !.remote = IF Reads(d.build) THEN d.build ELSE 0]

(* open_remote, if the header can be read. *)
OpenRemote(d) ==
    [d EXCEPT !.memo = NoMemo, !.remote = IF Reads(d.build) THEN d.build ELSE 0]

(* discover_build probes back from today; any probe may fail. *)
Discovered(today) ==
    IF today = 0 \/ ~world.link THEN {0}
    ELSE {0} \cup {b \in HostedOn(world.day) : b =< today /\ b > today - MAX_PROBE_DAYS}

(* netsource_refresh: another build takes the old one's cache away. *)
Refreshed(d, found) ==
    IF found = 0 THEN d
    ELSE OpenRemote([d EXCEPT !.build = found, !.adopted = date.today,
                              !.tiles = IF found = d.build THEN @ ELSE NoTiles])

AgedOut == date.today # 0 /\ dev.adopted # 0 /\ date.today - dev.adopted >= REFRESH_DAYS

(* maybe_refresh *)
MaybeRefreshed(found) ==
    CASE dev.remote # 0 /\ ~AgedOut -> dev
      [] dev.remote # 0 /\ AgedOut -> Refreshed([dev EXCEPT !.remote = 0], found)
      [] dev.remote = 0 /\ ~world.link -> dev
      [] OTHER -> LET d == IF dev.build = 0 THEN dev ELSE OpenRemote(dev)
                  IN  IF d.remote # 0 THEN d ELSE Refreshed(d, found)

(* What the remote archive gives for a tile: that it has none, the memo's   *)
(* bytes, or what is read - or nothing, if a read fails.  The directories   *)
(* may be in memory: without a link a tile can be known to be missing, or   *)
(* to be the memo's.                                                        *)
Fetched(d, t, outcome) ==
    CASE outcome = "nothing" -> d
      [] outcome # "nothing" /\ IsSea(d.remote, t) -> [d EXCEPT !.tiles[t] = Marker]
      [] outcome # "nothing" /\ ~IsSea(d.remote, t) /\ d.memo.off = Class(t) ->
             [d EXCEPT !.tiles[t] = Blob(d.memo.of, d.memo.off)]
      [] OTHER ->
             IF outcome = "bytes" /\ Reads(d.remote)
             THEN [d EXCEPT !.tiles[t] = Blob(d.remote, Class(t)),
                            !.memo = [of |-> d.remote, off |-> Class(t)]]
             ELSE d

(* netsource_get_locked: the cache, the archives on the card, and unless    *)
(* the tile is known to be missing the network.                             *)
AsksNetwork(t, local) == dev.tiles[t] = NotCached /\ ~local

Got(t, local, found, outcome) ==
    IF ~AsksNetwork(t, local) THEN dev
    ELSE LET d == MaybeRefreshed(found)
         IN  IF d.remote = 0 THEN d ELSE Fetched(d, t, outcome)

(* The manifest is written and the old cache removed with a new build; the  *)
(* others notice when they next ask.                                        *)
Get(t) ==
    \E local \in {FALSE, (t \in Covered)}, found \in Discovered(date.today),
       outcome \in {"nothing", "directory", "bytes"} :
        /\ dev' = Got(t, local, found, outcome)
        /\ disk' = IF dev'.adopted = dev.adopted /\ dev'.build = dev.build THEN disk
                   ELSE [disk EXCEPT !.build = dev'.build, !.adopted = dev'.adopted,
                                     !.flushed = IF dev'.build = dev.build THEN @ ELSE {}]
        /\ gone' = gone \cup (IF dev'.build = dev.build THEN {}
                              ELSE {u \in Tiles : dev.tiles[u] # NotCached})
        /\ stale' = (AsksNetwork(t, local) /\ dev.remote # 0 /\ ~AgedOut
                     /\ world.day - dev.adopted >= REFRESH_DAYS)

(* The renderer, or prefetch_task. *)
Fetch == \E t \in Tiles : Get(t) /\ UNCHANGED <<world, date, walk>>

-----------------------------------------------------------------------------
Waiting == walk.at \in Tiles /\ ~walk.asked

(* world_task passes what a local archive covers. *)
WalkPast ==
    /\ Waiting /\ walk.at \in Covered
    /\ walk' = [walk EXCEPT !.at = @ + 1]
    /\ UNCHANGED <<world, date, dev, disk, gone, stale>>

WalkAsk ==
    /\ Waiting /\ walk.at \notin Covered
    /\ Get(walk.at)
    /\ walk' = [walk EXCEPT !.asked = TRUE]
    /\ UNCHANGED <<world, date>>

(* Mutant: the checkpoint is of the tile after the one asked for. *)
SavedPosNext == [disk EXCEPT !.pos = [build |-> dev.build, at |-> walk.at + 1]]

SavedPos == [disk EXCEPT !.pos = IF disk.build # 0 THEN [build |-> dev.build, at |-> walk.at] ELSE @]

(* The checkpoint is written now and then, and when the link is lost.  /t   *)
(* is there once a build has been adopted.                                  *)
WalkOn ==
    /\ walk.asked
    /\ stale' = FALSE
    /\ IF world.link
       THEN /\ disk' \in {disk, SavedPos}
            /\ walk' = [at |-> walk.at + 1, asked |-> FALSE]
            /\ gone' = gone \cup (IF dev.tiles[walk.at] = NotCached THEN {walk.at} ELSE {})
       ELSE /\ disk' = SavedPos
            /\ walk' = [at |-> 0, asked |-> FALSE]
            /\ UNCHANGED gone
    /\ UNCHANGED <<world, date, dev>>

(* netsource_world_mark_done *)
WalkDone ==
    /\ walk.at = TILES + 1
    /\ disk' = [disk EXCEPT !.pos = NoPos, !.ok = disk.build # 0]
    /\ walk' = [at |-> 0, asked |-> FALSE]
    /\ UNCHANGED <<world, date, dev, gone, stale>>

(* The index of the cache is written. *)
Flush ==
    /\ disk' = [disk EXCEPT !.flushed = {t \in Tiles : dev.tiles[t] # NotCached}]
    /\ UNCHANGED <<world, date, dev, walk, gone, stale>>

(* Mutant: the walk goes on after the tile it stopped at. *)
ResumedAfter(pos, build) == IF pos.build = build /\ pos.at # 0 THEN pos.at + 1 ELSE 1

(* netsource_world_load_pos: a position within another build means nothing. *)
Resumed(pos, build) == IF pos.build = build /\ pos.at # 0 THEN pos.at ELSE 1

(* A restart: netsource_begin, and setup()'s start of the walk.             *)
NetRestart ==
    \E link \in BOOLEAN :
        /\ world' = [world EXCEPT !.link = link]
        /\ date' = [today |-> 0, set |-> FALSE]
        /\ dev' = [build |-> disk.build, adopted |-> disk.adopted, remote |-> 0, memo |-> NoMemo,
                   tiles |-> [t \in Tiles |-> IF t \in disk.flushed THEN dev.tiles[t] ELSE NotCached]]
        /\ gone' = gone \cup {t \in Tiles \ disk.flushed : dev.tiles[t] # NotCached}
        /\ walk' = [at |-> IF link /\ ~disk.ok THEN Resumed(disk.pos, disk.build) ELSE 0,
                    asked |-> FALSE]
        /\ stale' = FALSE
        /\ UNCHANGED disk

(* loop() asks for the date until it has it, discover_build only without it. *)
SetDate ==
    /\ ~date.set
    /\ date' \in {[today |-> world.day, set |-> TRUE]} \cup
                 (IF date.today = 0 THEN {[today |-> world.day, set |-> FALSE]} ELSE {})
    /\ UNCHANGED <<world, dev, disk, walk, gone, stale>>

Outside ==
    /\ \/ world' = [world EXCEPT !.link = ~@]
       \/ world.day < MAX_DAY /\ world' = [world EXCEPT !.day = @ + 1]
    /\ stale' = FALSE
    /\ UNCHANGED <<date, dev, disk, walk, gone>>

NetNext ==
    \/ Fetch \/ WalkPast \/ WalkAsk \/ WalkOn \/ WalkDone
    \/ Flush \/ NetRestart \/ SetDate \/ Outside

NetSpec == NetInit /\ [][NetNext]_netVars

-----------------------------------------------------------------------------
NetTypeOK ==
    /\ dev.build \in 0 .. MAX_DAY /\ dev.adopted \in 0 .. MAX_DAY
    /\ dev.remote \in {0, dev.build}
    /\ walk.at \in 0 .. TILES + 1
    /\ disk.pos.at \in {0} \cup (Tiles \ Covered) /\ disk.flushed \subseteq Tiles

(* "Offsets from one build mean nothing in another" (netsource.cpp:1292):   *)
(* every tile the cache has is what its build has for it - its bytes, or    *)
(* that there is none - whatever memo, builds, restarts and failed reads    *)
(* came between.                                                            *)
CacheOfBuild == \A t \in Tiles : dev.tiles[t] \in {NotCached, Holds(dev.build, t)}

(* Once the world floor is marked as stored the next boots skip the walk;   *)
(* so then every tile of it is in the cache or claimed by an archive on the *)
(* card, whatever restarts and lost links it was resumed after - but for    *)
(* tiles that failed with the link up, or that the cache has lost.          *)
FloorStored == disk.ok => \A t \in Tiles : t \in Covered \cup gone \/ dev.tiles[t] # NotCached

(* "True once the world floor has been stored" (netsource.h:106).           *)
FloorReady == disk.ok => \A t \in Tiles : t \in Covered \/ dev.tiles[t] # NotCached

(* "Age out on schedule even while working, so a device left running does   *)
(* not quietly serve month-old geometry forever" (netsource.cpp:1314-1315). *)
AgesOut == ~stale
=============================================================================
