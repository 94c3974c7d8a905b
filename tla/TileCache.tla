------------------------------ MODULE TileCache ------------------------------
(***************************************************************************)
(* The tile cache of tilecache.cpp and the part of netsource.cpp that       *)
(* opens, wipes and replaces it: an append-only blob of records on the      *)
(* card, an index of it in memory, and an index file written now and then.  *)
(* Power may be cut before any step.                                        *)
(*                                                                          *)
(* A file is a sequence of cells.  A record is a header cell followed by    *)
(* the cells of its payload; a tile the archive does not have is recorded   *)
(* with an empty payload.  What a power cut leaves of a file is what was    *)
(* there at the last flush, except that cells overwritten since may have    *)
(* reached the card.                                                        *)
(*                                                                          *)
(* "net" is whichever task holds netsource's own lock (render worker,       *)
(* prefetch, world download); "ui" is loop().  Each runs through a list of  *)
(* remaining steps.                                                         *)
(***************************************************************************)
EXTENDS Integers, FiniteSets, Sequences, SequencesExt

CONSTANTS
    Tiles,
    PayloadSize,     \* cells in the payload of each tile; 0: no such tile
    MAX_ENTRIES,     \* CACHE_MAX_ENTRIES_CFG
    FlushInterval,   \* puts between index flushes, by number of entries
    WIPE_BYTES,      \* netsource.cpp:1172, a blob longer than this ...
    WIPE_ENTRIES,    \* ... with fewer entries than this is discarded
    BUILDS,          \* number of daily builds that may be found
    MAX_CELLS,       \* bound: cells in the blobs together
    MAX_PENDING,     \* bound: puts since the index was last saved
    Mishaps          \* which mishaps may happen, see MishapKinds

(* What the properties have to know of the past:                            *)
(*   torn     an append has failed part way, leaving cells past g_blob_len; *)
(*   damaged  power was cut with such cells in a blob;                      *)
(*   stale    the index of a longer blob could not be replaced;             *)
(*   overlap  a flush has run beside an open or a close.                    *)
MishapKinds == {"torn", "damaged", "stale", "overlap"}

ASSUME CacheAssumption ==
    /\ IsFiniteSet(Tiles) /\ PayloadSize \in [Tiles -> Nat]
    /\ MAX_ENTRIES \in Nat \ {0}
    /\ \A n \in 1 .. MAX_ENTRIES : FlushInterval[n] \in Nat \ {0}
    /\ WIPE_BYTES \in Nat /\ WIPE_ENTRIES \in Nat
    /\ BUILDS \in Nat \ {0} /\ MAX_CELLS \in Nat /\ MAX_PENDING \in Nat
    /\ Mishaps \subseteq MishapKinds

VARIABLES
    card,     \* what the files hold, as a running program reads them
    synced,   \* the blobs as of their last flush or close
    cache,    \* the variables of tilecache.cpp
    build,    \* g_build of netsource.cpp; 0: none
    ready,    \* netsource_begin has returned
    todo,     \* the steps each task has still to do
    draft,    \* the index a task is writing out
    guard,    \* who holds g_clock
    mishaps   \* which of them have happened, for the properties

vars == <<card, synced, cache, build, ready, todo, draft, guard, mishaps>>

-----------------------------------------------------------------------------
Builds == 1 .. BUILDS
Tasks == {"net", "ui"}

Cell == [tile : Tiles, part : Nat]

Record(t) == [i \in 1 .. PayloadSize[t] + 1 |-> [tile |-> t, part |-> i - 1]]

(* An index: where the payload of each tile starts. *)
Index == UNION {[S -> 0 .. MAX_CELLS] : S \in SUBSET Tiles}
NoEntries == [t \in {} |-> 0]

(* An index file that is missing, empty or cut short: none is accepted. *)
NoIndex == [len |-> -1, entries |-> NoEntries]

NoDraft == [build |-> 0, idx |-> NoIndex]

(* Writing cells into a file at an offset, which may extend it. *)
Overwrite(file, at, cells) ==
    [i \in 1 .. IF at + Len(cells) > Len(file) THEN at + Len(cells) ELSE Len(file) |->
        IF i \in at + 1 .. at + Len(cells) THEN cells[i - at] ELSE file[i]]

(* Mutant: the array's capacity is not looked at. *)
IdxInsertUnbounded(index, t, off) ==
    [u \in DOMAIN index \cup {t} |-> IF u = t THEN off ELSE index[u]]

(* idx_insert: an entry that is there is replaced; a full index takes no    *)
(* other.                                                                   *)
IdxInsert(index, t, off) ==
    IF t \in DOMAIN index \/ Cardinality(DOMAIN index) < MAX_ENTRIES
    THEN [u \in DOMAIN index \cup {t} |-> IF u = t THEN off ELSE index[u]]
    ELSE index

(* A record begins after the first p cells, all of it within the file, and  *)
(* where the next one would begin.                                          *)
RecordEnd(file, p) == p + 1 + PayloadSize[file[p + 1].tile]
RecordAt(file, p) ==
    p < Len(file) /\ file[p + 1].part = 0 /\ RecordEnd(file, p) =< Len(file)

(* The records rescan walks over: from header to header, up to a cell that  *)
(* is not one or a payload that runs past the end.                          *)
RecordsFrom(file) ==
    LET records[p \in 0 .. Len(file)] ==
            IF RecordAt(file, p)
            THEN <<[tile |-> file[p + 1].tile, off |-> p + 1]>> \o records[RecordEnd(file, p)]
            ELSE <<>>
    IN  records
Walk(file) == RecordsFrom(file)[0]

(* rescan: the walk also ends when the index is full; of two records of a   *)
(* tile the later one is indexed.                                           *)
Rescan(file) ==
    LET walk == Walk(file)
        read == {i \in DOMAIN walk :
                    Cardinality({walk[j].tile : j \in 1 .. i - 1}) < MAX_ENTRIES}
    IN  [t \in {walk[i].tile : i \in read} |->
            walk[Max({i \in read : walk[i].tile = t})].off]

(* idx_load accepts an index file only if it was written for a blob of      *)
(* exactly this length.                                                     *)
IdxAccepted(idx, len) == idx.len = len

Recovered(file, idx) ==
    IF IdxAccepted(idx, Len(file)) THEN idx.entries ELSE Rescan(file)

(* What a power cut may leave of a blob. *)
AfterPowerCut(file, flushed) ==
    LET changed == {i \in 1 .. Len(flushed) : file[i] # flushed[i]}
    IN  {[i \in 1 .. Len(flushed) |-> IF i \in kept THEN file[i] ELSE flushed[i]] :
            kept \in SUBSET changed}

(* Mutant: the index is saved and the blob is not flushed before it. *)
FlushIndexOnly == <<"save", "release">>

(* The steps of tilecache_flush, under g_clock; of tilecache_close; and of  *)
(* dropping a build's files and opening the next.                           *)
FlushSteps == <<"sync", "save", "release">>
CloseSteps == IF cache.open THEN <<"save", "close">> ELSE <<>>
DropSteps == CloseSteps \o <<"dropBlob", "dropIdx">>

(* tilecache_close and tilecache_open take no lock. *)
Unguarded ==
    /\ guard # "net"
    /\ Range(todo["net"]) \cap {"open", "load", "close", "save", "write"} # {}

Happens(mishap, when) ==
    IF when THEN mishap \in Mishaps /\ mishaps' = mishaps \cup {mishap}
    ELSE UNCHANGED mishaps

(* Nothing on the card can be taken for what it is not. *)
Sound == {"damaged", "stale"} \cap mishaps = {}

Advance(who, steps) == todo' = [todo EXCEPT ![who] = steps \o Tail(todo[who])]
At(who, step) == todo[who] # <<>> /\ Head(todo[who]) = step

-----------------------------------------------------------------------------
ClosedCache == [open |-> FALSE, build |-> 0, len |-> 0, index |-> NoEntries, pending |-> 0]

Init ==
    /\ card = [blob |-> [b \in Builds |-> <<>>],
               idx |-> [b \in Builds |-> NoIndex],
               manifest |-> 0]
    /\ synced = [b \in Builds |-> <<>>]
    /\ cache = ClosedCache
    /\ build = 0
    /\ ready = FALSE
    /\ todo = [w \in Tasks |-> <<>>]
    /\ draft = [w \in Tasks |-> NoDraft]
    /\ guard = "none"
    /\ mishaps = {}

(* netsource_begin: the build the manifest names, if any. *)
Begin ==
    /\ ~ready /\ todo["net"] = <<>>
    /\ build' = card.manifest
    /\ todo' = [todo EXCEPT !["net"] =
                    IF card.manifest = 0 THEN <<"begun">>
                    ELSE <<"open", "load", "check", "begun">>]
    /\ UNCHANGED <<card, synced, cache, ready, draft, guard, mishaps>>

(* A cache damaged beyond use is wiped; the stats it is judged by are zero  *)
(* when it could not be opened.                                             *)
Check ==
    /\ At("net", "check")
    /\ IF /\ cache.open
          /\ cache.len > WIPE_BYTES
          /\ Cardinality(DOMAIN cache.index) < WIPE_ENTRIES
       THEN Advance("net", DropSteps \o <<"open", "load">>)
       ELSE Advance("net", <<>>)
    /\ UNCHANGED <<card, synced, cache, build, ready, draft, guard, mishaps>>

Begun ==
    /\ At("net", "begun")
    /\ ready' = TRUE
    /\ Advance("net", <<>>)
    /\ UNCHANGED <<card, synced, cache, build, draft, guard, mishaps>>

(* netsource_refresh, from a fetch that found no remote archive open or an  *)
(* adopted build that has aged: another build drops the old one's files;    *)
(* the same build opens the cache if it is not open.  Either way the        *)
(* manifest is saved.                                                       *)
Refresh(found) ==
    /\ ready /\ todo["net"] = <<>>
    /\ build' = found
    /\ todo' = [todo EXCEPT !["net"] =
                    (IF build \notin {0, found} THEN DropSteps ELSE <<>>)
                        \o (IF found = build /\ cache.open THEN <<>> ELSE <<"open", "load">>)
                        \o <<"manifest">>]
    /\ UNCHANGED <<card, synced, cache, ready, draft, guard>>
    /\ Happens("overlap", Unguarded' /\ todo["ui"] # <<>>)

(* manifest_save: not opened, written, or left empty. *)
ManifestSave ==
    /\ At("net", "manifest")
    /\ \E m \in {card.manifest, build, 0} : card' = [card EXCEPT !.manifest = m]
    /\ Advance("net", <<>>)
    /\ UNCHANGED <<synced, cache, build, ready, draft, guard, mishaps>>

(* Mutant: the blob is opened for writing, which empties it. *)
OpenTruncating ==
    /\ At("net", "open")
    /\ cache' = [cache EXCEPT !.open = TRUE, !.build = build, !.len = 0]
    /\ card' = [card EXCEPT !.blob[build] = <<>>]
    /\ synced' = [synced EXCEPT ![build] = <<>>]
    /\ Advance("net", <<>>)
    /\ UNCHANGED <<build, ready, draft, guard, mishaps>>

(* tilecache_open up to idx_load: the blob's length is asked of the file    *)
(* once, here. *)
OpenBlob ==
    /\ At("net", "open")
    /\ cache' = [cache EXCEPT !.open = TRUE, !.build = build,
                              !.len = Len(card.blob[build])]
    /\ Advance("net", <<>>)
    /\ UNCHANGED <<card, synced, build, ready, draft, guard, mishaps>>

(* No memory for the index, or the file cannot be opened. *)
OpenFails ==
    /\ At("net", "open")
    /\ cache' = [cache EXCEPT !.build = build]
    /\ todo' = [todo EXCEPT !["net"] = Tail(Tail(todo["net"]))]
    /\ UNCHANGED <<card, synced, build, ready, draft, guard, mishaps>>

(* idx_load, or else rescan, which saves what it found unless it found      *)
(* nothing in a blob that has something in it.                              *)
LoadIndex ==
    LET file == card.blob[cache.build]
        idx == card.idx[cache.build]
        found == Rescan(file)
    IN  /\ At("net", "load")
        /\ IF IdxAccepted(idx, cache.len)
           THEN /\ cache' = [cache EXCEPT !.index = idx.entries]
                /\ Advance("net", <<>>)
           ELSE /\ cache' = [cache EXCEPT !.index = found]
                /\ Advance("net", IF found = NoEntries /\ cache.len > 1
                                  THEN <<>> ELSE <<"save">>)
        /\ UNCHANGED <<card, synced, build, ready, draft, guard, mishaps>>

-----------------------------------------------------------------------------
(* Mutant: the file is asked, which tells what has been committed. *)
AppendCommitted == Len(synced[cache.build])

(* Where a record is appended: after the last whole one, by the program's   *)
(* own count. *)
AppendOffset == cache.len

CellsOfOthers ==
    Cardinality(UNION {{b} \X DOMAIN card.blob[b] : b \in Builds \ {cache.build}})

(* A tile already in the index is not appended again. *)
MayPut(t) ==
    /\ ready /\ todo["net"] = <<>> /\ guard = "none"
    /\ cache.open
    /\ t \notin DOMAIN cache.index
    /\ AppendOffset + Len(Record(t)) + CellsOfOthers =< MAX_CELLS
    /\ cache.pending < MAX_PENDING

Appended(cells) ==
    card' = [card EXCEPT !.blob[cache.build] = Overwrite(@, AppendOffset, cells)]

(* tilecache_put: append, index, and flush the index every so often.  A     *)
(* record that finds the index full stays in the blob.                      *)
Put(t) ==
    LET index == IdxInsert(cache.index, t, AppendOffset + 1)
        len == AppendOffset + Len(Record(t))
        due == cache.pending + 1 >= FlushInterval[Cardinality(DOMAIN index)]
    IN  /\ MayPut(t)
        /\ Appended(Record(t))
        /\ IF t \in DOMAIN index
           THEN /\ cache' = [cache EXCEPT !.len = len, !.index = index,
                                          !.pending = @ + 1]
                /\ guard' = IF due THEN "net" ELSE "none"
                /\ todo' = IF due THEN [todo EXCEPT !["net"] = FlushSteps] ELSE todo
           ELSE /\ cache' = [cache EXCEPT !.len = len]
                /\ UNCHANGED <<guard, todo>>
        /\ UNCHANGED <<synced, build, ready, draft, mishaps>>

(* The card is full or the bus fails: a prefix of the record is written and *)
(* g_blob_len stays where it was.                                           *)
PutFails(t) ==
    /\ MayPut(t)
    /\ Happens("torn", TRUE)
    /\ \E n \in 1 .. PayloadSize[t] : Appended(SubSeq(Record(t), 1, n))
    /\ UNCHANGED <<synced, cache, build, ready, todo, draft, guard>>

-----------------------------------------------------------------------------
(* tilecache_flush from loop(): nothing in flight for a while, or a touch   *)
(* of the power button.                                                     *)
Flush ==
    /\ ready /\ todo["ui"] = <<>> /\ guard = "none"
    /\ cache.open
    /\ guard' = "ui"
    /\ todo' = [todo EXCEPT !["ui"] = FlushSteps]
    /\ Happens("overlap", Unguarded)
    /\ UNCHANGED <<card, synced, cache, build, ready, draft>>

(* g_blob.flush(); a handle closed meanwhile has nothing to flush. *)
Sync(who) ==
    /\ At(who, "sync")
    /\ synced' = IF cache.open
                 THEN [synced EXCEPT ![cache.build] = card.blob[cache.build]]
                 ELSE synced
    /\ Advance(who, <<>>)
    /\ UNCHANGED <<card, cache, build, ready, draft, guard, mishaps>>

(* idx_save, opening: the old index file is truncated. *)
SaveBegins(who) ==
    /\ At(who, "save")
    /\ card' = [card EXCEPT !.idx[cache.build] = NoIndex]
    /\ draft' = [draft EXCEPT ![who] = [build |-> cache.build,
                    idx |-> [len |-> cache.len, entries |-> cache.index]]]
    /\ Advance(who, <<"write">>)
    /\ UNCHANGED <<synced, cache, build, ready, guard, mishaps>>

(* idx_save, when the file cannot be opened: the index of a longer blob may *)
(* be left for this one to grow into. *)
SaveFails(who) ==
    /\ At(who, "save")
    /\ Advance(who, <<>>)
    /\ Happens("stale", card.idx[cache.build].len > cache.len)
    /\ UNCHANGED <<card, synced, cache, build, ready, draft, guard>>

(* idx_save, writing: the writes are not checked.  If the index has been    *)
(* freed since, what is written is not an index.                            *)
SaveEnds(who) ==
    LET entries == draft[who].idx.entries
        written == IF entries \in {NoEntries, cache.index} THEN draft[who].idx ELSE NoIndex
    IN  /\ At(who, "write")
        /\ \E idx \in {written, NoIndex} :
               card' = [card EXCEPT !.idx[draft[who].build] = idx]
        /\ cache' = [cache EXCEPT !.pending = 0]
        /\ Advance(who, <<>>)
        /\ draft' = [draft EXCEPT ![who] = NoDraft]
        /\ UNCHANGED <<synced, build, ready, guard, mishaps>>

Release(who) ==
    /\ At(who, "release")
    /\ guard' = "none"
    /\ Advance(who, <<>>)
    /\ UNCHANGED <<card, synced, cache, build, ready, draft, mishaps>>

(* tilecache_close, after its idx_save: closing commits the blob. *)
CloseBlob ==
    /\ At("net", "close")
    /\ synced' = [synced EXCEPT ![cache.build] = card.blob[cache.build]]
    /\ cache' = [cache EXCEPT !.open = FALSE, !.index = NoEntries]
    /\ Advance("net", <<>>)
    /\ UNCHANGED <<card, build, ready, draft, guard, mishaps>>

(* The two removals of a wipe or of a change of build. *)
DropBlob ==
    /\ At("net", "dropBlob")
    /\ card' = [card EXCEPT !.blob[cache.build] = <<>>]
    /\ synced' = [synced EXCEPT ![cache.build] = <<>>]
    /\ Advance("net", <<>>)
    /\ UNCHANGED <<cache, build, ready, draft, guard, mishaps>>

DropIdx ==
    /\ At("net", "dropIdx")
    /\ card' = [card EXCEPT !.idx[cache.build] = NoIndex]
    /\ Advance("net", <<>>)
    /\ UNCHANGED <<synced, cache, build, ready, draft, guard, mishaps>>

(* The power goes, at any point; nothing is closed on the way down. *)
PowerCut ==
    /\ ready \/ todo["net"] # <<>>
    /\ \E image \in [Builds -> UNION {AfterPowerCut(card.blob[b], synced[b]) : b \in Builds}] :
          /\ \A b \in Builds : image[b] \in AfterPowerCut(card.blob[b], synced[b])
          /\ card' = [card EXCEPT !.blob = image]
          /\ synced' = image
    /\ cache' = ClosedCache
    /\ build' = 0
    /\ ready' = FALSE
    /\ todo' = [w \in Tasks |-> <<>>]
    /\ draft' = [w \in Tasks |-> NoDraft]
    /\ guard' = "none"
    /\ Happens("damaged", "torn" \in mishaps)

Next ==
    \/ Begin \/ Check \/ Begun
    \/ \E found \in Builds : found >= build /\ Refresh(found)
    \/ OpenBlob \/ OpenFails \/ LoadIndex
    \/ CloseBlob \/ DropBlob \/ DropIdx \/ ManifestSave
    \/ \E t \in Tiles : Put(t) \/ PutFails(t)
    \/ Flush
    \/ \E who \in Tasks :
           Sync(who) \/ SaveBegins(who) \/ SaveFails(who) \/ SaveEnds(who) \/ Release(who)
    \/ PowerCut

Spec == Init /\ [][Next]_vars

-----------------------------------------------------------------------------
Steps == {"open", "load", "check", "begun", "manifest", "close", "dropBlob",
          "dropIdx", "sync", "save", "write", "release"}
IdxFile == [len : {-1} \cup Nat, entries : Index]

(* The shapes of the variables, and what the code takes for granted of      *)
(* them: the index fits its array and the program's count of the blob never *)
(* passes the file's end (tilecache.cpp:106, 298).                          *)
TypeOK ==
    /\ card.blob \in [Builds -> Seq(Cell)]
    /\ card.idx \in [Builds -> IdxFile]
    /\ card.manifest \in 0 .. BUILDS
    /\ synced \in [Builds -> Seq(Cell)]
    /\ cache \in [open : BOOLEAN, build : 0 .. BUILDS, len : Nat,
                   index : Index, pending : Nat]
    /\ Cardinality(DOMAIN cache.index) =< MAX_ENTRIES
    /\ cache.open => cache.len =< Len(card.blob[cache.build])
    /\ build \in 0 .. BUILDS
    /\ ready \in BOOLEAN
    /\ todo \in [Tasks -> Seq(Steps)]
    /\ draft \in [Tasks -> [build : 0 .. BUILDS, idx : IdxFile]]
    /\ guard \in Tasks \cup {"none"}
    /\ mishaps \subseteq Mishaps

(* Tiles that an open would find whatever a power cut now leaves. *)
Survivors(b) ==
    {t \in Tiles : \A file \in AfterPowerCut(card.blob[b], synced[b]) :
                       t \in DOMAIN Recovered(file, card.idx[b])}

HoldsPayload(file, off, t) ==
    /\ off + PayloadSize[t] =< Len(file)
    /\ \A i \in 1 .. PayloadSize[t] : file[off + i] = [tile |-> t, part |-> i]

(* A hit of tilecache_get is the tile that was asked for: it seeks to the   *)
(* indexed offset and checks nothing there (tilecache.cpp:273-274).  Power  *)
(* cuts, failed index saves and changes of build do not break this by       *)
(* themselves, nor does an append cut short until power is cut after it.    *)
GetFaithful ==
    Sound /\ cache.open =>
        \A t \in DOMAIN cache.index :
            HoldsPayload(card.blob[cache.build], cache.index[t], t)

(* tilecache_pending: "Zero means a power cut right now would cost nothing  *)
(* at all" (tilecache.h:62-63).                                             *)
ZeroPendingIsSafe ==
    cache.open /\ cache.pending = 0 =>
        DOMAIN cache.index \subseteq Survivors(cache.build)

(* The same promise while the card is sound, no flush has run beside an     *)
(* open or close, and none is under way: tilecache_close saves the index    *)
(* before it commits the blob.                                              *)
ZeroPendingIsSafeIfSound ==
    Sound /\ "overlap" \notin mishaps /\ ~Unguarded => ZeroPendingIsSafe

(* What has reached the card stays recoverable: no step, and in particular  *)
(* no rewriting of the index file, costs a tile that a power cut before it  *)
(* would have left, except dropping the blob (tilecache.cpp:130-131).       *)
SurvivorsKept ==
    [][mishaps' = {} /\ ~At("net", "dropBlob") =>
           \A b \in Builds : Survivors(b) \subseteq Survivors(b)']_vars

(* "Three tasks reach this through netsource, so both need serialising"     *)
(* (tilecache.cpp:63-66): the index a flush is writing out is not freed or  *)
(* replaced under it.                                                       *)
IndexHeldWhileWritten ==
    At("ui", "write") /\ draft["ui"].idx.entries # NoEntries =>
        cache.open /\ cache.index = draft["ui"].idx.entries
=============================================================================
