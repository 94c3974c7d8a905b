----------------------------- MODULE TileIndex -----------------------------
(***************************************************************************)
(* Finding a tile in one directory of an archive: pmt_zxy_to_tileid,        *)
(* pmt_tileid_to_zxy and search_dir of pmtiles.c.                           *)
(*                                                                          *)
(* A directory is four runs of numbers: how much the tile ids grow, run     *)
(* lengths (0: the entry is a leaf directory), lengths, and offsets (0: the *)
(* entry follows the one before it).  The archive's writer, which is not    *)
(* part of this repository, is AddEntry.                                    *)
(***************************************************************************)
EXTENDS Integers, Sequences

CONSTANTS
    MAX_Z,          \* the zooms are 0 .. MAX_Z
    WIDTH,          \* the width of an integer, 64 in the code
    MAX_ENTRIES,    \* bound on a directory
    GAPS, RUNS      \* the ids between two entries, and how many an entry covers

ASSUME IndexAssumption ==
    /\ MAX_Z \in Nat /\ WIDTH \in Nat /\ WIDTH > MAX_Z
    /\ MAX_ENTRIES \in Nat /\ GAPS \subseteq Nat /\ RUNS \subseteq Nat

VARIABLES
    entries,    \* not in the code: what the writer put in the directory
    dir,        \* the directory
    found       \* the tile last looked for, and what search_dir found

ixVars == <<entries, dir, found>>

-----------------------------------------------------------------------------
TilesAt(z) == {[z |-> z, x |-> x, y |-> y] : x, y \in 0 .. 2 ^ z - 1}
AllTiles == UNION {TilesAt(z) : z \in 0 .. MAX_Z}

(* The tiles of the zooms below z. *)
Below(z) == (4 ^ z - 1) \div 3

Wrap(n) == n % 2 ^ WIDTH
Bit(n, s) == (n \div s) % 2

(* The quadrant the curve goes through the other way round.  The            *)
(* subtraction wraps: only the bits below s are looked at afterwards.       *)
Rotated(q, s, rx, ry) ==
    CASE ry = 1 -> q
      [] ry = 0 /\ rx = 0 -> [q EXCEPT !.x = q.y, !.y = q.x]
      [] ry = 0 /\ rx = 1 -> [q EXCEPT !.x = Wrap(s - 1 - q.y), !.y = Wrap(s - 1 - q.x)]

(* pmt_zxy_to_tileid: from the largest square to the smallest. *)
TileId(t) ==
    LET start == [x |-> t.x, y |-> t.y, d |-> 0]
        Into(q, s) ==
            LET rx == Bit(q.x, s)
                ry == Bit(q.y, s)
                step == [q EXCEPT !.d = @ + s * s * (IF rx = 1 THEN 3 - ry ELSE ry)]
            IN  Rotated(step, s, rx, ry)
        walk[k \in 0 .. t.z] == IF k = 0 THEN start ELSE Into(walk[k - 1], 2 ^ (t.z - k))
    IN  Below(t.z) + walk[t.z].d

(* pmt_tileid_to_zxy: from the smallest square to the largest. *)
TileOf(id) ==
    LET z == CHOOSE k \in 0 .. MAX_Z : Below(k) =< id /\ id < Below(k + 1)
        Out(q, s) ==
            LET rx == (q.t \div 2) % 2
                ry == (q.t + rx) % 2
                turned == Rotated(q, s, rx, ry)
            IN  [x |-> Wrap(turned.x + s * rx), y |-> Wrap(turned.y + s * ry), t |-> q.t \div 4]
        walk[k \in 0 .. z] ==
            IF k = 0 THEN [x |-> 0, y |-> 0, t |-> id - Below(z)] ELSE Out(walk[k - 1], 2 ^ (k - 1))
    IN  [z |-> z, x |-> walk[z].x, y |-> walk[z].y]

(* Every tile has its place on the curve, and only it has that place: what  *)
(* is asked of zxy_to_tileid and tileid_to_zxy.                             *)
CurveInverse ==
    /\ Below(MAX_Z + 1) \in Nat
    /\ \A t \in AllTiles :
          /\ TileId(t) \in 0 .. Below(MAX_Z + 1) - 1
          /\ \A id \in 0 .. Below(MAX_Z + 1) - 1 : TileOf(id) = t <=> id = TileId(t)

-----------------------------------------------------------------------------
Nothing == [offset |-> 0, length |-> 0, run |-> 0, found |-> FALSE]
NoTile == [z |-> MAX_Z + 1, x |-> 0, y |-> 0]

Ids(d) == LET id[i \in 0 .. Len(d)] == IF i = 0 THEN 0 ELSE id[i - 1] + d[i].delta IN id

(* Mutant: an entry that follows another starts where that one does. *)
OffsetsTogether(d) ==
    LET off[i \in 0 .. Len(d)] ==
            IF i = 0 THEN 0
            ELSE IF d[i].offset # 0 THEN d[i].offset - 1
            ELSE off[i - 1]
    IN  off

(* Sections 3 and 4 of a directory, walked in lockstep from the first entry.*)
Offsets(d) ==
    LET off[i \in 0 .. Len(d)] ==
            IF i = 0 THEN 0
            ELSE IF d[i].offset # 0 THEN d[i].offset - 1
            ELSE off[i - 1] + (IF i = 1 THEN 0 ELSE d[i - 1].length)
    IN  off

(* search_dir: the last entry that does not begin after the target, unless  *)
(* it is a run that ends before it.                                         *)
SearchDir(d, target) ==
    LET begun == {i \in 1 .. Len(d) : Ids(d)[i] =< target}
        best == CHOOSE i \in begun : \A j \in begun : j =< i
    IN  IF begun = {} \/ (d[best].run # 0 /\ target >= Ids(d)[best] + d[best].run)
        THEN Nothing
        ELSE [offset |-> Offsets(d)[best], length |-> d[best].length, run |-> d[best].run,
              found |-> TRUE]

-----------------------------------------------------------------------------
IxInit == entries = <<>> /\ dir = <<>> /\ found = [tile |-> NoTile, hit |-> Nothing]

After(e) == e.id + (IF e.run = 0 THEN 1 ELSE e.run)

(* The writer adds an entry, with its bytes where those of the last end, or *)
(* elsewhere.                                                               *)
AddEntry(gap, run, follows) ==
    LET n == Len(entries)
        last == IF n = 0 THEN [id |-> 0, run |-> 0, offset |-> 0, length |-> 0] ELSE entries[n]
        id == gap + (IF n = 0 THEN 0 ELSE After(last))
        offset == IF follows THEN last.offset + last.length ELSE 7 + n
    IN  /\ n < MAX_ENTRIES
        /\ id + run =< Below(MAX_Z + 1)
        /\ entries' = Append(entries, [id |-> id, run |-> run, offset |-> offset, length |-> n + 1])
        /\ dir' = Append(dir, [delta |-> id - last.id, run |-> run, length |-> n + 1,
                               offset |-> IF follows THEN 0 ELSE offset + 1])
        /\ UNCHANGED found

Look(t) ==
    /\ found.tile = NoTile
    /\ found' = [tile |-> t, hit |-> SearchDir(dir, TileId(t))]
    /\ UNCHANGED <<entries, dir>>

Add ==
    /\ found.tile = NoTile
    /\ \E gap \in GAPS, run \in RUNS, follows \in BOOLEAN : AddEntry(gap, run, follows)

IxNext == Add \/ \E t \in AllTiles : Look(t)

IxSpec == IxInit /\ [][IxNext]_ixVars

-----------------------------------------------------------------------------
IxTypeOK == Len(dir) =< MAX_ENTRIES /\ found.tile \in AllTiles \cup {NoTile}

(* The entries that are for a tile: those whose run goes through it on the  *)
(* curve, and the leaf that begins last of those up to it.                  *)
Passed(e, t) == \E id \in e.id .. Below(MAX_Z + 1) - 1 : TileOf(id) = t
ForTile(t) ==
    {i \in 1 .. Len(entries) :
        IF entries[i].run # 0
        THEN \E id \in entries[i].id .. entries[i].id + entries[i].run - 1 : TileOf(id) = t
        ELSE /\ Passed(entries[i], t)
             /\ \A j \in i + 1 .. Len(entries) : ~Passed(entries[j], t)}

(* What is found for a tile is what the writer put in the archive for it,   *)
(* at the offset it is at, and a tile the archive does not have is not      *)
(* found: the curve of zxy_to_tileid and that of tileid_to_zxy are the same *)
(* one, and search_dir reads runs, leaves and contiguous offsets right.     *)
FoundIsTheTiles ==
    found.tile # NoTile =>
        IF ForTile(found.tile) = {} THEN ~found.hit.found
        ELSE \E i \in ForTile(found.tile) :
                /\ found.hit.found
                /\ found.hit.offset = entries[i].offset
                /\ found.hit.length = entries[i].length
                /\ found.hit.run = entries[i].run
=============================================================================
