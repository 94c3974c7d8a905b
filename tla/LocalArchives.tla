--------------------------- MODULE LocalArchives ---------------------------
(***************************************************************************)
(* The archives on the card and the directories kept in memory for them:    *)
(* load_dir and pmt_find of pmtiles.c, try_open, local_try and              *)
(* leaf_cache_fit of netsource.cpp.                                         *)
(*                                                                          *)
(* All archives read into one buffer, l_dir, and share the slots of the     *)
(* leaf cache; what the buffer or a slot holds is known by its offset       *)
(* alone, and two files have directories at the same offsets.  The          *)
(* directory at offset 0 is the root; tile t is in the leaf at offset t,    *)
(* which in a deep archive hangs under a directory at offset MID.  g_lock   *)
(* makes a lookup one critical section; any read or inflation may fail.     *)
(***************************************************************************)
EXTENDS Integers, Sequences, FiniteSets, SequencesExt

CONSTANTS
    ARCHIVES,       \* the files at the card's root are 1 .. ARCHIVES
    LTILES,         \* the tiles are 1 .. LTILES
    Deep,           \* archives with a level between the root and the leaves
    Roomy,          \* archives whose root fits its cache
    Cut,            \* archives the card has only a part of
    SLOTS           \* LOCAL_LEAF_SLOTS

ASSUME ArchivesAssumption ==
    /\ {ARCHIVES, LTILES, SLOTS} \subseteq Nat \ {0}
    /\ Deep \cup Roomy \cup Cut \subseteq 1 .. ARCHIVES

VARIABLES
    local,      \* g_locals[], in order, and the files not yet looked at
    dirBuf,     \* what l_dir holds
    claim,      \* what each archive takes l_dir to hold: dir_off, 0: dir_len is 0
    rooted,     \* archives whose root_cache is filled
    slots,      \* g_leaf_slots
    recent,     \* the slots, the one whose `used` is least first
    owner,      \* g_dir_owner, which also has the slots; 0: nobody yet
    look        \* the lookup under way, and the directory it was last given

loVars == <<local, dirBuf, claim, rooted, slots, recent, owner, look>>

-----------------------------------------------------------------------------
Archives == 1 .. ARCHIVES
ROOT == 0
MID == LTILES + 1
NoDir == [of |-> 0, at |-> 0]
Dir(a, off) == [of |-> a, at |-> off]

(* Decompressed sizes: the last leaf of an archive is larger.               *)
Size(off) == IF off = LTILES THEN 2 ELSE 1

(* The directories between the header and a tile's entry. *)
Path(a, t) == IF a \in Deep THEN <<ROOT, MID, t>> ELSE <<ROOT, t>>

EmptySlot == [cap |-> 0, full |-> FALSE, off |-> 0, dir |-> NoDir]
NoLook == [tile |-> 0, next |-> 0, todo |-> <<>>, given |-> NoDir, asked |-> NoDir]

LoInit ==
    /\ local = [open |-> <<>>, left |-> Archives]
    /\ dirBuf = NoDir
    /\ claim = [a \in Archives |-> 0]
    /\ rooted = {}
    /\ slots = [s \in 1 .. SLOTS |-> EmptySlot]
    /\ recent = [s \in 1 .. SLOTS |-> s]
    /\ owner = 0
    /\ look = NoLook

-----------------------------------------------------------------------------
(* try_open: a file shorter than its header says is ignored; the root is    *)
(* read at once, through l_dir, and kept if that works and it fits.         *)
OpenArchive(a) ==
    /\ a \in local.left
    /\ local' = [open |-> IF a \in Cut THEN local.open ELSE Append(local.open, a),
                 left |-> local.left \ {a}]
    /\ IF a \in Cut THEN UNCHANGED <<dirBuf, rooted>>
       ELSE \/ dirBuf' = Dir(a, ROOT) /\ rooted' = rooted \cup ({a} \cap Roomy)
            \/ dirBuf' = NoDir /\ UNCHANGED rooted
            \/ UNCHANGED <<dirBuf, rooted>>
    /\ UNCHANGED <<claim, slots, recent, owner, look>>

Ready == local.left = {} /\ look.tile = 0

(* local_try begins. *)
TryLocal(t) ==
    /\ Ready /\ local.open # <<>>
    /\ look' = [NoLook EXCEPT !.tile = t, !.next = 1]
    /\ UNCHANGED <<local, dirBuf, claim, rooted, slots, recent, owner>>

(* Mutant: the slots change hands with what is in them. *)
HandedOverFull(o) ==
    /\ claim' = IF o = 0 THEN claim ELSE [claim EXCEPT ![o] = 0]
    /\ UNCHANGED slots

(* The archives share one buffer and one set of slots: both are emptied     *)
(* when another archive than the owner, o, is asked.                        *)
HandedOver(o) ==
    /\ claim' = IF o = 0 THEN claim ELSE [claim EXCEPT ![o] = 0]
    /\ slots' = [s \in 1 .. SLOTS |-> [slots[s] EXCEPT !.full = FALSE]]

BetweenArchives == look.tile # 0 /\ look.todo = <<>> /\ look.asked = NoDir

(* The next archive, unless its header does not claim the tile. *)
AskArchive ==
    /\ BetweenArchives /\ look.next =< Len(local.open)
    /\ LET a == local.open[look.next] IN
       \/ /\ look' = [look EXCEPT !.next = @ + 1]
          /\ UNCHANGED <<claim, slots, owner>>
       \/ /\ IF a = owner THEN UNCHANGED <<claim, slots>> ELSE HandedOver(owner)
          /\ owner' = a
          /\ look' = [look EXCEPT !.todo = Path(a, look.tile)]
    /\ UNCHANGED <<local, dirBuf, rooted, recent>>

NotLocal ==
    /\ BetweenArchives /\ look.next > Len(local.open)
    /\ look' = NoLook
    /\ UNCHANGED <<local, dirBuf, claim, rooted, slots, recent, owner>>

-----------------------------------------------------------------------------
(* load_dir of the directory at off of archive a, the owner. *)

Asked == Head(look.todo)
Loading == look.todo # <<>>
Used(s) ==
    LET i == CHOOSE j \in 1 .. SLOTS : recent[j] = s
    IN  recent' = [j \in 1 .. SLOTS |-> IF j < i THEN recent[j]
                                        ELSE IF j < SLOTS THEN recent[j + 1] ELSE s]
Given(dir) ==
    look' = [look EXCEPT !.given = dir, !.asked = Dir(owner, Asked), !.todo = Tail(@)]

FromRootCache == Loading /\ Asked = ROOT /\ owner \in rooted
FromBuffer == Loading /\ Asked # ROOT /\ claim[owner] = Asked
(* There is at most one: what a slot holds is not read again.               *)
HoldingSlots == {s \in 1 .. SLOTS : slots[s].full /\ slots[s].off = Asked}

LoadFromMemory ==
    /\ \/ FromRootCache /\ Given(Dir(owner, ROOT)) /\ UNCHANGED recent
       \/ FromBuffer /\ Given(dirBuf) /\ UNCHANGED recent
       \/ /\ Loading /\ Asked # ROOT /\ ~FromBuffer
          /\ \E s \in HoldingSlots : Given(slots[s].dir) /\ Used(s)
    /\ UNCHANGED <<local, dirBuf, claim, rooted, slots, owner>>

NotInMemory == Loading /\ ~FromRootCache /\ ~FromBuffer /\ (Asked = ROOT \/ HoldingSlots = {})

NextArchive == [NoLook EXCEPT !.tile = look.tile, !.next = look.next + 1]

(* The read or the inflation fails: the archive has no tile. *)
LoadFails ==
    /\ NotInMemory
    /\ claim' = [claim EXCEPT ![owner] = 0]
    /\ dirBuf' \in {dirBuf, NoDir}
    /\ look' = NextArchive
    /\ UNCHANGED <<local, rooted, slots, recent, owner>>

(* leaf_victim: the first empty slot that is large enough, else of those    *)
(* large enough the one least recently used.                                *)
Large(size) == {s \in 1 .. SLOTS : slots[s].cap >= size}
Victim(s, size) ==
    LET empty == {u \in Large(size) : ~slots[u].full}
    IN  IF empty # {} THEN s \in empty /\ \A u \in empty : s =< u
        ELSE \E i \in 1 .. SLOTS :
                recent[i] = s /\ \A j \in 1 .. i - 1 : recent[j] \notin Large(size)

LoadRoot ==
    /\ NotInMemory /\ Asked = ROOT
    /\ dirBuf' = Dir(owner, ROOT)
    /\ claim' = [claim EXCEPT ![owner] = 0]
    /\ rooted' = rooted \cup ({owner} \cap Roomy)
    /\ Given(Dir(owner, ROOT))
    /\ UNCHANGED <<local, slots, recent, owner>>

LoadLeaf ==
    /\ NotInMemory /\ Asked # ROOT
    /\ dirBuf' = Dir(owner, Asked)
    /\ claim' = [claim EXCEPT ![owner] = Asked]
    /\ Given(Dir(owner, Asked))
    /\ IF Large(Size(Asked)) = {} THEN UNCHANGED <<slots, recent>>
       ELSE \E s \in Large(Size(Asked)) :
            /\ Victim(s, Size(Asked))
            /\ slots' = [slots EXCEPT ![s] = [@ EXCEPT !.full = TRUE, !.off = Asked,
                                                       !.dir = Dir(owner, Asked)]]
            /\ Used(s)
    /\ UNCHANGED <<local, rooted, owner>>

-----------------------------------------------------------------------------
(* leaf_cache_fit after a hit: the slots too small for the leaf in l_dir    *)
(* are replaced, up to the first that cannot be allocated.                  *)
Fitted(size, got) ==
    [s \in 1 .. SLOTS |->
        IF slots[s].cap >= size \/ s > got + 1 THEN slots[s]
        ELSE [EmptySlot EXCEPT !.cap = IF s =< got THEN size + size \div 2 ELSE 0]]

(* The tile is found and its bytes are read. *)
TileRead ==
    /\ look.todo = <<>> /\ look.asked # NoDir
    /\ look' = NoLook
    /\ IF claim[owner] = 0 THEN UNCHANGED slots
       ELSE \E got \in 0 .. SLOTS : slots' = Fitted(Size(claim[owner]), got)
    /\ UNCHANGED <<local, dirBuf, claim, rooted, recent, owner>>

(* Some directory on the way has no entry for it, or its bytes cannot be    *)
(* read: the next archive.                                                  *)
NotHere ==
    /\ look.asked # NoDir
    /\ look' = NextArchive
    /\ UNCHANGED <<local, dirBuf, claim, rooted, slots, recent, owner>>

LoNext ==
    \/ \E a \in Archives : OpenArchive(a)
    \/ \E t \in 1 .. LTILES : TryLocal(t)
    \/ AskArchive \/ NotLocal
    \/ LoadFromMemory \/ LoadFails \/ LoadRoot \/ LoadLeaf \/ TileRead \/ NotHere

LoSpec == LoInit /\ [][LoNext]_loVars

-----------------------------------------------------------------------------
LoTypeOK ==
    /\ claim \in [Archives -> 0 .. MID] /\ owner \in 0 .. ARCHIVES
    /\ rooted \subseteq Archives
    /\ ToSet(recent) = 1 .. SLOTS /\ look.next \in 0 .. ARCHIVES + 1

(* "the next lookup could match an offset from a different file and read    *)
(* another archive's directory as its own" (netsource.cpp:1343-1344): the   *)
(* directory a lookup is given is the one it asked its own archive for,     *)
(* wherever it came from and whatever failed before.                        *)
LocalFaithful == look.given = look.asked
=============================================================================
