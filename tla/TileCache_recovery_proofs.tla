---------------------- MODULE TileCache_recovery_proofs ----------------------
(***************************************************************************)
(* What the tile cache recovers after a power cut, for any set of tiles and *)
(* any sizes.                                                               *)
(***************************************************************************)
EXTENDS TileCache_proofs

-----------------------------------------------------------------------------
(***************************************************************************)
(* What rescan finds of the first cells of a file                           *)
(***************************************************************************)
Prefix(file, n) == [i \in 1 .. n |-> file[i]]
Found(file, n) == DOMAIN Rescan(Prefix(file, n))
Recs == [tile : Tiles, off : Nat]

LEMMA PrefixIs ==
    ASSUME NEW file \in Files, NEW n \in Nat, n =< Len(file)
    PROVE  /\ Prefix(file, n) \in Files /\ Len(Prefix(file, n)) = n
           /\ \A i \in 1 .. n : Prefix(file, n)[i] = file[i]
<1> DEFINE f == Prefix(file, n)
<1>1. \A i \in 1 .. n : i \in 1 .. Len(file)
    BY FileIs
<1>2. \A i \in 1 .. n : file[i] \in Cell
    BY <1>1, FileIs
<1>3. f = [i \in 1 .. n |-> file[i]]
    BY DEF Prefix
<1> HIDE DEF f
<1>4. DOMAIN f = 1 .. n /\ f = [i \in 1 .. n |-> f[i]] /\ \A i \in 1 .. n : f[i] \in Cell
    BY <1>2, <1>3
<1>5. f \in Files /\ Len(f) = n
    BY <1>4, FileFrom
<1>6. \A i \in 1 .. n : f[i] = file[i]
    BY <1>3
<1> QED BY <1>5, <1>6 DEF f

LEMMA PrefixAll == ASSUME NEW file \in Files PROVE Prefix(file, Len(file)) = file
<1>1. DOMAIN file = 1 .. Len(file) /\ file = [i \in DOMAIN file |-> file[i]]
    BY FileIs DEF Files
<1> QED BY <1>1 DEF Prefix

(* Two files that begin the same.                                           *)
LEMMA PrefixSame ==
    ASSUME NEW f, NEW g, NEW n, \A i \in 1 .. n : f[i] = g[i]
    PROVE  Prefix(f, n) = Prefix(g, n)
BY DEF Prefix

LEMMA FormedPrefix ==
    ASSUME NEW file \in Files, NEW n \in Nat, Formed(file, n)
    PROVE  Formed(Prefix(file, n), n)
<1>1. n =< Len(file)
    BY DEF Formed
<1> DEFINE h == Prefix(file, n)
<1>2. h \in Files /\ Len(h) = n /\ \A i \in 1 .. n : h[i] = file[i]
    BY <1>1, PrefixIs
<1> HIDE DEF h
<1>3. Formed(h, n)
    BY <1>2, FormedSame
<1> QED BY <1>3 DEF h

LEMMA RecordsTyped ==
    ASSUME NEW file \in Files PROVE \A q \in 0 .. Len(file) : RecordsFrom(file)[q] \in Seq(Recs)
<1>1. \A q \in 0 .. Len(file) : RecordAt(file, q) =>
          RecordOf(file, q) \in Recs /\ RecordEnd(file, q) \in 0 .. Len(file)
  <2> SUFFICES ASSUME NEW q \in 0 .. Len(file), RecordAt(file, q)
               PROVE RecordOf(file, q) \in Recs /\ RecordEnd(file, q) \in 0 .. Len(file)
      OBVIOUS
  <2>1. /\ q \in Nat /\ file[q + 1].tile \in Tiles
        /\ RecordEnd(file, q) \in q + 1 .. Len(file)
    BY RecordAtIs
  <2> QED BY <2>1, FileIs DEF RecordOf, Recs
<1> QED BY <1>1, RecordsAreIn

(* The walk over a file that begins with whole records finds those first.   *)
LEMMA WalkSplit ==
    ASSUME NEW h \in Files, Formed(h, Len(h)), NEW g \in Files, Len(h) =< Len(g),
           \A i \in 1 .. Len(h) : g[i] = h[i]
    PROVE  /\ Walk(h) \in Seq(Recs) /\ RecordsFrom(g)[Len(h)] \in Seq(Recs)
           /\ Walk(g) = Walk(h) \o RecordsFrom(g)[Len(h)]
<1> DEFINE n == Len(h)
           rh == RecordsFrom(h)
           rg == RecordsFrom(g)
<1>0. n \in Nat /\ Len(g) \in Nat /\ n =< Len(g) /\ n =< Len(h)
    BY FileIs
<1>1. PICK ends \in SUBSET (0 .. n) : FormedBy(h, n, ends)
    BY DEF Formed
<1>2. 0 \in ends /\ n \in ends
    BY <1>1 DEF FormedBy
<1>3. \A p \in ends : p \in 0 .. n /\ p \in Int /\ p \in 0 .. Len(h) /\ p \in 0 .. Len(g)
    BY <1>0
<1>4. \A q \in 0 .. Len(h) : rh[q] \in Seq(Recs)
    BY RecordsTyped
<1>5. \A q \in 0 .. Len(g) : rg[q] \in Seq(Recs)
    BY RecordsTyped
<1>6. ASSUME NEW p \in ends
      PROVE  /\ rh[p] = IF RecordAt(h, p) THEN <<RecordOf(h, p)>> \o rh[RecordEnd(h, p)] ELSE <<>>
             /\ rg[p] = IF RecordAt(g, p) THEN <<RecordOf(g, p)>> \o rg[RecordEnd(g, p)] ELSE <<>>
    BY <1>3, RecordsDef
<1>7. ASSUME NEW p \in ends, p < n
      PROVE  /\ RecordAt(h, p) /\ RecordAt(g, p) /\ RecordEnd(g, p) = RecordEnd(h, p)
             /\ RecordOf(g, p) = RecordOf(h, p) /\ RecordOf(h, p) \in Recs
             /\ RecordEnd(h, p) \in ends /\ RecordEnd(h, p) >= p + 1
  <2>1. /\ p \in Nat /\ p + 1 \in 1 .. n /\ RecordEnd(h, p) = p + 1 + PayloadSize[h[p + 1].tile]
        /\ PayloadSize[h[p + 1].tile] \in Nat /\ h[p + 1].tile \in Tiles
        /\ RecordEnd(h, p) \in 0 .. n /\ RecordAt(h, p)
    BY <1>0, <1>1, <1>7, FormedPlace
  <2>2. g[p + 1] = h[p + 1]
    BY <2>1
  <2>3. RecordEnd(g, p) = RecordEnd(h, p) /\ RecordOf(g, p) = RecordOf(h, p)
    BY <2>2 DEF RecordEnd, RecordOf
  <2>4. RecordAt(g, p)
    BY <2>1, <2>2, <2>3, <1>0 DEF RecordAt
  <2>5. RecordEnd(h, p) \in ends
    BY <1>1, <1>7 DEF FormedBy
  <2>6. RecordOf(h, p) \in Recs
    BY <2>1 DEF RecordOf, Recs
  <2> QED BY <2>1, <2>3, <2>4, <2>5, <2>6
<1>8. rh[n] = <<>>
  <2>1. ~RecordAt(h, n)
    BY <1>0 DEF RecordAt
  <2> QED BY <2>1, <1>2, <1>6
<1> DEFINE S == {k \in 0 .. n : \A p \in ends : p >= n - k => rg[p] = rh[p] \o rg[n]}
<1> HIDE DEF rh, rg
<1>9. 0 \in S
  <2>1. ASSUME NEW p \in ends, p >= n - 0 PROVE rg[p] = rh[p] \o rg[n]
    <3>1. p = n
      BY <2>1, <1>0, <1>3
    <3> DEFINE c == rg[n]
    <3>2. c \in Seq(Recs)
      BY <1>2, <1>3, <1>5
    <3> HIDE DEF c
    <3>3. <<>> \o c = c
      BY <3>2, ConcatEmptySeq
    <3> QED BY <3>1, <3>3, <1>8 DEF c
  <2>2. 0 \in 0 .. n
    BY <1>0
  <2> QED BY <2>1, <2>2
<1>10. ASSUME NEW k \in S, k < n PROVE k + 1 \in S
  <2>1. ASSUME NEW p \in ends, p >= n - (k + 1) PROVE rg[p] = rh[p] \o rg[n]
    <3>1. CASE p = n
      <4>1. k \in Int /\ k >= 0
        BY <1>0
      <4>2. p >= n - k
        BY <3>1, <4>1, <1>0
      <4> QED BY <4>2
    <3>2. CASE p # n
      <4> DEFINE e == RecordEnd(h, p)
                 r == RecordOf(h, p)
      <4>1. p < n
        BY <3>2, <1>3
      <4>2. /\ RecordAt(h, p) /\ RecordAt(g, p) /\ RecordEnd(g, p) = e /\ RecordOf(g, p) = r
            /\ r \in Recs /\ e \in ends /\ e >= p + 1
        BY <4>1, <1>7
      <4> HIDE DEF e, r
      <4>3. e \in Int /\ p \in Int /\ k \in Int
        BY <4>2, <1>3
      <4>4. e >= n - k
        BY <4>2, <4>3, <2>1, <1>0
      <4>5. rg[e] = rh[e] \o rg[n]
        BY <4>2, <4>4
      <4>6. rh[p] = <<r>> \o rh[e] /\ rg[p] = <<r>> \o rg[e]
        BY <4>2, <1>6 DEF e, r
      <4>7. rh[e] \in Seq(Recs) /\ rg[n] \in Seq(Recs) /\ <<r>> \in Seq(Recs)
        BY <4>2, <1>2, <1>3, <1>4, <1>5
      <4>8. (<<r>> \o rh[e]) \o rg[n] = <<r>> \o (rh[e] \o rg[n])
        <5> DEFINE a == <<r>>
                   b == rh[e]
                   c == rg[n]
        <5>1. a \in Seq(Recs) /\ b \in Seq(Recs) /\ c \in Seq(Recs)
          BY <4>7
        <5> HIDE DEF a, b, c
        <5>2. (a \o b) \o c = a \o (b \o c)
          BY <5>1, ConcatAssociative
        <5> QED BY <5>2 DEF a, b, c
      <4> QED BY <4>5, <4>6, <4>8
    <3> QED BY <3>1, <3>2
  <2>2. k + 1 \in 0 .. n
    BY <1>0, <1>10
  <2> QED BY <2>1, <2>2
<1>11. n \in S
  <2>1. S \in SUBSET (0 .. n)
    OBVIOUS
  <2> HIDE DEF S
  <2> QED BY <2>1, <1>0, <1>9, <1>10, CountingUp
<1>12. rg[0] = rh[0] \o rg[n]
  <2>1. 0 >= n - n
    BY <1>0
  <2> QED BY <2>1, <1>2, <1>11
<1>13. rh[0] \in Seq(Recs) /\ rg[n] \in Seq(Recs)
    BY <1>2, <1>3, <1>4, <1>5
<1> QED BY <1>12, <1>13 DEF rh, rg, Walk

(* The tiles of the first n records of a walk, and those that are indexed.  *)
Seen(W, n) == {W[j].tile : j \in 1 .. n}
Room(W, i) == Cardinality(Seen(W, i - 1)) < MAX_ENTRIES
Indexable(W) == {i \in 1 .. Len(W) : Room(W, i)}
Read(W) == {W[i].tile : i \in Indexable(W)}

LEMMA WalkIs ==
    ASSUME NEW W \in Seq(Recs)
    PROVE  /\ Len(W) \in Nat /\ DOMAIN W = 1 .. Len(W)
           /\ \A i \in 1 .. Len(W) : W[i] \in Recs /\ W[i].tile \in Tiles
<1>1. Len(W) \in Nat /\ DOMAIN W = 1 .. Len(W) /\ \A i \in 1 .. Len(W) : W[i] \in Recs
    BY LenProperties, ElementOfSeq
<1>2. \A r \in Recs : r.tile \in Tiles
    BY DEF Recs
<1> QED BY <1>1, <1>2

LEMMA RescanReads ==
    ASSUME NEW file \in Files PROVE DOMAIN Rescan(file) = Read(Walk(file))
<1>1. 0 \in 0 .. Len(file)
    BY FileIs
<1>2. Walk(file) \in Seq(Recs)
    BY <1>1, RecordsTyped DEF Walk
<1> DEFINE W == Walk(file)
<1> HIDE DEF W
<1>3. DOMAIN W = 1 .. Len(W)
    BY <1>2, WalkIs DEF W
<1>4. DOMAIN Rescan(file) = {W[i].tile : i \in {k \in DOMAIN W : Cardinality(Seen(W, k - 1)) < MAX_ENTRIES}}
    BY DEF Rescan, Seen, W
<1> QED BY <1>3, <1>4 DEF Read, Indexable, Room, W

LEMMA SeenIs ==
    ASSUME NEW W \in Seq(Recs), NEW n \in 0 .. Len(W)
    PROVE  /\ Seen(W, n) \subseteq Tiles /\ IsFiniteSet(Seen(W, n)) /\ Cardinality(Seen(W, n)) \in Nat
           /\ \A m \in 0 .. n : Seen(W, m) \subseteq Seen(W, n)
                                /\ Cardinality(Seen(W, m)) =< Cardinality(Seen(W, n))
<1>1. \A j \in 1 .. n : j \in 1 .. Len(W)
    BY WalkIs
<1>2. Seen(W, n) \subseteq Tiles
    BY <1>1, WalkIs DEF Seen
<1>3. IsFiniteSet(Seen(W, n)) /\ Cardinality(Seen(W, n)) \in Nat
    BY <1>2, SomeTilesFinite
<1>4. ASSUME NEW m \in 0 .. n PROVE Seen(W, m) \subseteq Seen(W, n)
  <2>1. \A j \in 1 .. m : j \in 1 .. n
    BY WalkIs
  <2> QED BY <2>1 DEF Seen
<1>5. ASSUME NEW m \in 0 .. n PROVE Cardinality(Seen(W, m)) =< Cardinality(Seen(W, n))
  <2>1. Seen(W, m) \in SUBSET Seen(W, n)
    BY <1>4
  <2> QED BY <2>1, <1>3, FS_Subset
<1> QED BY <1>2, <1>3, <1>4, <1>5

LEMMA ReadWithin == ASSUME NEW W \in Seq(Recs) PROVE Read(W) \subseteq Seen(W, Len(W))
BY WalkIs DEF Read, Indexable, Seen

(* The index is full after a walk just when the walk came upon as many      *)
(* tiles as it has room for.                                                *)
LEMMA ReadFull ==
    ASSUME NEW W \in Seq(Recs)
    PROVE  Cardinality(Read(W)) < MAX_ENTRIES <=> Cardinality(Seen(W, Len(W))) < MAX_ENTRIES
<1> DEFINE n == Len(W)
           S == {k \in 0 .. n : Cardinality(Seen(W, k)) < MAX_ENTRIES}
<1>0. n \in Nat /\ n \in 0 .. n /\ MAX_ENTRIES \in Nat /\ MAX_ENTRIES > 0
    BY WalkIs, CacheAssumption
<1>1. \A k \in 0 .. n : IsFiniteSet(Seen(W, k)) /\ Cardinality(Seen(W, k)) \in Nat
    BY SeenIs
<1>2. IsFiniteSet(Read(W)) /\ Cardinality(Read(W)) \in Nat
  <2>1. Read(W) \in SUBSET Seen(W, n)
    BY ReadWithin
  <2> QED BY <2>1, <1>0, <1>1, FS_Subset, FS_CardinalityType
<1>3. Cardinality(Read(W)) =< Cardinality(Seen(W, n))
  <2>1. Read(W) \in SUBSET Seen(W, n)
    BY ReadWithin
  <2> QED BY <2>1, <1>0, <1>1, FS_Subset
<1>4. ASSUME Cardinality(Seen(W, n)) >= MAX_ENTRIES PROVE Cardinality(Read(W)) >= MAX_ENTRIES
  <2>1. 0 \in S
    <3>1. Seen(W, 0) = {}
      BY DEF Seen
    <3>2. Cardinality(Seen(W, 0)) = 0
      BY <3>1, FS_EmptySet
    <3> QED BY <3>2, <1>0
  <2>2. n \notin S
    BY <1>0, <1>1, <1>4
  <2>3. PICK k \in S : k < n /\ k + 1 \notin S
    <3>1. S \in SUBSET (0 .. n)
      OBVIOUS
    <3> HIDE DEF S
    <3> QED BY <3>1, <2>1, <2>2, <1>0, CountingUp
  <2>4. k \in Nat /\ k + 1 \in 0 .. n /\ k \in 0 .. n
    BY <2>3, <1>0
  <2>5. Cardinality(Seen(W, k + 1)) >= MAX_ENTRIES
    BY <2>3, <2>4, <1>0, <1>1
  <2>6. \A j \in 1 .. k + 1 : j \in 1 .. n /\ j - 1 \in 0 .. k
    BY <2>4, <1>0
  <2>7. ASSUME NEW j \in 1 .. k + 1 PROVE Room(W, j)
    <3>1. Cardinality(Seen(W, j - 1)) =< Cardinality(Seen(W, k))
      BY <2>4, <2>6, SeenIs
    <3>2. Cardinality(Seen(W, k)) < MAX_ENTRIES
      BY <2>3
    <3>3. j - 1 \in 0 .. n
      BY <2>4, <2>6
    <3>4. Cardinality(Seen(W, j - 1)) \in Nat /\ Cardinality(Seen(W, k)) \in Nat
      BY <1>1, <2>4, <3>3
    <3> QED BY <3>1, <3>2, <3>4, <1>0 DEF Room
  <2>8. Seen(W, k + 1) \in SUBSET Read(W)
    BY <2>6, <2>7 DEF Seen, Read, Indexable
  <2>9. Cardinality(Seen(W, k + 1)) =< Cardinality(Read(W))
    BY <2>8, <1>2, FS_Subset
  <2> QED BY <2>4, <2>5, <2>9, <1>0, <1>1, <1>2
<1> QED BY <1>0, <1>1, <1>2, <1>3, <1>4

(* A longer walk finds what a shorter one does.                             *)
LEMMA ReadConcat ==
    ASSUME NEW A \in Seq(Recs), NEW B \in Seq(Recs)
    PROVE  Read(A) \subseteq Read(A \o B)
<1> DEFINE C == A \o B
<1>1. /\ C \in Seq(Recs) /\ Len(C) = Len(A) + Len(B) /\ Len(A) \in Nat /\ Len(B) \in Nat
      /\ \A i \in 1 .. Len(A) + Len(B) : C[i] = IF i =< Len(A) THEN A[i] ELSE B[i - Len(A)]
    BY ConcatProperties, LenProperties
<1> HIDE DEF C
<1>2. \A i \in 1 .. Len(A) : i \in 1 .. Len(C) /\ C[i] = A[i] /\ i - 1 \in 0 .. Len(A)
    BY <1>1
<1>3. ASSUME NEW n \in 0 .. Len(A) PROVE Seen(C, n) = Seen(A, n)
  <2>1. \A j \in 1 .. n : C[j] = A[j]
    BY <1>1, <1>2
  <2> QED BY <2>1 DEF Seen
<1>4. \A i \in 1 .. Len(A) : Room(A, i) => Room(C, i)
    BY <1>2, <1>3 DEF Room
<1> QED BY <1>2, <1>4 DEF Read, Indexable, C

(* One more record is one more tile, if there is room.                      *)
LEMMA ReadAppend ==
    ASSUME NEW A \in Seq(Recs), NEW r \in Recs
    PROVE  Read(A \o <<r>>) =
               IF Cardinality(Read(A)) < MAX_ENTRIES THEN Read(A) \cup {r.tile} ELSE Read(A)
<1> DEFINE C == A \o <<r>>
           n == Len(A)
           room == Cardinality(Read(A)) < MAX_ENTRIES
<1>1. <<r>> \in Seq(Recs) /\ Len(<<r>>) = 1 /\ <<r>>[1] = r
    OBVIOUS
<1>2. /\ C \in Seq(Recs) /\ Len(C) = n + 1 /\ n \in Nat
      /\ \A i \in 1 .. n + 1 : C[i] = IF i =< n THEN A[i] ELSE <<r>>[i - n]
    BY <1>1, ConcatProperties, LenProperties
<1> HIDE DEF C
<1>3. \A i \in 1 .. n : C[i] = A[i] /\ i \in 1 .. n + 1
    BY <1>2
<1>4. C[n + 1] = r /\ n + 1 \in 1 .. n + 1
  <2>1. n + 1 \in 1 .. n + 1 /\ ~(n + 1 =< n) /\ (n + 1) - n = 1
    BY <1>2
  <2> QED BY <2>1, <1>1, <1>2
<1>5. ASSUME NEW m \in 0 .. n PROVE Seen(C, m) = Seen(A, m)
  <2>1. \A j \in 1 .. m : C[j] = A[j]
    BY <1>2, <1>3
  <2> QED BY <2>1 DEF Seen
<1>6. \A i \in 1 .. n : Room(C, i) <=> Room(A, i)
  <2>1. \A i \in 1 .. n : i - 1 \in 0 .. n
    BY <1>2
  <2> QED BY <2>1, <1>5 DEF Room
<1>7. Room(C, n + 1) <=> room
  <2>1. (n + 1) - 1 = n /\ n \in 0 .. n
    BY <1>2
  <2>2. Seen(C, (n + 1) - 1) = Seen(A, n)
    BY <2>1, <1>5
  <2> QED BY <2>2, ReadFull DEF Room
<1>8. Indexable(C) = IF room THEN Indexable(A) \cup {n + 1} ELSE Indexable(A)
  <2>1. \A i \in 1 .. n + 1 : i \in 1 .. n \/ i = n + 1
    BY <1>2
  <2>2. ~(n + 1 \in 1 .. n)
    BY <1>2
  <2> HIDE DEF n, room
  <2>3. Indexable(C) = {i \in 1 .. n + 1 : Room(C, i)}
    BY <1>2 DEF Indexable
  <2>4. Indexable(A) = {i \in 1 .. n : Room(A, i)}
    BY DEF Indexable, n
  <2> QED BY <2>1, <2>2, <2>3, <2>4, <1>3, <1>4, <1>6, <1>7
<1>9. \A i \in Indexable(A) : i \in 1 .. n
    BY DEF Indexable
<1> HIDE DEF n, room
<1>10. CASE room
  <2>1. Read(C) = {C[i].tile : i \in Indexable(A) \cup {n + 1}}
    BY <1>8, <1>10 DEF Read
  <2>2. Read(A) = {C[i].tile : i \in Indexable(A)}
    BY <1>3, <1>9 DEF Read
  <2> QED BY <2>1, <2>2, <1>4, <1>10 DEF C, room
<1>11. CASE ~room
  <2>1. Read(C) = Read(A)
    BY <1>3, <1>8, <1>9, <1>11 DEF Read
  <2> QED BY <2>1, <1>11 DEF C, room
<1> QED BY <1>10, <1>11

(* What a file that begins with n whole records gives.                      *)
LEMMA FoundRead ==
    ASSUME NEW file \in Files, NEW n \in Nat, n =< Len(file)
    PROVE  /\ Found(file, n) = Read(Walk(Prefix(file, n)))
           /\ Found(file, n) \subseteq Tiles /\ IsFiniteSet(Found(file, n))
           /\ Cardinality(Found(file, n)) \in Nat
<1> DEFINE h == Prefix(file, n)
<1>1. h \in Files
    BY PrefixIs
<1> HIDE DEF h
<1>2. DOMAIN Rescan(h) = Read(Walk(h)) /\ Walk(h) \in Seq(Recs)
  <2>1. 0 \in 0 .. Len(h)
    BY <1>1, FileIs
  <2> QED BY <1>1, <2>1, RescanReads, RecordsTyped DEF Walk
<1>3. Read(Walk(h)) \subseteq Tiles
  <2>1. Len(Walk(h)) \in 0 .. Len(Walk(h))
    BY <1>2, WalkIs
  <2> QED BY <2>1, <1>2, ReadWithin, SeenIs
<1> QED BY <1>2, <1>3, SomeTilesFinite DEF h, Found

LEMMA FoundAll == ASSUME NEW file \in Files PROVE Found(file, Len(file)) = DOMAIN Rescan(file)
BY PrefixAll DEF Found

LEMMA FoundSame ==
    ASSUME NEW f, NEW g, NEW n, \A i \in 1 .. n : f[i] = g[i]
    PROVE  Found(f, n) = Found(g, n)
BY PrefixSame DEF Found

(* Nothing that follows whole records takes away from what they give.       *)
LEMMA FoundWithin ==
    ASSUME NEW file \in Files, NEW n \in Nat, Formed(file, n), NEW g \in Files, n =< Len(g),
           \A i \in 1 .. n : g[i] = file[i]
    PROVE  Found(file, n) \subseteq DOMAIN Rescan(g)
<1> DEFINE h == Prefix(file, n)
<1>1. n =< Len(file)
    BY DEF Formed
<1>2. h \in Files /\ Len(h) = n /\ (\A i \in 1 .. n : h[i] = file[i]) /\ Formed(h, n)
    BY <1>1, PrefixIs, FormedPrefix
<1>3. Found(file, n) = Read(Walk(h))
    BY <1>1, FoundRead
<1> HIDE DEF h
<1>4. /\ Walk(h) \in Seq(Recs) /\ RecordsFrom(g)[n] \in Seq(Recs)
      /\ Walk(g) = Walk(h) \o RecordsFrom(g)[n]
  <2>1. Formed(h, Len(h)) /\ Len(h) =< Len(g) /\ \A i \in 1 .. Len(h) : g[i] = h[i]
    BY <1>2
  <2> QED BY <2>1, <1>2, WalkSplit
<1>5. Read(Walk(h)) \subseteq Read(Walk(g))
    BY <1>4, ReadConcat
<1> QED BY <1>3, <1>5, RescanReads

LEMMA FoundMore ==
    ASSUME NEW file \in Files, NEW m \in Nat, Formed(file, m), NEW n \in Nat, m =< n, n =< Len(file)
    PROVE  Found(file, m) \subseteq Found(file, n)
<1> DEFINE g == Prefix(file, n)
<1>1. g \in Files /\ Len(g) = n /\ \A i \in 1 .. n : g[i] = file[i]
    BY PrefixIs
<1>2. \A i \in 1 .. m : i \in 1 .. n
    OBVIOUS
<1> HIDE DEF g
<1>3. Found(file, m) \subseteq DOMAIN Rescan(g)
    BY <1>1, <1>2, FoundWithin
<1> QED BY <1>3 DEF Found, g

(* An appended record gives its tile, if the index has room for it.         *)
LEMMA FoundAppend ==
    ASSUME NEW file \in Files, NEW n \in Nat, Formed(file, n), NEW t \in Tiles
    PROVE  LET g == Overwrite(file, n, Record(t))
               m == n + Len(Record(t))
           IN  Found(g, m) = IF Cardinality(Found(file, n)) < MAX_ENTRIES
                             THEN Found(file, n) \cup {t} ELSE Found(file, n)
<1> DEFINE g == Overwrite(file, n, Record(t))
           m == n + Len(Record(t))
           h == Prefix(file, n)
           f == Prefix(g, m)
           r == RecordOf(f, n)
<1>1. /\ g \in Files /\ m \in Nat /\ m =< Len(g) /\ Formed(g, m)
      /\ \A i \in 1 .. n : g[i] = file[i]
      /\ n + 1 + PayloadSize[t] = m
    BY FormedAppend
<1>2. n =< Len(file) /\ n \in 0 .. Len(file)
    BY FileIs DEF Formed
<1>3. g[n + 1] = [tile |-> t, part |-> 0]
  <2>1. /\ Record(t) \in Files /\ Len(Record(t)) = PayloadSize[t] + 1 /\ PayloadSize[t] \in Nat
        /\ \A i \in 1 .. PayloadSize[t] + 1 : Record(t)[i] = [tile |-> t, part |-> i - 1]
    BY RecordIs
  <2>2. \A i \in 1 .. Len(g) : g[i] = IF i \in n + 1 .. n + Len(Record(t)) THEN Record(t)[i - n] ELSE file[i]
    BY <1>2, <2>1, OverwriteIs
  <2> HIDE DEF g
  <2>3. n + 1 \in 1 .. Len(g) /\ n + 1 \in n + 1 .. n + Len(Record(t)) /\ (n + 1) - n = 1
        /\ 1 \in 1 .. PayloadSize[t] + 1
    BY <1>1, <2>1, FileIs
  <2>4. g[n + 1] = Record(t)[1]
    BY <2>2, <2>3
  <2>5. Record(t)[1] = [tile |-> t, part |-> 1 - 1]
    BY <2>1, <2>3
  <2> QED BY <2>4, <2>5
<1> HIDE DEF g, m
<1>4. h \in Files /\ Len(h) = n /\ (\A i \in 1 .. n : h[i] = file[i]) /\ Formed(h, n)
    BY <1>2, PrefixIs, FormedPrefix
<1>5. f \in Files /\ Len(f) = m /\ \A i \in 1 .. m : f[i] = g[i]
    BY <1>1, PrefixIs
<1>6. Found(file, n) = Read(Walk(h)) /\ Found(g, m) = Read(Walk(f))
    BY <1>1, <1>2, FoundRead
<1> HIDE DEF h, f
<1>7. n + 1 \in 1 .. m /\ n < m /\ n =< m /\ PayloadSize[t] \in Nat
    BY <1>1, SizeIs
<1>8. /\ Walk(h) \in Seq(Recs) /\ Walk(f) = Walk(h) \o RecordsFrom(f)[n]
  <2>1. \A i \in 1 .. n : i \in 1 .. m
    BY <1>7, <1>1
  <2>2. Formed(h, Len(h)) /\ Len(h) =< Len(f) /\ \A i \in 1 .. Len(h) : f[i] = h[i]
    BY <2>1, <1>1, <1>4, <1>5, <1>7
  <2> QED BY <2>2, <1>4, <1>5, WalkSplit
<1>9. f[n + 1] = [tile |-> t, part |-> 0]
    BY <1>3, <1>5, <1>7
<1>10. RecordAt(f, n) /\ RecordEnd(f, n) = m
    BY <1>1, <1>5, <1>7, <1>9 DEF RecordAt, RecordEnd
<1>11. r \in Recs /\ r.tile = t
    BY <1>9 DEF RecordOf, Recs
<1>12. RecordsFrom(f)[m] = <<>>
  <2>1. ~RecordAt(f, m) /\ m \in 0 .. Len(f)
    BY <1>1, <1>5 DEF RecordAt
  <2> QED BY <2>1, <1>5, RecordsDef
<1>13. RecordsFrom(f)[n] = <<r>>
  <2>1. n \in 0 .. Len(f)
    BY <1>5, <1>7, <1>1
  <2>2. RecordsFrom(f)[n] = <<r>> \o RecordsFrom(f)[m]
    BY <2>1, <1>5, <1>10, RecordsDef
  <2> HIDE DEF r
  <2>3. <<r>> \o <<>> = <<r>>
    BY <1>11, ConcatEmptySeq
  <2> QED BY <2>2, <2>3, <1>12
<1> HIDE DEF r
<1>14. Read(Walk(f)) = IF Cardinality(Read(Walk(h))) < MAX_ENTRIES THEN Read(Walk(h)) \cup {r.tile}
                       ELSE Read(Walk(h))
    BY <1>8, <1>11, <1>13, ReadAppend
<1> QED BY <1>6, <1>11, <1>14 DEF g, m

(* Whole records that give nothing are none.                                *)
LEMMA FoundNothing ==
    ASSUME NEW file \in Files, NEW n \in Nat, Formed(file, n), Found(file, n) = {}
    PROVE  n = 0
<1> DEFINE h == Prefix(file, n)
<1>1. n =< Len(file)
    BY DEF Formed
<1>2. h \in Files /\ Len(h) = n /\ Formed(h, n)
    BY <1>1, PrefixIs, FormedPrefix
<1>3. Found(file, n) = Read(Walk(h))
    BY <1>1, FoundRead
<1> HIDE DEF h
<1> SUFFICES ASSUME n > 0 PROVE FALSE
    OBVIOUS
<1>4. 0 \in 0 .. Len(h) /\ n \in Nat /\ n =< Len(h)
    BY <1>2
<1>5. PICK ends \in SUBSET (0 .. n) : FormedBy(h, n, ends)
    BY <1>2 DEF Formed
<1>6. 0 \in ends
    BY <1>5 DEF FormedBy
<1>7. RecordAt(h, 0)
    BY <1>2, <1>4, <1>5, <1>6, FormedPlace
<1> DEFINE r == RecordOf(h, 0)
           s == RecordsFrom(h)[RecordEnd(h, 0)]
<1>8. Walk(h) = <<r>> \o s
    BY <1>2, <1>4, <1>7, RecordsDef DEF Walk
<1>9. s \in Seq(Recs) /\ r \in Recs
  <2>1. /\ RecordEnd(h, 0) \in 0 + 1 .. Len(h) /\ h[0 + 1].tile \in Tiles
    BY <1>2, <1>4, <1>7, RecordAtIs
  <2>2. RecordEnd(h, 0) \in 0 .. Len(h)
    BY <2>1, <1>2
  <2>3. s \in Seq(Recs)
    BY <2>2, <1>2, RecordsTyped
  <2>4. r \in Recs
    BY <2>1 DEF RecordOf, Recs
  <2> QED BY <2>3, <2>4
<1> HIDE DEF r, s
<1>10. <<>> \in Seq(Recs) /\ <<r>> \in Seq(Recs) /\ <<>> \o <<r>> = <<r>>
    BY <1>9, ConcatEmptySeq
<1>11. Cardinality(Read(<<>>)) < MAX_ENTRIES
  <2>1. Read(<<>>) = {}
    <3>1. Len(<<>>) = 0
      OBVIOUS
    <3>2. Indexable(<<>>) = {}
      BY <3>1 DEF Indexable
    <3> QED BY <3>2 DEF Read
  <2>2. Cardinality(Read(<<>>)) = 0
    BY <2>1, FS_EmptySet
  <2> QED BY <2>2, CacheAssumption
<1>12. r.tile \in Read(<<r>>)
    BY <1>9, <1>10, <1>11, ReadAppend
<1>13. Read(<<r>>) \subseteq Read(<<r>> \o s)
    BY <1>9, <1>10, ReadConcat
<1> QED BY <1>3, <1>8, <1>12, <1>13

-----------------------------------------------------------------------------
(***************************************************************************)
(* The invariant, as far as what survives needs it                          *)
(***************************************************************************)

(* An index file that would be accepted for as much of the blob indexes     *)
(* just what rescan would find there.                                       *)
Complete(file, idx) ==
    0 =< idx.len /\ idx.len =< Len(file) =>
        Formed(file, idx.len) /\ DOMAIN idx.entries = Found(file, idx.len)

LEMMA CompleteSame ==
    ASSUME NEW file \in Files, NEW g \in Files, NEW idx \in IdxFile, Complete(file, idx),
           0 =< idx.len /\ idx.len =< Len(g) =>
               idx.len =< Len(file) /\ \A i \in 1 .. idx.len : g[i] = file[i]
    PROVE  Complete(g, idx)
<1> SUFFICES ASSUME 0 =< idx.len, idx.len =< Len(g)
             PROVE  Formed(g, idx.len) /\ DOMAIN idx.entries = Found(g, idx.len)
    BY DEF Complete
<1>1. idx.len \in Nat
    BY DEF IdxFile
<1>2. Formed(file, idx.len) /\ DOMAIN idx.entries = Found(file, idx.len)
    BY DEF Complete
<1>3. Formed(g, idx.len)
    BY <1>1, <1>2, FormedSame
<1>4. Found(g, idx.len) = Found(file, idx.len)
    BY FoundSame
<1> QED BY <1>2, <1>3, <1>4

LEMMA CompleteNothing == \A file : Complete(file, NoIndex)
BY NothingIndexed DEF Complete

(* No flush has run beside an open or a close.                              *)
Undisturbed == Sound /\ "overlap" \notin mishaps

here == cache.build
blob == card.blob[here]
Opening == {"open", "load", "close", "save", "write"}

Apart == todo["ui"] # <<>> => cache.open /\ \A x \in Opening : ~Holds(todo["net"], x)
NetFlushes ==
    guard = "net" =>
        /\ todo["net"] # <<>>
        /\ \A x : Holds(todo["net"], x) => x \in {"sync", "save", "write", "release"}

(* Index files, the index in memory and the one being written all index     *)
(* what rescan would find.                                                  *)
Whole == \A b \in Builds : Complete(card.blob[b], card.idx[b])
Bare == \A b \in Builds : card.idx[b].entries = NoEntries => card.idx[b].len =< 0
Known == cache.open /\ ~At("net", "load") => DOMAIN cache.index = Found(blob, cache.len)
Drafted ==
    \A w \in Tasks : At(w, "write") =>
        draft[w] = [build |-> here, idx |-> [len |-> cache.len, entries |-> cache.index]]

(* Only the blob that is open has cells that were not flushed, and none by  *)
(* the time its index is written, unless a close follows.                   *)
Settled == \A b \in Builds : (b = here /\ cache.open) \/ synced[b] = card.blob[b]
Flushed ==
    /\ At("net", "load") => synced[here] = blob
    /\ \A w \in Tasks :
          (At(w, "save") \/ At(w, "write")) /\ ~Holds(todo[w], "close") => synced[here] = blob

(* With nothing pending, whole records that were flushed give every tile of *)
(* the index.                                                               *)
StoredBy(m) ==
    /\ m \in Nat /\ m =< Len(synced[here]) /\ m =< cache.len /\ Formed(blob, m)
    /\ \A i \in 1 .. m : synced[here][i] = blob[i]
    /\ DOMAIN cache.index \subseteq Found(blob, m)
Stored ==
    cache.open /\ cache.pending = 0 /\ ~At("net", "load") /\ ~Holds(todo["net"], "close") =>
        \E m : StoredBy(m)

Safe == /\ Apart /\ NetFlushes /\ Whole /\ Bare /\ Known
        /\ Drafted /\ Settled /\ Flushed /\ Stored

(* A step that leaves the files, the index and the draft as they are.       *)
LEMMA StepsOnly ==
    ASSUME Safe, card'.blob = card.blob, card'.idx = card.idx, UNCHANGED <<synced, cache, draft>>,
           Apart', NetFlushes',
           \/ todo'["net"] = todo["net"]
           \/ /\ ~At("net", "load") /\ ~At("net", "load")' /\ ~At("net", "write")'
              /\ At("net", "save")' => Holds(todo'["net"], "close")
              /\ Holds(todo["net"], "close") => Holds(todo'["net"], "close"),
           todo'["ui"] = todo["ui"] \/ (~At("ui", "save")' /\ ~At("ui", "write")')
    PROVE  Safe'
<1>1. Whole' /\ Bare' /\ Settled'
    BY DEF Safe, Whole, Bare, Settled, here
<1>2. Known'
  <2>1. ~At("net", "load")' => ~At("net", "load")
    BY DEF At
  <2> QED BY <2>1 DEF Safe, Known, here, blob
<1>3. \A w \in Tasks : At(w, "write")' => At(w, "write")
    BY DEF At, Tasks
<1>4. Drafted'
    BY <1>3 DEF Safe, Drafted, here
<1>5. Flushed'
  <2>1. At("net", "load")' => At("net", "load")
    BY DEF At
  <2>2. ASSUME NEW w \in Tasks, At(w, "save")' \/ At(w, "write")', ~Holds(todo'[w], "close")
        PROVE  (At(w, "save") \/ At(w, "write")) /\ ~Holds(todo[w], "close")
    BY <2>2 DEF At, Tasks
  <2> QED BY <2>1, <2>2 DEF Safe, Flushed, here, blob
<1>6. Stored'
  <2>1. ASSUME ~At("net", "load")', ~Holds(todo'["net"], "close")
        PROVE  ~At("net", "load") /\ ~Holds(todo["net"], "close")
    BY <2>1 DEF At
  <2>2. \A m : StoredBy(m)' = StoredBy(m)
    BY DEF StoredBy, here, blob
  <2> QED BY <2>1, <2>2 DEF Safe, Stored
<1> QED BY <1>1, <1>2, <1>4, <1>5, <1>6 DEF Safe

(* The two lists of a task that takes a step of its plan.                   *)
LEMMA ApartMoves ==
    ASSUME Kept, Apart, NetFlushes, NEW who \in Tasks, NEW h, At(who, h), Advance(who, <<>>), guard' = guard,
           h # "release", cache'.open = cache.open \/ (who = "net" /\ h \in Opening)
    PROVE  Apart' /\ NetFlushes'
<1>1. CacheTyped /\ Plans /\ Control
    BY DEF Kept, Control
<1>2. /\ \A w \in Tasks : w # who => todo'[w] = todo[w]
      /\ todo[who] # <<>>
      /\ \A x : Holds(todo[who], x) <=> x = h \/ Holds(todo'[who], x)
      /\ h \in {"sync", "save", "write"} => todo'[who] # <<>>
    BY <1>1, Moves
<1>3. CASE who = "net"
  <2>1. todo'["ui"] = todo["ui"] /\ todo["net"] # <<>>
    BY <1>2, <1>3 DEF Tasks
  <2>2. \A x : Holds(todo["net"], x) <=> x = h \/ Holds(todo'["net"], x)
    BY <1>2, <1>3
  <2>3. Apart'
    BY <2>1, <2>2 DEF Apart
  <2>4. NetFlushes'
    BY <2>1, <2>2, <1>2, <1>3 DEF NetFlushes
  <2> QED BY <2>3, <2>4
<1>4. CASE who = "ui"
  <2>1. todo'["net"] = todo["net"] /\ todo["ui"] # <<>>
    BY <1>2, <1>4 DEF Tasks
  <2>2. Apart' /\ NetFlushes'
    BY <2>1, <1>4 DEF Apart, NetFlushes
  <2> QED BY <2>2
<1> QED BY <1>3, <1>4 DEF Tasks

LEMMA ApartMovesInto ==
    ASSUME Kept, Apart, NetFlushes, NEW who \in Tasks, NEW h, At(who, h), NEW y \in Steps, Advance(who, <<y>>),
           (h = "save" /\ y = "write") \/ (h = "load" /\ y = "save"),
           guard' = guard, cache'.open = cache.open
    PROVE  Apart' /\ NetFlushes'
<1>1. CacheTyped /\ Plans
    BY DEF Kept, Control
<1>2. /\ \A w \in Tasks : w # who => todo'[w] = todo[w]
      /\ \A x : Holds(todo[who], x) => x = h \/ Holds(todo'[who], x)
      /\ \A x : Holds(todo'[who], x) => x = y \/ Holds(todo[who], x)
      /\ todo[who] # <<>> /\ todo'[who] # <<>> /\ Head(todo[who]) = h
    BY <1>1, MovesInto
<1>3. CASE who = "net"
  <2>1. todo'["ui"] = todo["ui"] /\ Holds(todo["net"], h)
    <3>1. Planned(todo["net"]) /\ todo["net"] # <<>> /\ Head(todo["net"]) = h
      BY <1>1, <1>2, <1>3 DEF Plans
    <3>2. Holds(todo["net"], Head(todo["net"]))
      BY <3>1, Onward
    <3> QED BY <1>2, <1>3, <3>1, <3>2 DEF Tasks
  <2>2. Apart'
    BY <2>1 DEF Apart, Opening
  <2>3. NetFlushes'
    BY <2>1, <1>2, <1>3 DEF NetFlushes
  <2> QED BY <2>2, <2>3
<1>4. CASE who = "ui"
  <2>1. todo'["net"] = todo["net"]
    BY <1>2, <1>4 DEF Tasks
  <2>2. todo["ui"] # <<>>
    BY <1>2, <1>4
  <2>3. Apart' /\ NetFlushes'
    BY <2>1, <2>2 DEF Apart, NetFlushes
  <2> QED BY <2>3
<1> QED BY <1>3, <1>4 DEF Tasks

LEMMA HoldsHead ==
    ASSUME Kept, NEW w \in Tasks, NEW h, At(w, h)
    PROVE  todo[w] # <<>> /\ Head(todo[w]) = h /\ Holds(todo[w], h)
<1>1. Planned(todo[w]) /\ todo[w] # <<>> /\ Head(todo[w]) = h
    BY DEF Kept, Control, Plans, At
<1> QED BY <1>1, Onward

LEMMA HoldsRange ==
    ASSUME NEW a \in Lists, NEW S, Range(a) \cap S = {}
    PROVE  \A x \in S : ~Holds(a, x)
<1>1. Len(a) \in Nat /\ DOMAIN a = 1 .. Len(a)
    BY LenProperties DEF Lists
<1>2. ASSUME NEW i \in 1 .. Len(a) PROVE a[i] \in Range(a)
    BY <1>1 DEF Range
<1> QED BY <1>2 DEF Holds

LEMMA BeginSafe == ASSUME Kept, Kept', Safe, Begin PROVE Safe'
<1>0. /\ card' = card /\ UNCHANGED <<synced, cache, draft, guard>> /\ ~ready /\ todo["net"] = <<>>
      /\ todo' = [todo EXCEPT !["net"] = IF card.manifest = 0 THEN <<"begun">>
                                         ELSE <<"open", "load", "check", "begun">>]
      /\ todo \in [Tasks -> Lists] /\ "net" \in Tasks
    BY DEF Begin, Kept, CacheTyped, Tasks
<1>1. todo["ui"] = <<>> /\ todo'["ui"] = todo["ui"]
    BY <1>0 DEF Kept, Control, Booting, Tasks
<1>2. Head(todo'["net"]) \in {"begun", "open"}
  <2>1. Head(<<"begun">>) = "begun" /\ Head(<<"open", "load", "check", "begun">>) = "open"
    OBVIOUS
  <2> QED BY <2>1, <1>0
<1>3. ~At("net", "load") /\ ~At("net", "load")' /\ ~At("net", "write")' /\ ~At("net", "save")'
    BY <1>0, <1>2 DEF At
<1>4. ~Holds(todo["net"], "close")
    BY <1>0, NothingPlanned
<1>5. Apart' /\ NetFlushes'
    BY <1>0, <1>1 DEF Apart, NetFlushes, Safe
<1> QED BY <1>0, <1>1, <1>3, <1>4, <1>5, StepsOnly

LEMMA BegunSafe == ASSUME Kept, Kept', Safe, Begun PROVE Safe'
<1>0. /\ card' = card /\ UNCHANGED <<synced, cache, draft, guard>> /\ At("net", "begun") /\ Advance("net", <<>>)
      /\ "net" \in Tasks
    BY DEF Begun, Tasks
<1>1. Apart' /\ NetFlushes'
    BY <1>0, ApartMoves DEF Safe
<1>2. /\ todo'["ui"] = todo["ui"] /\ todo'["net"] = <<>>
      /\ \A x : Holds(todo["net"], x) <=> x = "begun" \/ Holds(todo'["net"], x)
    BY <1>0, Moves DEF Kept, Control, Tasks
<1>3. ~At("net", "load") /\ ~At("net", "load")' /\ ~At("net", "write")' /\ ~At("net", "save")'
    BY <1>0, <1>2 DEF At
<1> QED BY <1>0, <1>1, <1>2, <1>3, StepsOnly

LEMMA ManifestSaveSafe == ASSUME Kept, Kept', Safe, ManifestSave PROVE Safe'
<1>0. /\ UNCHANGED <<synced, cache, draft, guard>> /\ At("net", "manifest") /\ Advance("net", <<>>)
      /\ "net" \in Tasks
    BY DEF ManifestSave, Tasks
<1>1. card'.blob = card.blob /\ card'.idx = card.idx
  <2>1. PICK m : card' = [card EXCEPT !.manifest = m]
    BY DEF ManifestSave
  <2> QED BY <2>1 DEF Kept, CacheTyped, Cards
<1>2. Apart' /\ NetFlushes'
    BY <1>0, ApartMoves DEF Safe
<1>3. /\ todo'["ui"] = todo["ui"] /\ todo'["net"] = <<>>
      /\ \A x : Holds(todo["net"], x) <=> x = "manifest" \/ Holds(todo'["net"], x)
    BY <1>0, Moves DEF Kept, Control, Tasks
<1>4. ~At("net", "load") /\ ~At("net", "load")' /\ ~At("net", "write")' /\ ~At("net", "save")'
    BY <1>0, <1>3 DEF At
<1> QED BY <1>0, <1>1, <1>2, <1>3, <1>4, StepsOnly

LEMMA ReleaseSafe == ASSUME Kept, Kept', Safe, NEW who \in Tasks, Release(who) PROVE Safe'
<1>0. /\ card' = card /\ UNCHANGED <<synced, cache, draft>> /\ At(who, "release") /\ Advance(who, <<>>)
      /\ guard' = "none"
    BY DEF Release
<1>1. /\ todo'[who] = <<>> /\ \A w \in Tasks : w # who => todo'[w] = todo[w]
      /\ \A x : Holds(todo[who], x) <=> x = "release" \/ Holds(todo'[who], x)
    BY <1>0, Moves DEF Kept, Control
<1>2. NetFlushes'
    BY <1>0 DEF NetFlushes
<1>3. CASE who = "net"
  <2>1. todo'["ui"] = todo["ui"] /\ todo'["net"] = <<>>
        /\ \A x : Holds(todo["net"], x) <=> x = "release" \/ Holds(todo'["net"], x)
    BY <1>1, <1>3 DEF Tasks
  <2>2. ~At("net", "load") /\ ~At("net", "load")' /\ ~At("net", "write")' /\ ~At("net", "save")'
    BY <1>0, <1>3, <2>1 DEF At
  <2>3. Apart'
    BY <1>0, <2>1, NothingPlanned DEF Apart, Safe
  <2> QED BY <1>0, <1>2, <2>1, <2>2, <2>3, StepsOnly
<1>4. CASE who = "ui"
  <2>1. todo'["net"] = todo["net"] /\ todo'["ui"] = <<>>
    BY <1>1, <1>4 DEF Tasks
  <2>2. Apart' /\ ~At("ui", "save")' /\ ~At("ui", "write")'
    BY <2>1 DEF Apart, At
  <2> QED BY <1>0, <1>2, <2>1, <2>2, StepsOnly
<1> QED BY <1>3, <1>4 DEF Tasks

LEMMA CheckSafe == ASSUME Kept, Kept', Safe, Check PROVE Safe'
<1>0. /\ card' = card /\ UNCHANGED <<synced, cache, draft, guard, ready>> /\ At("net", "check") /\ "net" \in Tasks
    BY DEF Check, Tasks
<1>1. Holds(todo["net"], "check") /\ todo["net"] # <<>> /\ Head(todo["net"]) = "check"
    BY <1>0, HoldsHead
<1>2. CASE Advance("net", <<>>)
  <2>1. Apart' /\ NetFlushes'
    BY <1>0, <1>2, ApartMoves DEF Safe
  <2>2. /\ todo'["ui"] = todo["ui"] /\ todo'["net"] # <<>> /\ Head(todo'["net"]) = "begun"
        /\ \A x : Holds(todo["net"], x) <=> x = "check" \/ Holds(todo'["net"], x)
    BY <1>0, <1>2, Moves DEF Kept, Control, Tasks
  <2>3. ~At("net", "load") /\ ~At("net", "load")' /\ ~At("net", "write")' /\ ~At("net", "save")'
    BY <1>0, <2>2 DEF At
  <2> QED BY <1>0, <2>1, <2>2, <2>3, StepsOnly
<1>3. CASE cache.open /\ Advance("net", DropSteps \o <<"open", "load">>)
  <2> DEFINE b == Tail(todo["net"])
             p == (DropSteps \o <<"open", "load">>) \o b
  <2>1. Planned(b) /\ b # <<>> /\ Head(b) = "begun"
    BY <1>0, Onward DEF Kept, Control, Plans, At, Tasks
  <2>2. todo' = [todo EXCEPT !["net"] = p]
    BY <1>3 DEF Advance
  <2> HIDE DEF b
  <2>3. p # <<>> /\ Head(p) = "save" /\ Holds(p, "close")
    BY <1>3, <2>1, DropPlan
  <2> HIDE DEF p
  <2>4. todo'["net"] = p /\ todo'["ui"] = todo["ui"]
    BY <2>2 DEF Kept, CacheTyped, Tasks
  <2>5. todo["ui"] = <<>>
    BY <1>1 DEF Kept, Control, Judging, Booting
  <2>6. guard # "net"
    BY <1>1 DEF Safe, NetFlushes
  <2>7. Apart' /\ NetFlushes'
    BY <1>0, <2>4, <2>5, <2>6 DEF Apart, NetFlushes
  <2>8. ~At("net", "load") /\ ~At("net", "load")' /\ ~At("net", "write")'
    BY <1>0, <2>3, <2>4 DEF At
  <2> QED BY <1>0, <2>3, <2>4, <2>7, <2>8, StepsOnly
<1> QED BY <1>2, <1>3 DEF Check

LEMMA UnguardedNot ==
    ASSUME Kept, ~Unguarded PROVE guard = "net" \/ \A x \in Opening : ~Holds(todo["net"], x)
<1> SUFFICES ASSUME guard # "net" PROVE \A x \in Opening : ~Holds(todo["net"], x)
    OBVIOUS
<1>1. todo["net"] \in Lists
    BY DEF Kept, CacheTyped, Tasks
<1>2. Range(todo["net"]) \cap Opening = {}
    BY DEF Unguarded, Opening
<1> QED BY <1>1, <1>2, HoldsRange

LEMMA RefreshSafe ==
    ASSUME Kept, Kept', Safe, Undisturbed', NEW found \in Builds, found >= build, Refresh(found) PROVE Safe'
<1> DEFINE p == (IF build \notin {0, found} THEN DropSteps ELSE <<>>)
                    \o (IF found = build /\ cache.open THEN <<>> ELSE <<"open", "load">>)
                    \o <<"manifest">>
           drops == build # 0 /\ build # found
           opens == drops \/ build = 0 \/ ~cache.open
<1>0. /\ card' = card /\ UNCHANGED <<synced, cache, draft, guard>> /\ ready /\ todo["net"] = <<>>
      /\ todo' = [todo EXCEPT !["net"] = p]
      /\ Happens("overlap", Unguarded' /\ todo["ui"] # <<>>)
    BY DEF Refresh
<1>1. found # 0
    BY BuildIs
<1>2. /\ p # <<>>
      /\ Head(p) = IF drops THEN IF cache.open THEN "save" ELSE "dropBlob"
                   ELSE IF opens THEN "open" ELSE "manifest"
      /\ drops /\ cache.open => Holds(p, "close")
    BY <1>1, RefreshPlan
<1> HIDE DEF p
<1>3. todo'["net"] = p /\ todo'["ui"] = todo["ui"]
    BY <1>0 DEF Kept, CacheTyped, Tasks
<1>4. guard # "net"
    BY <1>0 DEF Safe, NetFlushes
<1>5. NetFlushes'
    BY <1>0, <1>4 DEF NetFlushes
<1>6. Apart'
  <2> SUFFICES ASSUME todo["ui"] # <<>> PROVE cache.open /\ \A x \in Opening : ~Holds(todo'["net"], x)
      BY <1>0, <1>3 DEF Apart
  <2>1. cache.open
    BY DEF Safe, Apart
  <2>2. ~Unguarded'
    BY <1>0 DEF Happens, Undisturbed
  <2>3. guard' # "net"
    BY <1>0, <1>4
  <2>4. todo'["net"] \in Lists
    BY DEF Kept, CacheTyped, Tasks
  <2>5. Range(todo'["net"]) \cap Opening = {}
    BY <2>2, <2>3 DEF Unguarded, Opening
  <2>6. \A x \in Opening : ~Holds(todo'["net"], x)
    BY <2>4, <2>5, HoldsRange
  <2> QED BY <2>1, <2>6
<1>7. ~At("net", "load") /\ ~At("net", "load")' /\ ~At("net", "write")'
      /\ (At("net", "save")' => Holds(todo'["net"], "close"))
    BY <1>0, <1>2, <1>3 DEF At
<1>8. ~Holds(todo["net"], "close")
    BY <1>0, NothingPlanned
<1> QED BY <1>0, <1>3, <1>5, <1>6, <1>7, <1>8, StepsOnly

LEMMA FlushSafe == ASSUME Kept, Kept', Safe, Undisturbed', Flush PROVE Safe'
<1>0. /\ card' = card /\ UNCHANGED <<synced, cache, draft>> /\ cache.open /\ guard = "none" /\ guard' = "ui"
      /\ todo' = [todo EXCEPT !["ui"] = FlushSteps] /\ Happens("overlap", Unguarded)
    BY DEF Flush
<1>1. todo'["net"] = todo["net"] /\ todo'["ui"] = FlushSteps
    BY <1>0 DEF Kept, CacheTyped, Tasks
<1>2. ~Unguarded
    BY <1>0 DEF Happens, Undisturbed
<1>3. \A x \in Opening : ~Holds(todo["net"], x)
    BY <1>0, <1>2, UnguardedNot
<1>4. Apart' /\ NetFlushes'
    BY <1>0, <1>1, <1>3 DEF Apart, NetFlushes
<1>5. ~At("ui", "save")' /\ ~At("ui", "write")'
    BY <1>1, FlushPlan DEF At
<1> QED BY <1>0, <1>1, <1>4, <1>5, StepsOnly

LEMMA SaveFailsSafe == ASSUME Kept, Kept', Safe, NEW who \in Tasks, SaveFails(who) PROVE Safe'
<1>0. /\ card' = card /\ UNCHANGED <<synced, cache, draft, guard>> /\ At(who, "save") /\ Advance(who, <<>>)
    BY DEF SaveFails
<1>1. Apart' /\ NetFlushes'
    BY <1>0, ApartMoves DEF Safe
<1>2. /\ \A w \in Tasks : w # who => todo'[w] = todo[w]
      /\ todo'[who] # <<>> /\ Head(todo'[who]) \in {"check", "begun", "manifest", "close", "release"}
      /\ \A x : Holds(todo[who], x) <=> x = "save" \/ Holds(todo'[who], x)
    BY <1>0, Moves DEF Kept, Control
<1>3. CASE who = "net"
  <2>1. todo'["ui"] = todo["ui"] /\ (Holds(todo["net"], "close") => Holds(todo'["net"], "close"))
    BY <1>2, <1>3 DEF Tasks
  <2>2. ~At("net", "load") /\ ~At("net", "load")' /\ ~At("net", "write")' /\ ~At("net", "save")'
    BY <1>0, <1>2, <1>3 DEF At
  <2> QED BY <1>0, <1>1, <2>1, <2>2, StepsOnly
<1>4. CASE who = "ui"
  <2>1. todo'["net"] = todo["net"]
    BY <1>2, <1>4 DEF Tasks
  <2>2. ~At("ui", "save")' /\ ~At("ui", "write")'
    BY <1>2, <1>4 DEF At
  <2> QED BY <1>0, <1>1, <2>1, <2>2, StepsOnly
<1> QED BY <1>3, <1>4 DEF Tasks

(* Nothing is open, so everything has been flushed.                         *)
LEMMA OpenBlobSafe == ASSUME Kept, Kept', Safe, OpenBlob PROVE Safe'
<1>0. /\ card' = card /\ UNCHANGED <<synced, draft, guard>> /\ At("net", "open") /\ Advance("net", <<>>)
      /\ "net" \in Tasks
    BY DEF OpenBlob, Tasks
<1>1. Holds(todo["net"], "open")
    BY <1>0, HoldsHead
<1>2. build \in Builds /\ ~cache.open
    BY <1>0, <1>1 DEF Kept, Control, Leading, Opened
<1>3. todo["ui"] = <<>> /\ guard # "net"
    BY <1>1, <1>2 DEF Safe, Apart, NetFlushes
<1>4. /\ todo'["ui"] = todo["ui"] /\ todo'["net"] # <<>> /\ Head(todo'["net"]) = "load"
    BY <1>0, Moves DEF Kept, Control, Tasks
<1>5. cache'.open /\ cache'.build = build
    BY DEF OpenBlob, Kept, CacheTyped, Caches
<1>6. /\ At("net", "load")' /\ ~At("net", "save")' /\ ~At("net", "write")'
      /\ ~At("ui", "save")' /\ ~At("ui", "write")'
    BY <1>3, <1>4 DEF At
<1>7. Apart' /\ NetFlushes'
    BY <1>0, <1>3, <1>4 DEF Apart, NetFlushes
<1>8. \A b \in Builds : synced[b] = card.blob[b]
    BY <1>2 DEF Safe, Settled
<1>9. Whole' /\ Bare' /\ Settled'
    BY <1>0, <1>8 DEF Safe, Whole, Bare, Settled
<1>10. Known' /\ Drafted' /\ Stored'
    BY <1>6 DEF Known, Drafted, Stored, Tasks
<1>11. Flushed'
  <2>1. synced'[here'] = blob'
    BY <1>0, <1>2, <1>5, <1>8 DEF here, blob
  <2> QED BY <2>1 DEF Flushed
<1> QED BY <1>7, <1>9, <1>10, <1>11 DEF Safe

LEMMA OpenFailsSafe == ASSUME Kept, Kept', Safe, OpenFails PROVE Safe'
<1> DEFINE a == todo["net"]
           r == Tail(Tail(a))
<1>0. /\ card' = card /\ UNCHANGED <<synced, draft, guard>> /\ At("net", "open") /\ "net" \in Tasks
      /\ todo' = [todo EXCEPT !["net"] = r] /\ cache' = [cache EXCEPT !.build = build]
    BY DEF OpenFails, Tasks
<1>1. Holds(a, "open") /\ a # <<>> /\ Head(a) = "open"
    BY <1>0, HoldsHead
<1>2. ~cache.open /\ ~cache'.open
    BY <1>0 DEF Kept, Control, Opened, CacheTyped, Caches
<1>3. todo["ui"] = <<>> /\ guard # "net"
    BY <1>1, <1>2 DEF Safe, Apart, NetFlushes
<1>4. Planned(a)
    BY DEF Kept, Control, Plans, Tasks
<1>5. Planned(Tail(a)) /\ Tail(a) # <<>> /\ Head(Tail(a)) = "load"
    BY <1>1, <1>4, Onward
<1>6. r # <<>> /\ Head(r) \in {"check", "begun", "manifest"}
    BY <1>5, Onward
<1> HIDE DEF r
<1>7. todo'["ui"] = todo["ui"] /\ todo'["net"] = r
    BY <1>0 DEF Kept, CacheTyped, Tasks
<1>8. /\ ~At("net", "load")' /\ ~At("net", "save")' /\ ~At("net", "write")'
      /\ ~At("ui", "save")' /\ ~At("ui", "write")'
    BY <1>3, <1>6, <1>7 DEF At
<1>9. Apart' /\ NetFlushes'
    BY <1>0, <1>3, <1>7 DEF Apart, NetFlushes
<1>10. Whole' /\ Bare' /\ Settled'
    BY <1>0, <1>2 DEF Safe, Whole, Bare, Settled
<1>11. Known' /\ Drafted' /\ Stored' /\ Flushed'
    BY <1>2, <1>8 DEF Known, Drafted, Stored, Flushed, Tasks
<1> QED BY <1>9, <1>10, <1>11 DEF Safe

(* Whichever way the index is found, it is what the blob gives.             *)
LEMMA LoadIndexSafe == ASSUME Kept, Kept', Right, Right', Safe, LoadIndex PROVE Safe'
<1> DEFINE file == card.blob[cache.build]
           idx == card.idx[cache.build]
<1>0. /\ card' = card /\ UNCHANGED <<synced, draft, guard>> /\ At("net", "load") /\ "net" \in Tasks
      /\ "save" \in Steps
    BY DEF LoadIndex, Tasks, Steps
<1>1. Holds(todo["net"], "load")
    BY <1>0, HoldsHead
<1>2. cache.open /\ here \in Builds /\ cache \in Caches
    BY <1>0 DEF Kept, Control, Closed, Opened, CacheTyped, here
<1>3. todo["ui"] = <<>> /\ guard # "net"
    BY <1>1 DEF Safe, Apart, NetFlushes, Opening
<1>4. PICK index : /\ cache' = [cache EXCEPT !.index = index]
                   /\ \/ idx.len = cache.len /\ index = idx.entries
                      \/ index = Rescan(file)
    BY DEF LoadIndex, IdxAccepted
<1>5. /\ cache'.open /\ cache'.build = here /\ cache'.len = cache.len /\ cache'.index = index
    BY <1>2, <1>4 DEF Caches, here
<1>6. Advance("net", <<>>) \/ Advance("net", <<"save">>)
    BY DEF LoadIndex
<1>7. /\ todo'["ui"] = todo["ui"] /\ todo'["net"] # <<>>
      /\ Head(todo'["net"]) \in {"check", "begun", "manifest", "save"}
  <2>1. CASE Advance("net", <<>>)
    BY <1>0, <2>1, Moves DEF Kept, Control, Tasks
  <2>2. CASE Advance("net", <<"save">>)
    BY <1>0, <2>2, MovesInto DEF Kept, Control, Tasks
  <2> QED BY <1>6, <2>1, <2>2
<1>8. ~At("net", "load")' /\ ~At("net", "write")' /\ ~At("ui", "save")' /\ ~At("ui", "write")'
    BY <1>3, <1>7 DEF At
<1>9. Apart' /\ NetFlushes'
    BY <1>0, <1>3, <1>7 DEF Apart, NetFlushes
<1>10. Whole' /\ Bare' /\ Settled'
    BY <1>0, <1>2, <1>5 DEF Safe, Whole, Bare, Settled, here
<1>11. /\ cache.len = Len(file) /\ Formed(file, cache.len) /\ file \in Files /\ idx \in IdxFile
       /\ cache.len \in Nat
    BY <1>0, <1>2, CardIs, CacheIs DEF Right, Indexed, Kept, CacheTyped, here
<1>12. DOMAIN index = Found(file, cache.len)
  <2>1. CASE idx.len = cache.len /\ index = idx.entries
    <3>1. Complete(file, idx)
      BY <1>2 DEF Safe, Whole, here
    <3> HIDE DEF file, idx
    <3> QED BY <2>1, <3>1, <1>11 DEF Complete
  <2>2. CASE index = Rescan(file)
    <3> HIDE DEF file
    <3> QED BY <2>2, <1>11, FoundAll
  <2> QED BY <1>4, <2>1, <2>2
<1>13. synced[here] = file
    BY <1>0 DEF Safe, Flushed, blob, here
<1>14. here' = here /\ blob' = file
    BY <1>0, <1>5 DEF here, blob
<1> HIDE DEF file, idx
<1>15. Known' /\ Drafted' /\ Flushed'
    BY <1>0, <1>5, <1>8, <1>12, <1>13, <1>14 DEF Known, Drafted, Flushed, Tasks
<1>16. StoredBy(cache.len)'
  <2>1. synced'[here'] = blob'
    BY <1>0, <1>13, <1>14
  <2> QED BY <2>1, <1>5, <1>11, <1>12, <1>14 DEF StoredBy
<1>17. Stored'
  <2>1. \E m : StoredBy(m)'
    BY <1>16
  <2> QED BY <2>1 DEF Stored
<1> QED BY <1>9, <1>10, <1>15, <1>17 DEF Safe

LEMMA CloseBlobSafe == ASSUME Kept, Kept', Safe, CloseBlob PROVE Safe'
<1>0. /\ card' = card /\ UNCHANGED <<draft, guard>> /\ At("net", "close") /\ Advance("net", <<>>)
      /\ synced' = [synced EXCEPT ![here] = card.blob[here]]
      /\ "net" \in Tasks
    BY DEF CloseBlob, Tasks, here
<1>1. cache.open /\ Holds(todo["net"], "close")
    BY <1>0, HoldsHead DEF Kept, Control, Closed
<1>2. todo["ui"] = <<>> /\ guard # "net"
    BY <1>1 DEF Safe, Apart, NetFlushes, Opening
<1>3. ~cache'.open /\ cache'.build = here
    BY DEF CloseBlob, Kept, CacheTyped, Caches, here
<1>4. todo'["ui"] = todo["ui"] /\ Head(todo'["net"]) = "dropBlob"
    BY <1>0, Moves DEF Kept, Control, Tasks
<1>5. /\ ~At("net", "load")' /\ ~At("net", "write")' /\ ~At("net", "save")'
      /\ ~At("ui", "save")' /\ ~At("ui", "write")'
    BY <1>2, <1>4 DEF At
<1>6. Apart' /\ NetFlushes'
    BY <1>0, <1>2, <1>4 DEF Apart, NetFlushes
<1>7. \A b \in Builds : synced'[b] = card.blob[b]
    BY <1>0 DEF Safe, Settled, Kept, CacheTyped
<1>8. Whole' /\ Bare' /\ Settled'
    BY <1>0, <1>7 DEF Safe, Whole, Bare, Settled
<1>9. Known' /\ Drafted' /\ Stored' /\ Flushed'
    BY <1>3, <1>5 DEF Known, Drafted, Stored, Flushed, Tasks
<1> QED BY <1>6, <1>8, <1>9 DEF Safe

(* Of an empty blob nothing but an empty index file is accepted.            *)
LEMMA DropBlobSafe == ASSUME Kept, Kept', Safe, DropBlob PROVE Safe'
<1>0. /\ UNCHANGED <<cache, draft, guard>> /\ At("net", "dropBlob") /\ Advance("net", <<>>)
      /\ card' = [card EXCEPT !.blob[here] = <<>>]
      /\ synced' = [synced EXCEPT ![here] = <<>>]
      /\ CacheTyped /\ "net" \in Tasks
    BY DEF DropBlob, Tasks, here, Kept
<1>1. ~cache.open /\ here \in Builds /\ Holds(todo["net"], "dropBlob")
    BY <1>0, HoldsHead DEF Kept, Control, Opened, Dropping, here
<1>2. todo["ui"] = <<>> /\ guard # "net"
    BY <1>1 DEF Safe, Apart, NetFlushes
<1>3. todo'["ui"] = todo["ui"] /\ Head(todo'["net"]) = "dropIdx"
    BY <1>0, Moves DEF Kept, Control, Tasks
<1>4. /\ ~At("net", "load")' /\ ~At("net", "write")' /\ ~At("net", "save")'
      /\ ~At("ui", "save")' /\ ~At("ui", "write")'
    BY <1>2, <1>3 DEF At
<1>5. <<>> \in Files /\ Len(<<>>) = 0
    BY EmptySeq DEF Files
<1>6. /\ card'.idx = card.idx
      /\ \A b \in Builds : card'.blob[b] = IF b = here THEN <<>> ELSE card.blob[b]
  <2>1. card \in Cards /\ card' = BlobSet(card, here, <<>>)
    BY <1>0 DEF CacheTyped, BlobSet
  <2> QED BY <2>1, <1>5, BlobSetIs
<1>7. \A b \in Builds : synced'[b] = IF b = here THEN <<>> ELSE synced[b]
    BY <1>0 DEF CacheTyped
<1>8. Apart' /\ NetFlushes'
    BY <1>0, <1>2, <1>3 DEF Apart, NetFlushes
<1>9. Settled'
    BY <1>0, <1>1, <1>6, <1>7 DEF Safe, Settled
<1>10. Bare'
    BY <1>6 DEF Safe, Bare
<1>11. Whole'
  <2> SUFFICES ASSUME NEW b \in Builds PROVE Complete(card'.blob[b], card.idx[b])
      BY <1>6 DEF Whole
  <2> DEFINE file == card.blob[b]
             idx == card.idx[b]
  <2>1. file \in Files /\ idx \in IdxFile /\ Complete(file, idx) /\ Len(file) \in Nat
    BY <1>0, CardIs, FileIs DEF CacheTyped, Safe, Whole
  <2>2. CASE b = here
    <3> HIDE DEF file, idx
    <3>1. idx.len \in Int
      BY <2>1 DEF IdxFile
    <3>2. 0 =< idx.len /\ idx.len =< Len(<<>>) =>
              idx.len =< Len(file) /\ \A i \in 1 .. idx.len : <<>>[i] = file[i]
      BY <2>1, <3>1, <1>5
    <3>3. Complete(<<>>, idx)
      BY <2>1, <3>2, <1>5, CompleteSame
    <3> QED BY <2>2, <3>3, <1>6 DEF idx
  <2>3. CASE b # here
    BY <2>1, <2>3, <1>6
  <2> QED BY <2>2, <2>3
<1>12. Known' /\ Drafted' /\ Stored' /\ Flushed'
    BY <1>0, <1>1, <1>4 DEF Known, Drafted, Stored, Flushed, Tasks
<1> QED BY <1>8, <1>9, <1>10, <1>11, <1>12 DEF Safe

LEMMA DropIdxSafe == ASSUME Kept, Kept', Safe, DropIdx PROVE Safe'
<1>0. /\ UNCHANGED <<synced, cache, draft, guard>> /\ At("net", "dropIdx") /\ Advance("net", <<>>)
      /\ card' = [card EXCEPT !.idx[here] = NoIndex]
      /\ CacheTyped /\ "net" \in Tasks
    BY DEF DropIdx, Tasks, here, Kept
<1>1. ~cache.open /\ Holds(todo["net"], "dropIdx")
    BY <1>0, HoldsHead DEF Kept, Control, Opened
<1>2. todo["ui"] = <<>> /\ guard # "net"
    BY <1>1 DEF Safe, Apart, NetFlushes
<1>3. todo'["ui"] = todo["ui"] /\ Head(todo'["net"]) = "open"
    BY <1>0, Moves DEF Kept, Control, Tasks
<1>4. /\ ~At("net", "load")' /\ ~At("net", "write")' /\ ~At("net", "save")'
      /\ ~At("ui", "save")' /\ ~At("ui", "write")'
    BY <1>2, <1>3 DEF At
<1>5. /\ card'.blob = card.blob
      /\ \A b \in Builds : card'.idx[b] = IF b = here THEN NoIndex ELSE card.idx[b]
  <2>1. card \in Cards /\ NoIndex \in IdxFile /\ card' = IdxSet(card, here, NoIndex)
    BY <1>0, NothingIndexed DEF CacheTyped, IdxSet
  <2> QED BY <2>1, IdxSetIs
<1>6. Apart' /\ NetFlushes'
    BY <1>0, <1>2, <1>3 DEF Apart, NetFlushes
<1>7. Whole' /\ Bare' /\ Settled'
    BY <1>0, <1>5, CompleteNothing, NothingIndexed DEF Safe, Whole, Bare, Settled, here
<1>8. Known' /\ Drafted' /\ Stored' /\ Flushed'
    BY <1>0, <1>1, <1>4 DEF Known, Drafted, Stored, Flushed, Tasks
<1> QED BY <1>6, <1>7, <1>8 DEF Safe

(* What a flush commits is the whole blob. *)
LEMMA SyncSafe == ASSUME Kept, Kept', Right, Safe, NEW who \in Tasks, Sync(who) PROVE Safe'
<1>0. /\ UNCHANGED <<card, cache, draft, guard>> /\ At(who, "sync") /\ Advance(who, <<>>)
      /\ CacheTyped /\ Control
    BY DEF Sync, Kept
<1>1. todo[who] # <<>> /\ cache.open
    BY <1>0 DEF Control, Closed, Safe, Apart, At, Tasks
<1>2. here \in Builds /\ blob \in Files /\ Formed(blob, cache.len) /\ cache.len \in Nat
    BY <1>0, <1>1, CardIs, CacheIs DEF Control, Opened, CacheTyped, here, blob, Right, Indexed
<1>3. /\ synced'[here] = blob
      /\ \A b \in Builds : synced'[b] = card.blob[b] \/ synced'[b] = synced[b]
  <2>1. synced' = [synced EXCEPT ![here] = blob]
    BY <1>1 DEF Sync, here, blob
  <2> QED BY <2>1, <1>0, <1>2 DEF CacheTyped, blob
<1>4. here' = here /\ blob' = blob
    BY <1>0 DEF here, blob
<1>5. Apart' /\ NetFlushes'
    BY <1>0, ApartMoves DEF Safe
<1>6. /\ \A w \in Tasks : w # who => todo'[w] = todo[w]
      /\ todo'[who] # <<>> /\ Head(todo'[who]) = "save"
    BY <1>0, Moves DEF Control
<1>7. \A w \in Tasks : At(w, "write")' => At(w, "write")
    BY <1>6 DEF At
<1>8. ~At("net", "load")' => ~At("net", "load")
    BY <1>0, <1>6 DEF At, Tasks
<1>9. Whole' /\ Bare' /\ Settled'
    BY <1>0, <1>1, <1>3 DEF Safe, Whole, Bare, Settled, here
<1>10. Known' /\ Drafted'
    BY <1>0, <1>4, <1>7, <1>8 DEF Safe, Known, Drafted
<1>11. Flushed'
    BY <1>3, <1>4 DEF Flushed
<1>12. Stored'
  <2> SUFFICES ASSUME ~At("net", "load")' PROVE \E m : StoredBy(m)'
      BY DEF Stored
  <2>1. DOMAIN cache.index = Found(blob, cache.len)
    BY <1>1, <1>8 DEF Safe, Known
  <2>2. StoredBy(cache.len)'
    BY <2>1, <1>0, <1>2, <1>3, <1>4 DEF StoredBy, Formed
  <2> QED BY <2>2
<1> QED BY <1>5, <1>9, <1>10, <1>11, <1>12 DEF Safe

LEMMA SaveBeginsSafe == ASSUME Kept, Kept', Safe, NEW who \in Tasks, SaveBegins(who) PROVE Safe'
<1> DEFINE d == [build |-> here, idx |-> [len |-> cache.len, entries |-> cache.index]]
<1>0. /\ UNCHANGED <<synced, cache, guard>> /\ At(who, "save") /\ Advance(who, <<"write">>)
      /\ draft' = [draft EXCEPT ![who] = d] /\ CacheTyped /\ "write" \in Steps
    BY DEF SaveBegins, here, Kept, Steps
<1>1. /\ card'.blob = card.blob
      /\ \A b \in Builds : card'.idx[b] = IF b = here THEN NoIndex ELSE card.idx[b]
  <2>1. card \in Cards /\ NoIndex \in IdxFile /\ card' = IdxSet(card, here, NoIndex)
    BY <1>0, NothingIndexed DEF CacheTyped, IdxSet, SaveBegins, here
  <2> QED BY <2>1, IdxSetIs
<1>2. d = [build |-> here', idx |-> [len |-> cache'.len, entries |-> cache'.index]]
    BY <1>0 DEF here
<1>3. here' = here /\ blob' = blob
    BY <1>0, <1>1 DEF here, blob
<1> HIDE DEF d
<1>4. draft'[who] = d /\ \A w \in Tasks : w # who => draft'[w] = draft[w]
    BY <1>0 DEF CacheTyped
<1>5. Apart' /\ NetFlushes'
    BY <1>0, ApartMovesInto DEF Safe
<1>6. /\ \A w \in Tasks : w # who => todo'[w] = todo[w]
      /\ Head(todo'[who]) = "write" /\ todo[who] # <<>> /\ Head(todo[who]) = "save"
      /\ \A x : Holds(todo[who], x) => x = "save" \/ Holds(todo'[who], x)
    BY <1>0, MovesInto DEF Kept, Control
<1>7. Whole' /\ Bare' /\ Settled'
    BY <1>0, <1>1, CompleteNothing, NothingIndexed DEF Safe, Whole, Bare, Settled, here
<1>8. ~At("net", "load")' => ~At("net", "load")
    BY <1>6 DEF At, Tasks
<1>9. Known'
    BY <1>0, <1>3, <1>8 DEF Safe, Known
<1>10. Drafted'
  <2> SUFFICES ASSUME NEW w \in Tasks, At(w, "write")'
               PROVE  draft'[w] = [build |-> here', idx |-> [len |-> cache'.len, entries |-> cache'.index]]
      BY DEF Drafted
  <2>1. CASE w = who
    BY <2>1, <1>2, <1>4
  <2>2. CASE w # who
    <3>1. At(w, "write") /\ draft'[w] = draft[w]
      BY <2>2, <1>4, <1>6 DEF At
    <3> QED BY <3>1, <1>0, <1>3 DEF Safe, Drafted
  <2> QED BY <2>1, <2>2
<1>11. Flushed'
  <2>1. At("net", "load")' => At("net", "load")
    BY <1>6 DEF At, Tasks
  <2>2. ASSUME NEW w \in Tasks, At(w, "save")' \/ At(w, "write")', ~Holds(todo'[w], "close")
        PROVE  (At(w, "save") \/ At(w, "write")) /\ ~Holds(todo[w], "close")
    <3>1. CASE w = who
      BY <3>1, <2>2, <1>6 DEF At
    <3>2. CASE w # who
      BY <3>2, <2>2, <1>6 DEF At
    <3> QED BY <3>1, <3>2
  <2> QED BY <2>1, <2>2, <1>0, <1>3 DEF Safe, Flushed
<1>12. Stored'
  <2> SUFFICES ASSUME cache.open, cache.pending = 0, ~At("net", "load")', ~Holds(todo'["net"], "close")
               PROVE  \E m : StoredBy(m)'
      BY <1>0 DEF Stored
  <2>1. ~Holds(todo["net"], "close")
    BY <1>6 DEF Tasks
  <2>2. PICK m : StoredBy(m)
    BY <2>1, <1>8 DEF Safe, Stored
  <2>3. StoredBy(m)'
    BY <2>2, <1>0, <1>3 DEF StoredBy
  <2> QED BY <2>3
<1> QED BY <1>5, <1>7, <1>9, <1>10, <1>11, <1>12 DEF Safe

(* What a save writes is the index as it is, and by then the blob has been  *)
(* flushed or is about to be closed.                                        *)
LEMMA SaveEndsSafe == ASSUME Kept, Kept', Right, Safe, NEW who \in Tasks, SaveEnds(who) PROVE Safe'
<1> DEFINE d == [len |-> cache.len, entries |-> cache.index]
<1>0. /\ UNCHANGED <<synced, guard>> /\ At(who, "write") /\ Advance(who, <<>>)
      /\ cache' = [cache EXCEPT !.pending = 0] /\ draft' = [draft EXCEPT ![who] = NoDraft]
      /\ CacheTyped /\ Control
    BY DEF SaveEnds, Kept
<1>1. todo[who] # <<>> /\ Holds(todo[who], "write")
    BY <1>0, HoldsHead
<1>2. cache.open /\ ~At("net", "load")
  <2>1. CASE who = "net"
    BY <2>1, <1>0 DEF Control, Closed, At
  <2>2. CASE who = "ui"
    <3>1. ~Holds(todo["net"], "load") /\ cache.open
      BY <2>2, <1>1 DEF Safe, Apart, Opening
    <3> QED BY <3>1, HoldsHead DEF Tasks
  <2> QED BY <2>1, <2>2 DEF Tasks
<1>3. /\ here \in Builds /\ blob \in Files /\ Formed(blob, cache.len) /\ cache.len \in Nat
      /\ DOMAIN cache.index = Found(blob, cache.len) /\ cache.index \in Index
    BY <1>0, <1>2, CardIs, CacheIs
    DEF Control, Opened, CacheTyped, here, blob, Right, Indexed, Safe, Known
<1>4. draft[who] = [build |-> here, idx |-> d]
    BY <1>0 DEF Safe, Drafted
<1>5. d \in IdxFile /\ d.len = cache.len /\ d.entries = cache.index
    BY <1>3 DEF IdxFile
<1>6. PICK idx \in {d, NoIndex} : card' = [card EXCEPT !.idx[here] = idx]
    BY <1>4 DEF SaveEnds
<1> HIDE DEF d
<1>7. /\ card'.blob = card.blob
      /\ \A b \in Builds : card'.idx[b] = IF b = here THEN idx ELSE card.idx[b]
  <2>1. card \in Cards /\ card' = IdxSet(card, here, idx) /\ idx \in IdxFile
    BY <1>0, <1>5, <1>6, NothingIndexed DEF CacheTyped, IdxSet
  <2> QED BY <2>1, IdxSetIs
<1>8. /\ cache'.open /\ cache'.build = here /\ cache'.len = cache.len /\ cache'.index = cache.index
      /\ cache'.pending = 0
    BY <1>0, <1>2 DEF CacheTyped, Caches, here
<1>9. here' = here /\ blob' = blob
    BY <1>7, <1>8 DEF here, blob
<1>10. /\ \A w \in Tasks : w # who => todo'[w] = todo[w]
       /\ Head(todo'[who]) \in {"check", "begun", "manifest", "close", "release"}
       /\ \A x : Holds(todo[who], x) <=> x = "write" \/ Holds(todo'[who], x)
    BY <1>0, Moves DEF Control
<1>11. draft'[who] = NoDraft /\ \A w \in Tasks : w # who => draft'[w] = draft[w]
    BY <1>0 DEF CacheTyped
<1>12. Apart' /\ NetFlushes'
  <2>1. cache'.open = cache.open
    BY <1>2, <1>8
  <2> QED BY <2>1, <1>0, ApartMoves DEF Safe
<1>13. Whole'
  <2>1. Complete(blob, d)
    BY <1>3, <1>5 DEF Complete
  <2>2. Complete(blob, idx)
    BY <2>1, <1>6, CompleteNothing
  <2> QED BY <2>2, <1>7 DEF Safe, Whole, blob
<1>14. Bare'
  <2>1. cache.index = NoEntries => cache.len = 0
    BY <1>3, NothingIndexed, FoundNothing
  <2>2. idx.entries = NoEntries => idx.len =< 0
    BY <2>1, <1>5, <1>6, NothingIndexed
  <2> QED BY <2>2, <1>7 DEF Safe, Bare
<1>15. Settled'
    BY <1>0, <1>7, <1>8, <1>9 DEF Safe, Settled
<1>16. Known'
    BY <1>3, <1>8, <1>9 DEF Known
<1>17. \A w \in Tasks : At(w, "write")' => w # who /\ At(w, "write")
    BY <1>10 DEF At
<1>18. Drafted'
    BY <1>8, <1>9, <1>11, <1>17 DEF Safe, Drafted
<1>19. Flushed'
  <2>1. At("net", "load")' => At("net", "load")
    BY <1>10 DEF At, Tasks
  <2>2. ASSUME NEW w \in Tasks, At(w, "save")' \/ At(w, "write")', ~Holds(todo'[w], "close")
        PROVE  (At(w, "save") \/ At(w, "write")) /\ ~Holds(todo[w], "close")
    <3>1. w # who
      BY <2>2, <1>10 DEF At
    <3> QED BY <3>1, <2>2, <1>10 DEF At
  <2> QED BY <2>1, <2>2, <1>0, <1>9 DEF Safe, Flushed
<1>20. Stored'
  <2> SUFFICES ASSUME ~Holds(todo'["net"], "close") PROVE \E m : StoredBy(m)'
      BY DEF Stored
  <2>1. ~Holds(todo[who], "close")
    <3>1. CASE who = "net"
      BY <3>1, <1>10
    <3>2. CASE who = "ui"
      BY <3>2, <1>0 DEF Control, FlushesOnly
    <3> QED BY <3>1, <3>2 DEF Tasks
  <2>2. synced[here] = blob
    BY <2>1, <1>0 DEF Safe, Flushed
  <2>3. StoredBy(cache.len)'
    BY <2>2, <1>0, <1>3, <1>8, <1>9 DEF StoredBy, Formed
  <2> QED BY <2>3
<1> QED BY <1>12, <1>13, <1>14, <1>15, <1>16, <1>18, <1>19, <1>20 DEF Safe

(* An append leaves what an index file says of the records before it.       *)
LEMMA AppendWhole ==
    ASSUME CacheTyped, Right, Safe, cache.open, here \in Builds, ~At("net", "load"), ~At("net", "save"),
           NEW g \in Files, cache.len =< Len(g), \A i \in 1 .. cache.len : g[i] = blob[i],
           card'.idx = card.idx, card'.blob[here] = g,
           \A b \in Builds : b # here => card'.blob[b] = card.blob[b]
    PROVE  Whole' /\ Bare'
<1>1. Bare'
    BY DEF Safe, Bare
<1>2. ASSUME NEW b \in Builds PROVE Complete(card'.blob[b], card.idx[b])
  <2>1. CASE b # here
    BY <2>1 DEF Safe, Whole
  <2>2. CASE b = here
    <3> DEFINE idx == card.idx[here]
    <3>1. blob \in Files /\ idx \in IdxFile /\ Complete(blob, idx) /\ idx.len \in Int
          /\ cache.len \in Nat /\ Formed(blob, cache.len) /\ Len(blob) \in Nat
      BY CardIs, CacheIs, FileIs DEF CacheTyped, Safe, Whole, blob, Right, Indexed, here, IdxFile
    <3>2. idx.len =< cache.len
      <4>1. CASE idx.entries = NoEntries
        BY <4>1, <3>1 DEF Safe, Bare
      <4>2. CASE idx.entries # NoEntries
        BY <4>2 DEF Right, Indexed, here
      <4> QED BY <4>1, <4>2
    <3> HIDE DEF idx
    <3>3. cache.len =< Len(blob)
      BY <3>1 DEF Formed
    <3>4. idx.len =< Len(blob) /\ \A i \in 1 .. idx.len : g[i] = blob[i]
      BY <3>1, <3>2, <3>3
    <3>5. Complete(g, idx)
      BY <3>1, <3>4, CompleteSame
    <3> QED BY <2>2, <3>5 DEF idx
  <2> QED BY <2>1, <2>2
<1>3. Whole'
    BY <1>2 DEF Whole
<1> QED BY <1>1, <1>3

(* The record is found, and so is everything before it.                     *)
LEMMA PutSafe == ASSUME Kept, Kept', Right, Safe, NEW t \in Tiles, Put(t) PROVE Safe'
<1> DEFINE g == Overwrite(blob, cache.len, Record(t))
           m == cache.len + Len(Record(t))
           index == IdxInsert(cache.index, t, AppendOffset + 1)
           due == cache.pending + 1 >= FlushInterval[Cardinality(DOMAIN index)]
<1>0. /\ CacheTyped /\ Bounds /\ Control /\ MayPut(t) /\ Appended(Record(t)) /\ cache \in Caches
      /\ todo["net"] = <<>> /\ guard = "none" /\ t \notin DOMAIN cache.index
      /\ UNCHANGED <<synced, draft>> /\ "net" \in Tasks /\ "ui" \in Tasks
    BY DEF Kept, Put, MayPut, CacheTyped, Tasks
<1>1. todo["ui"] = <<>>
    BY <1>0 DEF Control, Guarding
<1>2. Record(t) \in Files /\ Len(Record(t)) \in Nat /\ Len(Record(t)) >= 1 /\ Len(Record(t)) =< Len(Record(t))
    BY RecordIs, FileIs
<1>3. /\ cache.open /\ here \in Builds /\ AppendOffset = cache.len /\ blob \in Files
      /\ cache.len \in 0 .. Len(blob) /\ card'.idx = card.idx
      /\ \A b \in Builds : b # here => card'.blob[b] = card.blob[b]
      /\ card'.blob[here] = g
    BY <1>0, <1>2, AppendedIs DEF here, blob
<1>4. cache.len \in Nat /\ cache.pending \in Nat
    BY <1>0, CacheIs
<1>5. Formed(blob, cache.len)
    BY <1>3 DEF Right, Indexed, blob, here
<1>6. /\ g \in Files /\ m \in Nat /\ m =< Len(g) /\ Formed(g, m) /\ \A i \in 1 .. cache.len : g[i] = blob[i]
    BY <1>3, <1>4, <1>5, FormedAppend
<1>7. Found(g, m) = IF Cardinality(Found(blob, cache.len)) < MAX_ENTRIES
                    THEN Found(blob, cache.len) \cup {t} ELSE Found(blob, cache.len)
    BY <1>3, <1>4, <1>5, FoundAppend
<1>8. cache.len < m /\ cache.len =< Len(g)
  <2> HIDE DEF g
  <2> QED BY <1>2, <1>4, <1>6, FileIs
<1>9. DOMAIN cache.index = Found(blob, cache.len)
    BY <1>0, <1>3 DEF Safe, Known, At
<1>10. DOMAIN index = Found(g, m) /\ (t \notin DOMAIN index => DOMAIN index = DOMAIN cache.index)
  <2> HIDE DEF g, m
  <2>1. DOMAIN index = IF Cardinality(DOMAIN cache.index) < MAX_ENTRIES
                       THEN DOMAIN cache.index \cup {t} ELSE DOMAIN cache.index
    BY <1>0 DEF IdxInsert
  <2> QED BY <2>1, <1>7, <1>9
<1> HIDE DEF index, g, due
<1>11. /\ cache'.open /\ cache'.build = here /\ cache'.len = m
       /\ \/ cache'.index = index /\ cache'.pending = cache.pending + 1
          \/ t \notin DOMAIN index /\ cache'.index = cache.index /\ cache'.pending = cache.pending
  <2>1. CASE t \in DOMAIN index
    <3>1. cache' = [cache EXCEPT !.len = m, !.index = index, !.pending = @ + 1]
      BY <2>1, <1>3 DEF Put, index
    <3> HIDE DEF m
    <3>2. cache' = [open |-> cache.open, build |-> cache.build, len |-> m, index |-> index,
                    pending |-> cache.pending + 1]
      BY <3>1, <1>0 DEF Caches
    <3> QED BY <3>2, <1>3 DEF here
  <2>2. CASE t \notin DOMAIN index
    <3>1. cache' = [cache EXCEPT !.len = m]
      BY <2>2, <1>3 DEF Put, index
    <3> HIDE DEF m
    <3>2. cache' = [open |-> cache.open, build |-> cache.build, len |-> m, index |-> cache.index,
                    pending |-> cache.pending]
      BY <3>1, <1>0 DEF Caches
    <3> QED BY <2>2, <3>2, <1>3 DEF here
  <2> QED BY <2>1, <2>2
<1> HIDE DEF m
<1>12. /\ todo'["ui"] = <<>>
       /\ \/ guard' = "none" /\ todo'["net"] = <<>>
          \/ guard' = "net" /\ todo'["net"] = FlushSteps
  <2>1. \/ guard' = "net" /\ todo' = [todo EXCEPT !["net"] = FlushSteps]
        \/ guard' = "none" /\ todo' = todo
    BY <1>0 DEF Put
  <2> QED BY <2>1, <1>0, <1>1 DEF CacheTyped, Tasks
<1>13. here' = here /\ blob' = g
    BY <1>3, <1>11 DEF here, blob
<1>14. \A w \in Tasks : ~At(w, "load")' /\ ~At(w, "save")' /\ ~At(w, "write")'
    BY <1>12, FlushPlan DEF At, Tasks
<1>15. Apart' /\ NetFlushes'
    BY <1>12, FlushPlan DEF Apart, NetFlushes
<1>16. Whole' /\ Bare'
  <2>1. ~At("net", "load") /\ ~At("net", "save")
    BY <1>0 DEF At
  <2> QED BY <2>1, <1>0, <1>3, <1>6, <1>8, AppendWhole
<1>17. Known'
    BY <1>9, <1>10, <1>11, <1>13 DEF Known
<1>18. Drafted' /\ Flushed'
    BY <1>0, <1>14 DEF Drafted, Flushed
<1>19. Settled'
    BY <1>0, <1>3, <1>11, <1>13 DEF Safe, Settled
<1>20. Stored'
  <2> SUFFICES ASSUME cache'.pending = 0 PROVE \E k : StoredBy(k)'
      BY DEF Stored
  <2>1. cache'.index = cache.index /\ cache.pending = 0
    BY <1>4, <1>11
  <2>2. PICK k : StoredBy(k)
    BY <2>1, <1>0, <1>3, NothingPlanned DEF Safe, Stored, At
  <2>3. k \in Nat /\ k =< cache.len /\ k =< Len(synced[here]) /\ Formed(blob, k)
    BY <2>2 DEF StoredBy
  <2>4. \A i \in 1 .. k : i \in 1 .. cache.len
    BY <2>3, <1>4
  <2>5. \A i \in 1 .. k : g[i] = blob[i] /\ g[i] = synced[here][i]
    BY <2>2, <2>4, <1>6 DEF StoredBy
  <2>6. k =< Len(g) /\ k =< m
    BY <2>3, <1>4, <1>6, <1>8, FileIs
  <2>7. Formed(g, k)
    BY <2>3, <2>5, <2>6, <1>3, <1>6, FormedSame
  <2>8. Found(g, k) = Found(blob, k)
    BY <2>5, FoundSame
  <2>9. StoredBy(k)'
    BY <2>1, <2>2, <2>3, <2>5, <2>6, <2>7, <2>8, <1>0, <1>11, <1>13 DEF StoredBy
  <2> QED BY <2>9
<1> QED BY <1>15, <1>16, <1>17, <1>18, <1>19, <1>20 DEF Safe

(* A record cut short goes past what is counted.                            *)
LEMMA PutFailsSafe == ASSUME Kept, Kept', Right, Safe, NEW t \in Tiles, PutFails(t) PROVE Safe'
<1> DEFINE g == card'.blob[here]
<1>0. /\ CacheTyped /\ Bounds /\ Control /\ MayPut(t) /\ cache \in Caches /\ todo["net"] = <<>>
      /\ UNCHANGED <<synced, cache, build, ready, todo, draft, guard>>
    BY DEF Kept, PutFails, CacheTyped, MayPut
<1>1. PICK n \in 1 .. PayloadSize[t] : Appended(SubSeq(Record(t), 1, n))
    BY DEF PutFails
<1>2. /\ cache.open /\ here \in Builds /\ cache.len \in 0 .. Len(blob)
      /\ blob \in Files /\ card' \in Cards /\ card'.idx = card.idx
      /\ \A b \in Builds : b # here => card'.blob[b] = card.blob[b]
      /\ g \in Files /\ cache.len =< Len(g)
      /\ \A i \in 1 .. cache.len : g[i] = blob[i]
  <2> DEFINE cells == SubSeq(Record(t), 1, n)
  <2>1. cells \in Files /\ Len(cells) =< Len(Record(t)) /\ Appended(cells) /\ Len(cells) \in Nat
    <3>1. /\ SubSeq(Record(t), 1, n) \in Files /\ Len(SubSeq(Record(t), 1, n)) = n
          /\ n \in Nat /\ n =< Len(Record(t))
      BY PieceIs, RecordIs
    <3> QED BY <1>1, <3>1
  <2> HIDE DEF cells
  <2>2. /\ cache.open /\ here \in Builds /\ cache.len \in 0 .. Len(blob)
        /\ blob \in Files /\ card' \in Cards /\ card'.idx = card.idx
        /\ \A b \in Builds : b # here => card'.blob[b] = card.blob[b]
        /\ g = Overwrite(blob, cache.len, cells)
    BY <1>0, <2>1, AppendedIs DEF here, blob
  <2> HIDE DEF g
  <2>3. /\ g \in Files
        /\ Len(g) = IF cache.len + Len(cells) > Len(blob) THEN cache.len + Len(cells) ELSE Len(blob)
        /\ \A i \in 1 .. Len(g) : g[i] =
               IF i \in cache.len + 1 .. cache.len + Len(cells) THEN cells[i - cache.len] ELSE blob[i]
    BY <2>1, <2>2, OverwriteIs
  <2>4. Len(blob) \in Nat /\ cache.len \in Nat /\ cache.len =< Len(g) /\ Len(g) \in Nat
    BY <2>1, <2>2, <2>3, FileIs
  <2>5. \A i \in 1 .. cache.len : g[i] = blob[i]
    BY <2>3, <2>4
  <2> QED BY <2>2, <2>3, <2>4, <2>5
<1>3. cache.len \in Nat /\ here' = here
    BY <1>0, <1>2, FileIs DEF here
<1>4. ~At("net", "load") /\ ~At("net", "save") /\ todo["ui"] = <<>>
    BY <1>0 DEF At, Kept, Control, Guarding, MayPut
<1> HIDE DEF g
<1>5. card'.blob[here] = g /\ blob' = g
    BY <1>3 DEF g, blob, here
<1>6. Whole' /\ Bare'
    BY <1>0, <1>2, <1>4, <1>5, AppendWhole
<1>7. Apart' /\ NetFlushes'
    BY <1>0 DEF Safe, Apart, NetFlushes
<1>8. Found(g, cache.len) = Found(blob, cache.len)
    BY <1>2, FoundSame
<1>9. Known'
    BY <1>0, <1>5, <1>8, <1>4 DEF Safe, Known, At
<1>10. Drafted' /\ Flushed'
  <2>1. \A w \in Tasks : ~At(w, "load")' /\ ~At(w, "save")' /\ ~At(w, "write")'
    BY <1>0, <1>4 DEF At, Tasks
  <2> QED BY <2>1 DEF Drafted, Flushed, Tasks
<1>11. Settled'
    BY <1>0, <1>2, <1>3 DEF Safe, Settled
<1>12. Stored'
  <2> SUFFICES ASSUME cache.pending = 0 PROVE \E k : StoredBy(k)'
      BY <1>0 DEF Stored
  <2>1. PICK k : StoredBy(k)
    BY <1>0, <1>2, <1>4, NothingPlanned DEF Safe, Stored
  <2>2. k \in Nat /\ k =< cache.len /\ k =< Len(synced[here]) /\ Formed(blob, k)
    BY <2>1 DEF StoredBy
  <2>3. \A i \in 1 .. k : i \in 1 .. cache.len
    BY <2>2, <1>3
  <2>4. \A i \in 1 .. k : g[i] = blob[i] /\ g[i] = synced[here][i]
    BY <2>1, <2>3, <1>2, <1>5 DEF StoredBy
  <2>5. k =< Len(g)
    BY <2>2, <1>2, <1>3, <1>5, FileIs
  <2>6. Formed(g, k)
    BY <2>2, <2>4, <2>5, <1>2, <1>5, FormedSame
  <2>7. Found(g, k) = Found(blob, k)
    BY <2>4, FoundSame
  <2>8. StoredBy(k)'
    BY <2>1, <2>2, <2>4, <2>6, <2>7, <1>0, <1>3, <1>5 DEF StoredBy
  <2> QED BY <2>8
<1> QED BY <1>6, <1>7, <1>9, <1>10, <1>11, <1>12 DEF Safe

(* With no cut short append before it, a power cut takes cells that were    *)
(* not flushed and leaves the others as they were.                          *)
LEMMA CutSame ==
    ASSUME CacheTyped, Bounds, Untorn, "torn" \notin mishaps, NEW b \in Builds,
           NEW file \in AfterPowerCut(card.blob[b], synced[b])
    PROVE  /\ file \in Files /\ Len(file) = Len(synced[b]) /\ Len(file) \in Nat
           /\ \A i \in 1 .. Len(synced[b]) : file[i] = synced[b][i] /\ file[i] = card.blob[b][i]
<1>1. card.blob[b] \in Files /\ synced[b] \in Files /\ Len(synced[b]) =< Len(card.blob[b])
    BY CardIs DEF CacheTyped, Bounds
<1>2. /\ file \in Files /\ Len(file) = Len(synced[b])
      /\ \A i \in 1 .. Len(synced[b]) : file[i] = card.blob[b][i] \/ file[i] = synced[b][i]
    BY <1>1, ImageIs
<1>3. \A i \in 1 .. Len(synced[b]) : card.blob[b][i] = synced[b][i]
    BY DEF Untorn
<1> QED BY <1>2, <1>3, FileIs

LEMMA PowerCutSafe == ASSUME Kept, Kept', Sound', Right, Safe, PowerCut PROVE Safe'
<1>0. /\ CacheTyped /\ Bounds /\ ~cache'.open /\ guard' = "none"
      /\ todo'["net"] = <<>> /\ todo'["ui"] = <<>>
      /\ \A w \in Tasks : todo'[w] = <<>>
    BY NothingOpen DEF Kept, PowerCut, Tasks
<1>1. "torn" \notin mishaps
    BY DEF PowerCut, Happens, Sound
<1>2. /\ card' \in Cards /\ card'.idx = card.idx /\ synced' = card'.blob
      /\ \A b \in Builds : card'.blob[b] \in AfterPowerCut(card.blob[b], synced[b])
    BY <1>0, PowerCutIs
<1>3. ASSUME NEW b \in Builds PROVE Complete(card'.blob[b], card.idx[b])
  <2> DEFINE file == card.blob[b]
             g == card'.blob[b]
             idx == card.idx[b]
  <2>1. /\ file \in Files /\ g \in Files /\ idx \in IdxFile /\ Complete(file, idx)
        /\ Len(g) =< Len(file) /\ Len(g) \in Nat /\ Len(file) \in Nat /\ \A i \in 1 .. Len(g) : g[i] = file[i]
    <3>1. /\ g \in Files /\ Len(g) = Len(synced[b]) /\ Len(g) \in Nat
          /\ \A i \in 1 .. Len(synced[b]) : g[i] = file[i]
      BY <1>0, <1>1, <1>2, CutSame DEF Right
    <3>2. file \in Files /\ idx \in IdxFile /\ Len(synced[b]) =< Len(file)
      BY <1>0, CardIs DEF CacheTyped, Bounds
    <3>3. Complete(file, idx)
      BY DEF Safe, Whole
    <3> HIDE DEF g, file, idx
    <3> QED BY <3>1, <3>2, <3>3, FileIs
  <2> HIDE DEF g, file
  <2>2. idx.len \in Int
    BY <2>1 DEF IdxFile
  <2> HIDE DEF idx
  <2>3. idx.len =< Len(g) => idx.len =< Len(file) /\ \A i \in 1 .. idx.len : g[i] = file[i]
    BY <2>1, <2>2
  <2>4. Complete(g, idx)
    BY <2>1, <2>3, CompleteSame
  <2> QED BY <2>4 DEF g, idx
<1>4. Whole' /\ Bare'
    BY <1>2, <1>3 DEF Whole, Safe, Bare
<1>5. Apart' /\ NetFlushes' /\ Known' /\ Stored'
    BY <1>0 DEF Apart, NetFlushes, Known, Stored
<1>6. Drafted' /\ Flushed'
    BY <1>0 DEF Drafted, Flushed, At, Tasks
<1>7. Settled'
    BY <1>2 DEF Settled
<1> QED BY <1>4, <1>5, <1>6, <1>7 DEF Safe

LEMMA InitSafe == ASSUME Init PROVE Safe
<1>1. \A b \in Builds : card.blob[b] = <<>> /\ card.idx[b] = NoIndex /\ synced[b] = <<>>
    BY DEF Init
<1>2. ~cache.open /\ guard = "none" /\ \A w \in Tasks : todo[w] = <<>>
    BY NothingOpen DEF Init
<1>3. Whole /\ Bare
    BY <1>1, CompleteNothing DEF Whole, Bare, NoIndex
<1>4. Settled
    BY <1>1 DEF Settled
<1>5. Apart /\ NetFlushes /\ Known /\ Drafted /\ Flushed /\ Stored
    BY <1>2 DEF Apart, NetFlushes, Known, Drafted, Flushed, Stored, At, Tasks
<1> QED BY <1>3, <1>4, <1>5 DEF Safe

LEMMA NextSafe ==
    ASSUME Kept, Kept', Undisturbed', Right, Right', Safe, [Next]_vars PROVE Safe'
<1>0. Sound'
    BY DEF Undisturbed
<1>1. CASE Begin \/ Check \/ Begun \/ ManifestSave
    BY <1>1, BeginSafe, CheckSafe, BegunSafe, ManifestSaveSafe
<1>2. CASE \E found \in Builds : found >= build /\ Refresh(found)
    BY <1>2, RefreshSafe
<1>3. CASE OpenBlob \/ OpenFails \/ LoadIndex \/ CloseBlob \/ DropBlob \/ DropIdx
    BY <1>3, OpenBlobSafe, OpenFailsSafe, LoadIndexSafe, CloseBlobSafe, DropBlobSafe, DropIdxSafe
<1>4. CASE \E t \in Tiles : Put(t) \/ PutFails(t)
    BY <1>4, PutSafe, PutFailsSafe
<1>5. CASE Flush
    BY <1>5, FlushSafe
<1>6. CASE \E who \in Tasks : Sync(who) \/ SaveBegins(who) \/ SaveFails(who) \/ SaveEnds(who) \/ Release(who)
    BY <1>6, SyncSafe, SaveBeginsSafe, SaveFailsSafe, SaveEndsSafe, ReleaseSafe
<1>7. CASE PowerCut
    BY <1>0, <1>7, PowerCutSafe
<1>8. CASE UNCHANGED vars
  <2>1. \A m : StoredBy(m)' = StoredBy(m)
    BY <1>8 DEF vars, StoredBy, here, blob
  <2> QED BY <1>8, <2>1 DEF vars, Safe, Apart, NetFlushes, Whole, Bare, Known, Drafted, Settled, Flushed, Stored,
                  At, here, blob
<1> QED BY <1>1, <1>2, <1>3, <1>4, <1>5, <1>6, <1>7, <1>8 DEF Next

-----------------------------------------------------------------------------
(***************************************************************************)
(* What a power cut costs                                                   *)
(***************************************************************************)
RecoveryInv == CacheInv /\ (Undisturbed => Safe)

LEMMA RecoveryHolds == Spec => []RecoveryInv
<1>1. Init => RecoveryInv
    BY InitKept, InitRight, InitSafe DEF RecoveryInv, CacheInv
<1>2. RecoveryInv /\ [Next]_vars => RecoveryInv'
  <2> SUFFICES ASSUME RecoveryInv, [Next]_vars PROVE RecoveryInv'
      OBVIOUS
  <2>1. Kept /\ Kept'
    BY NextKeeps DEF RecoveryInv, CacheInv
  <2>2. mishaps \subseteq mishaps'
    BY MishapsKnown DEF vars
  <2>3. ASSUME Sound' PROVE Sound /\ Right /\ Right'
    <3>1. Sound
      BY <2>2, <2>3, SoundBefore
    <3> QED BY <2>1, <2>3, <3>1, NextRight DEF RecoveryInv, CacheInv
  <2>4. ASSUME Undisturbed' PROVE Safe'
    <3>1. Sound'
      BY <2>4 DEF Undisturbed
    <3>2. Undisturbed
      BY <2>2, <2>3, <2>4, <3>1 DEF Undisturbed
    <3> QED BY <2>1, <2>3, <2>4, <3>1, <3>2, NextSafe DEF RecoveryInv
  <2> QED BY <2>1, <2>3, <2>4 DEF RecoveryInv, CacheInv
<1> QED BY <1>1, <1>2, PTL DEF Spec

(* With nothing pending and no step of an open or a close to come, whatever *)
(* a power cut leaves still gives every tile of the index.                  *)
LEMMA StoredSurvives ==
    ASSUME Kept, Safe, ~Unguarded, cache.open, cache.pending = 0
    PROVE  DOMAIN cache.index \subseteq Survivors(here)
<1>1. ~At("net", "load") /\ ~Holds(todo["net"], "close")
  <2>1. \A x \in {"load", "close"} : ~Holds(todo["net"], x)
    BY UnguardedNot DEF Safe, NetFlushes, Opening
  <2> QED BY <2>1, HoldsHead DEF Kept, CacheTyped, Tasks
<1>2. PICK m : StoredBy(m)
    BY <1>1 DEF Safe, Stored
<1>3. /\ here \in Builds /\ blob \in Files /\ synced[here] \in Files /\ card.idx[here] \in IdxFile
      /\ Len(synced[here]) =< Len(blob) /\ DOMAIN cache.index \subseteq Tiles
    BY CardIs, CacheIs, IndexIs DEF Kept, CacheTyped, Bounds, Control, Opened, here, blob, IndexMap
<1>4. /\ m \in Nat /\ m =< Len(synced[here]) /\ Formed(blob, m)
      /\ \A i \in 1 .. m : synced[here][i] = blob[i]
      /\ DOMAIN cache.index \subseteq Found(blob, m)
    BY <1>2 DEF StoredBy
<1>5. ASSUME NEW file \in AfterPowerCut(blob, synced[here])
      PROVE  Found(blob, m) \subseteq DOMAIN Recovered(file, card.idx[here])
  <2> DEFINE idx == card.idx[here]
             n == Len(synced[here])
  <2>1. /\ file \in Files /\ Len(file) = n
        /\ \A i \in 1 .. n : file[i] = blob[i] \/ file[i] = synced[here][i]
    BY <1>3, ImageIs
  <2>2. n \in Nat /\ m =< n /\ n =< Len(blob)
    BY <1>3, <1>4, FileIs
  <2>3. Complete(blob, idx)
    BY <1>3 DEF Safe, Whole, blob
  <2> HIDE DEF idx, n
  <2>4. CASE idx.len = Len(file)
    <3>1. DOMAIN idx.entries = Found(blob, n)
      BY <2>1, <2>2, <2>3, <2>4 DEF Complete
    <3>2. Found(blob, m) \subseteq Found(blob, n)
      BY <1>3, <1>4, <2>2, FoundMore
    <3> QED BY <2>4, <3>1, <3>2 DEF Recovered, IdxAccepted, idx
  <2>5. CASE idx.len # Len(file)
    <3>1. \A i \in 1 .. m : i \in 1 .. n
      BY <1>4, <2>2
    <3>2. \A i \in 1 .. m : file[i] = blob[i]
      BY <1>4, <2>1, <3>1
    <3>3. Found(blob, m) \subseteq DOMAIN Rescan(file)
      BY <1>3, <1>4, <2>1, <2>2, <3>2, FoundWithin
    <3> QED BY <2>5, <3>3 DEF Recovered, IdxAccepted, idx
  <2> QED BY <2>4, <2>5
<1> QED BY <1>3, <1>4, <1>5 DEF Survivors, blob

(* "Zero means a power cut right now would cost nothing at all"              *)
(* (tilecache.h:62-63): whenever nothing is pending and no open or close is *)
(* under way, every tile of the index would be found again, by its index    *)
(* file or by rescan, in whatever the power cut leaves of the blob.  As     *)
(* long as the card is sound and no flush has run beside an open or close.  *)
THEOREM ZeroPendingCostsNothing == Spec => []ZeroPendingIsSafeIfSound
<1>1. RecoveryInv => ZeroPendingIsSafeIfSound
  <2> SUFFICES ASSUME RecoveryInv, Sound, "overlap" \notin mishaps, ~Unguarded, cache.open, cache.pending = 0
               PROVE  DOMAIN cache.index \subseteq Survivors(cache.build)
      BY DEF ZeroPendingIsSafeIfSound, ZeroPendingIsSafe
  <2> QED BY StoredSurvives DEF RecoveryInv, CacheInv, Undisturbed, here
<1> QED BY <1>1, RecoveryHolds, PTL

(* When what was flushed is still as it was, a power cut leaves just that,  *)
(* and what is found in it is what rescan finds.                            *)
LEMMA SurvivorsAre ==
    ASSUME NEW file \in Files, NEW flushed \in Files, Len(flushed) =< Len(file),
           \A i \in 1 .. Len(flushed) : file[i] = flushed[i],
           NEW idx \in IdxFile, Complete(file, idx)
    PROVE  {t \in Tiles : \A f \in AfterPowerCut(file, flushed) : t \in DOMAIN Recovered(f, idx)}
               = DOMAIN Rescan(flushed)
<1>1. Len(flushed) \in Nat /\ Len(file) \in Nat
    BY FileIs
<1>2. DOMAIN flushed = 1 .. Len(flushed) /\ flushed = [i \in 1 .. Len(flushed) |-> flushed[i]]
    BY <1>1 DEF Files
<1>3. AfterPowerCut(file, flushed) = {flushed}
  <2>1. {i \in 1 .. Len(flushed) : file[i] # flushed[i]} = {}
    OBVIOUS
  <2>2. AfterPowerCut(file, flushed)
            = {[i \in 1 .. Len(flushed) |-> IF i \in kept THEN file[i] ELSE flushed[i]] : kept \in SUBSET {}}
    BY <2>1 DEF AfterPowerCut
  <2>3. \A kept \in SUBSET {} : [i \in 1 .. Len(flushed) |-> IF i \in kept THEN file[i] ELSE flushed[i]]
                                    = [i \in 1 .. Len(flushed) |-> flushed[i]]
    OBVIOUS
  <2>4. {} \in SUBSET {}
    OBVIOUS
  <2> QED BY <1>2, <2>2, <2>3, <2>4
<1>4. DOMAIN Recovered(flushed, idx) = DOMAIN Rescan(flushed)
  <2>1. CASE idx.len = Len(flushed)
    <3>1. DOMAIN idx.entries = Found(file, Len(flushed))
      BY <1>1, <2>1 DEF Complete
    <3>2. Found(file, Len(flushed)) = Found(flushed, Len(flushed))
      BY FoundSame
    <3>3. Found(flushed, Len(flushed)) = DOMAIN Rescan(flushed)
      BY FoundAll
    <3> QED BY <2>1, <3>1, <3>2, <3>3 DEF Recovered, IdxAccepted
  <2>2. CASE idx.len # Len(flushed)
    BY <2>2 DEF Recovered, IdxAccepted
  <2> QED BY <2>1, <2>2
<1>5. DOMAIN Rescan(flushed) \subseteq Tiles
  <2>1. Found(flushed, Len(flushed)) \subseteq Tiles
    BY <1>1, FoundRead
  <2> QED BY <2>1, FoundAll
<1> QED BY <1>3, <1>4, <1>5

(* What was flushed is only ever added to.                                  *)
LEMMA FlushedGrows ==
    ASSUME Kept, Kept', Untorn, "torn" \notin mishaps, Next, ~At("net", "dropBlob"), NEW b \in Builds
    PROVE  /\ Len(synced[b]) =< Len(synced'[b])
           /\ \A i \in 1 .. Len(synced[b]) : synced'[b][i] = synced[b][i]
<1>1. /\ CacheTyped /\ Bounds /\ Len(synced[b]) \in Nat /\ Len(card.blob[b]) \in Nat
      /\ Len(synced[b]) =< Len(card.blob[b])
      /\ \A i \in 1 .. Len(synced[b]) : card.blob[b][i] = synced[b][i]
    BY CardIs, FileIs DEF Kept, CacheTyped, Bounds, Untorn
<1>2. CASE synced'[b] \in {synced[b], card.blob[b]}
    BY <1>1, <1>2
<1>3. CASE CloseBlob \/ \E who \in Tasks : Sync(who)
  <2>1. synced' = [synced EXCEPT ![cache.build] = card.blob[cache.build]] \/ synced' = synced
    BY <1>3 DEF CloseBlob, Sync
  <2>2. synced'[b] \in {synced[b], card.blob[b]}
    BY <2>1, <1>1 DEF CacheTyped
  <2> QED BY <1>2, <2>2
<1>4. CASE PowerCut
  <2>1. card'.blob[b] \in AfterPowerCut(card.blob[b], synced[b]) /\ synced' = card'.blob
    BY <1>1, <1>4, PowerCutIs
  <2>2. synced'[b] \in AfterPowerCut(card.blob[b], synced[b])
    BY <2>1
  <2> QED BY <1>1, <2>2, CutSame
<1>5. CASE UNCHANGED synced
    BY <1>2, <1>5
<1>6. PowerCut \/ CloseBlob \/ (\E who \in Tasks : Sync(who)) \/ UNCHANGED synced
    BY DEF Next, Begin, Check, Begun, Refresh, OpenBlob, OpenFails, LoadIndex, DropBlob, DropIdx,
           ManifestSave, Put, PutFails, Flush, SaveBegins, SaveFails, SaveEnds, Release
<1> QED BY <1>3, <1>4, <1>5, <1>6

(* What has reached the card stays recoverable (tilecache.cpp:130-131): as   *)
(* long as no mishap happens no step costs a tile that a power cut before   *)
(* it would have left, dropping the blob apart; in particular rewriting the *)
(* index file, which is for a while neither the old one nor the new, does   *)
(* not, at whatever moment the power is cut.                                *)
THEOREM WhatSurvivesIsKept == Spec => SurvivorsKept
<1>1. RecoveryInv /\ RecoveryInv' /\ [Next]_vars =>
          [mishaps' = {} /\ ~At("net", "dropBlob") =>
               \A b \in Builds : Survivors(b) \subseteq Survivors(b)']_vars
  <2> SUFFICES ASSUME RecoveryInv, RecoveryInv', Next, mishaps' = {}, ~At("net", "dropBlob"), NEW b \in Builds
               PROVE  Survivors(b) \subseteq Survivors(b)'
      OBVIOUS
  <2>1. mishaps = {}
    BY MishapsKnown
  <2>2. Kept /\ Kept' /\ Sound /\ Sound' /\ Undisturbed /\ Undisturbed'
    BY <2>1 DEF RecoveryInv, CacheInv, Undisturbed, Sound
  <2>3. /\ Untorn /\ Untorn' /\ Complete(card.blob[b], card.idx[b]) /\ Complete(card'.blob[b], card'.idx[b])
    BY <2>2 DEF RecoveryInv, CacheInv, Right, Safe, Whole
  <2>4. /\ card.blob[b] \in Files /\ synced[b] \in Files /\ card.idx[b] \in IdxFile
        /\ Len(synced[b]) =< Len(card.blob[b])
        /\ card'.blob[b] \in Files /\ synced'[b] \in Files /\ card'.idx[b] \in IdxFile
        /\ Len(synced'[b]) =< Len(card'.blob[b])
    BY <2>2 DEF Kept, CacheTyped, Bounds, Cards
  <2>5. /\ \A i \in 1 .. Len(synced[b]) : card.blob[b][i] = synced[b][i]
        /\ \A i \in 1 .. Len(synced'[b]) : card'.blob[b][i] = synced'[b][i]
        /\ Formed(card.blob[b], Len(synced[b]))
    BY <2>1, <2>3 DEF Untorn
  <2>6. Survivors(b) = DOMAIN Rescan(synced[b])
    <3> DEFINE file == card.blob[b]
               flushed == synced[b]
               idx == card.idx[b]
    <3>1. /\ file \in Files /\ flushed \in Files /\ Len(flushed) =< Len(file)
          /\ \A i \in 1 .. Len(flushed) : file[i] = flushed[i]
          /\ idx \in IdxFile /\ Complete(file, idx)
      BY <2>3, <2>4, <2>5
    <3>2. Survivors(b)
              = {t \in Tiles : \A f \in AfterPowerCut(file, flushed) : t \in DOMAIN Recovered(f, idx)}
      BY DEF Survivors
    <3> HIDE DEF file, flushed, idx
    <3>3. {t \in Tiles : \A f \in AfterPowerCut(file, flushed) : t \in DOMAIN Recovered(f, idx)}
              = DOMAIN Rescan(flushed)
      BY <3>1, SurvivorsAre
    <3> QED BY <3>2, <3>3 DEF flushed
  <2>7. Survivors(b)' = DOMAIN Rescan(synced'[b])
    <3> DEFINE file == card'.blob[b]
               flushed == synced'[b]
               idx == card'.idx[b]
    <3>1. /\ file \in Files /\ flushed \in Files /\ Len(flushed) =< Len(file)
          /\ \A i \in 1 .. Len(flushed) : file[i] = flushed[i]
          /\ idx \in IdxFile /\ Complete(file, idx)
      BY <2>3, <2>4, <2>5
    <3>2. Survivors(b)'
              = {t \in Tiles : \A f \in AfterPowerCut(file, flushed) : t \in DOMAIN Recovered(f, idx)}
      BY DEF Survivors
    <3> HIDE DEF file, flushed, idx
    <3>3. {t \in Tiles : \A f \in AfterPowerCut(file, flushed) : t \in DOMAIN Recovered(f, idx)}
              = DOMAIN Rescan(flushed)
      BY <3>1, SurvivorsAre
    <3> QED BY <3>2, <3>3 DEF flushed
  <2>8. DOMAIN Rescan(synced[b]) \subseteq DOMAIN Rescan(synced'[b])
    <3> DEFINE old == synced[b]
               new == synced'[b]
    <3>1. Len(old) =< Len(new) /\ \A i \in 1 .. Len(old) : new[i] = old[i]
      BY <2>1, <2>2, <2>3, FlushedGrows
    <3>2. Len(old) \in Nat /\ Formed(old, Len(old)) /\ old \in Files
      <4>1. Len(old) \in Nat
        BY <2>4, FileIs
      <4>2. \A i \in 1 .. Len(old) : old[i] = card.blob[b][i]
        BY <2>5
      <4> HIDE DEF old
      <4>3. old \in Files /\ Formed(card.blob[b], Len(old))
        BY <2>4, <2>5 DEF old
      <4> QED BY <2>4, <4>1, <4>2, <4>3, FormedSame
    <3>3. Found(old, Len(old)) \subseteq DOMAIN Rescan(new)
      <4>1. new \in Files
        BY <2>4
      <4> HIDE DEF old, new
      <4> QED BY <3>1, <3>2, <4>1, FoundWithin
    <3> QED BY <2>4, <3>3, FoundAll
  <2> QED BY <2>6, <2>7, <2>8
<1> QED BY <1>1, RecoveryHolds, PTL DEF Spec, SurvivorsKept

=============================================================================
