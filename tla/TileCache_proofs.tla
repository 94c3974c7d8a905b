-------------------------- MODULE TileCache_proofs --------------------------
(***************************************************************************)
(* A hit of the tile cache is the tile that was asked for, for any set of   *)
(* tiles and any sizes.  The proof follows the two lists of steps through   *)
(* every order they can be taken in, and keeps three things together: the   *)
(* blobs are whole records, the index in memory is right about the blob     *)
(* that is open, and an index file, whole or half written, claims nothing   *)
(* wrong of the blob it would be accepted for.                              *)
(***************************************************************************)
EXTENDS TileCache, FiniteSetTheorems, SequenceTheorems, TLAPS

-----------------------------------------------------------------------------
(***************************************************************************)
(* Counting.  A set of numbers that has 0 and with each number its          *)
(* successor has them all: otherwise taking the successor would be an       *)
(* injection of a finite set into a smaller one.                            *)
(***************************************************************************)
LEMMA CountingUp ==
    ASSUME NEW N \in Nat, NEW S \in SUBSET (0 .. N), 0 \in S, \A n \in S : n < N => n + 1 \in S
    PROVE  N \in S
<1> SUFFICES ASSUME N \notin S PROVE FALSE
    OBVIOUS
<1> DEFINE T == S \ {0}
           f == [n \in S |-> n + 1]
<1>1. IsFiniteSet(S)
  <2>1. IsFiniteSet(0 .. N)
    BY FS_Interval
  <2> QED BY <2>1, FS_Subset
<1>2. IsFiniteSet(T) /\ Cardinality(T) = Cardinality(S) - 1 /\ Cardinality(S) \in Nat
    BY <1>1, FS_RemoveElement, FS_CardinalityType
<1>3. \A n \in S : n \in Int /\ n < N /\ n >= 0
    OBVIOUS
<1>4. f \in [S -> T]
    BY <1>3
<1>5. \A m, n \in S : f[m] = f[n] => m = n
    BY <1>3
<1>6. PICK m, n \in S : m # n /\ f[m] = f[n]
  <2>1. Cardinality(T) < Cardinality(S)
    BY <1>2
  <2> HIDE DEF f, T
  <2> QED BY <1>1, <1>2, <1>4, <2>1, FS_PigeonHole
<1> QED BY <1>5, <1>6

LEMMA MaxIs ==
    ASSUME NEW N \in Nat, NEW S \in SUBSET (0 .. N), S # {}
    PROVE  Max(S) \in S /\ \A n \in S : Max(S) >= n
<1>1. \E m \in S : \A n \in S : m >= n
  <2> SUFFICES ASSUME \A m \in S : \E n \in S : n > m PROVE FALSE
    <3>1. \A m, n \in S : ~(m >= n) <=> n > m
      OBVIOUS
    <3> QED BY <3>1
  <2> DEFINE U == {k \in 0 .. N : \E m \in S : m >= k}
  <2>1. 0 \in U
    <3>1. PICK m \in S : TRUE
      OBVIOUS
    <3>2. m >= 0 /\ 0 \in 0 .. N
      OBVIOUS
    <3> QED BY <3>2
  <2>2. ASSUME NEW k \in U, k < N PROVE k + 1 \in U
    <3>1. PICK m \in S : m >= k
      OBVIOUS
    <3>2. PICK n \in S : n > m
      OBVIOUS
    <3>3. n >= k + 1 /\ k + 1 \in 0 .. N
      BY <3>1, <3>2, <2>2
    <3> QED BY <3>3
  <2>3. N \in U
    <3>1. U \in SUBSET (0 .. N)
      OBVIOUS
    <3> HIDE DEF U
    <3> QED BY <3>1, <2>1, <2>2, CountingUp
  <2>4. PICK m \in S : m >= N
    BY <2>3
  <2>5. PICK n \in S : n > m
    OBVIOUS
  <2> QED BY <2>4, <2>5
<1> QED BY <1>1 DEF Max

-----------------------------------------------------------------------------
(***************************************************************************)
(* What rescan finds                                                        *)
(***************************************************************************)
Files == Seq(Cell)
RecordOf(file, p) == [tile |-> file[p + 1].tile, off |-> p + 1]

LEMMA FileIs ==
    ASSUME NEW file \in Files
    PROVE  /\ Len(file) \in Nat /\ DOMAIN file = 1 .. Len(file)
           /\ \A i \in 1 .. Len(file) : file[i] \in Cell /\ file[i].tile \in Tiles
                                        /\ file[i].part \in Nat
<1>1. Len(file) \in Nat /\ DOMAIN file = 1 .. Len(file)
    BY LenProperties DEF Files
<1>2. ASSUME NEW i \in 1 .. Len(file) PROVE file[i] \in Cell
    BY <1>2, ElementOfSeq DEF Files
<1>3. \A c \in Cell : c.tile \in Tiles /\ c.part \in Nat
    BY DEF Cell
<1> QED BY <1>1, <1>2, <1>3

LEMMA SizeIs == \A t \in Tiles : PayloadSize[t] \in Nat
BY CacheAssumption

LEMMA RecordAtIs ==
    ASSUME NEW file \in Files, NEW p \in 0 .. Len(file), RecordAt(file, p)
    PROVE  /\ p \in Nat /\ p < Len(file) /\ p + 1 \in 1 .. Len(file)
           /\ RecordEnd(file, p) \in Nat /\ RecordEnd(file, p) \in p + 1 .. Len(file)
           /\ file[p + 1].tile \in Tiles
<1>1. p \in Nat /\ p + 1 \in 1 .. Len(file) /\ p < Len(file)
    BY FileIs DEF RecordAt
<1>2. file[p + 1].tile \in Tiles
    BY <1>1, FileIs
<1>3. PayloadSize[file[p + 1].tile] \in Nat
    BY <1>2, SizeIs
<1> QED BY <1>1, <1>2, <1>3, FileIs DEF RecordAt, RecordEnd

(* The function the walk is defined by exists, and so is what it says.      *)
LEMMA RecordsDef ==
    ASSUME NEW file \in Files
    PROVE  RecordsFrom(file) =
             [p \in 0 .. Len(file) |->
                IF RecordAt(file, p) THEN <<RecordOf(file, p)>> \o RecordsFrom(file)[RecordEnd(file, p)] ELSE <<>>]
<1> DEFINE F(r) == [p \in 0 .. Len(file) |->
                IF RecordAt(file, p) THEN <<RecordOf(file, p)>> \o r[RecordEnd(file, p)] ELSE <<>>]
<1>1. \E r : r = F(r)
  <2> DEFINE N == Len(file)
             Solves(r, k) == \A p \in N - k .. N : r[p] = F(r)[p]
             S == {k \in 0 .. N : \E r : DOMAIN r = 0 .. N /\ r = [p \in 0 .. N |-> r[p]] /\ Solves(r, k)}
  <2>n. N \in Nat
    BY FileIs
  <2>1. 0 \in S
    <3> DEFINE r == [p \in 0 .. N |-> <<>>]
    <3>1. \A p \in N - 0 .. N : p = N /\ ~RecordAt(file, p)
      BY <2>n DEF RecordAt
    <3>2. Solves(r, 0)
      BY <2>n, <3>1
    <3>3. r = [p \in 0 .. N |-> r[p]] /\ DOMAIN r = 0 .. N
      OBVIOUS
    <3> HIDE DEF r, Solves
    <3> QED BY <2>n, <3>2, <3>3
  <2>2. ASSUME NEW k \in S, k < N PROVE k + 1 \in S
    <3>0. k \in 0 .. N /\ k \in Int
      OBVIOUS
    <3>1. PICK r : DOMAIN r = 0 .. N /\ r = [p \in 0 .. N |-> r[p]] /\ Solves(r, k)
      OBVIOUS
    <3> DEFINE q == N - (k + 1)
               g == [p \in 0 .. N |-> IF p = q THEN F(r)[q] ELSE r[p]]
    <3>2. q \in 0 .. N /\ q < N - k
      BY <3>0, <2>n, <2>2
    <3>3. ASSUME NEW p \in q .. N, RecordAt(file, p) PROVE RecordEnd(file, p) \in N - k .. N
      <4>1. p \in 0 .. Len(file)
        BY <3>2, <3>3, <2>n
      <4> QED BY <4>1, <3>2, <3>3, <3>0, <2>n, RecordAtIs
    <3>4. ASSUME NEW p \in q .. N PROVE g[p] = F(g)[p]
      <4>0. p \in 0 .. N
        BY <3>2, <2>n
      <4>1. F(g)[p] = F(r)[p]
        <5>1. CASE RecordAt(file, p)
          <6>1. RecordEnd(file, p) \in 0 .. N /\ RecordEnd(file, p) # q
            BY <3>3, <5>1, <3>2, <2>n, <3>0
          <6>2. g[RecordEnd(file, p)] = r[RecordEnd(file, p)]
            BY <6>1
          <6> HIDE DEF g
          <6> QED BY <5>1, <6>2, <4>0
        <5>2. CASE ~RecordAt(file, p)
          BY <5>2, <4>0
        <5> QED BY <5>1, <5>2
      <4>2. CASE p = q
        BY <4>0, <4>1, <4>2
      <4>3. CASE p # q
        <5>1. p \in N - k .. N
          BY <4>3, <3>2, <3>0, <2>n
        <5>2. r[p] = F(r)[p]
          BY <5>1, <3>1
        <5>3. g[p] = r[p]
          BY <4>0, <4>3
        <5> QED BY <5>2, <5>3, <4>1
      <4> QED BY <4>2, <4>3
    <3>5. Solves(g, k + 1)
      BY <3>4
    <3>6. g = [p \in 0 .. N |-> g[p]] /\ DOMAIN g = 0 .. N
      OBVIOUS
    <3> HIDE DEF g, Solves, F
    <3>7. k + 1 \in 0 .. N
      BY <3>0, <2>n, <2>2
    <3> QED BY <3>5, <3>6, <3>7
  <2>3. N \in S
    <3> HIDE DEF S
    <3>1. S \subseteq 0 .. N
      BY DEF S
    <3> QED BY <3>1, <2>1, <2>2, <2>n, CountingUp
  <2>4. PICK r : DOMAIN r = 0 .. N /\ r = [p \in 0 .. N |-> r[p]] /\ Solves(r, N)
    BY <2>3
  <2>5. \A p \in 0 .. N : r[p] = F(r)[p]
    <3>1. N - N = 0
      BY <2>n
    <3>2. \A p \in N - N .. N : r[p] = F(r)[p]
      BY <2>4
    <3> HIDE DEF F, N
    <3> QED BY <3>1, <3>2
  <2>6. r = F(r)
    BY <2>4, <2>5
  <2> QED BY <2>6
<1>2. RecordsFrom(file) = CHOOSE r : r = F(r)
  BY DEF RecordsFrom, RecordOf
<1> HIDE DEF F
<1>3. RecordsFrom(file) = F(RecordsFrom(file))
  BY <1>1, <1>2
<1> QED BY <1>3 DEF F

(* Whatever holds of the records that begin in some places from which the   *)
(* walk leads only to such places, holds of all it finds from one of them.  *)
LEMMA RecordsAreIn ==
    ASSUME NEW file \in Files, NEW R, NEW Q \in SUBSET (0 .. Len(file)),
           \A q \in Q : RecordAt(file, q) => RecordOf(file, q) \in R /\ RecordEnd(file, q) \in Q
    PROVE  \A q \in Q : RecordsFrom(file)[q] \in Seq(R)
<1> DEFINE N == Len(file)
           records == RecordsFrom(file)
           S == {k \in 0 .. N : \A q \in Q : q >= N - k => records[q] \in Seq(R)}
<1>n. N \in Nat /\ \A q \in Q : q \in 0 .. N /\ q \in Int
    BY FileIs
<1>1. \A q \in Q : records[q] = IF RecordAt(file, q)
                                THEN <<RecordOf(file, q)>> \o records[RecordEnd(file, q)] ELSE <<>>
    BY RecordsDef
<1> HIDE DEF records
<1>2. <<>> \in Seq(R)
    BY EmptySeq
<1>3. 0 \in S
  <2>1. ASSUME NEW q \in Q, q >= N - 0 PROVE records[q] \in Seq(R)
    <3>1. q = N
      BY <2>1, <1>n
    <3>2. ~RecordAt(file, q)
      BY <3>1, <1>n DEF RecordAt
    <3> QED BY <3>2, <1>1, <1>2
  <2> QED BY <2>1, <1>n
<1>4. ASSUME NEW k \in S, k < N PROVE k + 1 \in S
  <2>1. ASSUME NEW q \in Q, q >= N - (k + 1) PROVE records[q] \in Seq(R)
    <3>1. CASE ~RecordAt(file, q)
      BY <3>1, <1>1, <1>2
    <3>2. CASE RecordAt(file, q)
      <4>1. RecordEnd(file, q) \in Q /\ RecordEnd(file, q) >= q + 1 /\ RecordOf(file, q) \in R
        BY <3>2, <1>n, RecordAtIs
      <4>2. RecordEnd(file, q) >= N - k
        <5>0. k \in 0 .. N
          OBVIOUS
        <5> HIDE DEF N, S, RecordOf
        <5>1. k \in Int
          BY <5>0, <1>n
        <5>2. RecordEnd(file, q) \in Int
          BY <4>1, <1>n
        <5>3. q \in Int
          BY <2>1, <1>n
        <5> QED BY <5>1, <5>2, <5>3, <4>1, <2>1, <1>n
      <4>3. records[RecordEnd(file, q)] \in Seq(R)
        BY <4>1, <4>2
      <4>4. <<RecordOf(file, q)>> \in Seq(R)
        BY <4>1
      <4> HIDE DEF RecordOf
      <4>5. <<RecordOf(file, q)>> \o records[RecordEnd(file, q)] \in Seq(R)
        BY <4>3, <4>4, ConcatProperties
      <4> QED BY <3>2, <4>5, <1>1
    <3> QED BY <3>1, <3>2
  <2>2. k + 1 \in 0 .. N
    BY <1>n, <1>4
  <2> QED BY <2>1, <2>2
<1>5. N \in S
  <2>1. S \in SUBSET (0 .. N)
    OBVIOUS
  <2> HIDE DEF S
  <2> QED BY <2>1, <1>3, <1>4, <1>n, CountingUp
<1>6. ASSUME NEW q \in Q PROVE records[q] \in Seq(R)
  <2>1. q >= N - N
    BY <1>n
  <2> QED BY <1>5, <2>1
<1> QED BY <1>6 DEF records

IndexMap(index) == DOMAIN index \subseteq Tiles /\ index \in [DOMAIN index -> 0 .. MAX_CELLS]

LEMMA IndexIs == \A index : index \in Index <=> IndexMap(index)
BY DEF Index, IndexMap

Fits(index) == Cardinality(DOMAIN index) =< MAX_ENTRIES

LEMMA SomeTilesFinite ==
    ASSUME NEW S \in SUBSET Tiles PROVE IsFiniteSet(S) /\ Cardinality(S) \in Nat
BY CacheAssumption, FS_Subset, FS_CardinalityType

(* Every entry of an index rescan makes is a record the walk found, and     *)
(* there are no more than the index has room for.                           *)
LEMMA RescanIs ==
    ASSUME NEW file \in Files, Walk(file) \in Seq([tile : Tiles, off : Nat])
    PROVE  /\ DOMAIN Rescan(file) \subseteq Tiles
           /\ \A t \in DOMAIN Rescan(file) :
                \E i \in 1 .. Len(Walk(file)) :
                    Walk(file)[i].tile = t /\ Rescan(file)[t] = Walk(file)[i].off
           /\ Fits(Rescan(file))
           /\ Walk(file) # <<>> => Rescan(file) # NoEntries
<1> DEFINE W == Walk(file)
           n == Len(W)
           Seen(i) == {W[j].tile : j \in 1 .. i}
           read == {i \in DOMAIN W : Cardinality({W[j].tile : j \in 1 .. i - 1}) < MAX_ENTRIES}
           D == {W[i].tile : i \in read}
           of(t) == {i \in read : W[i].tile = t}
           index == [t \in D |-> W[Max(of(t))].off]
<1>1. Rescan(file) = index
    BY DEF Rescan
<1>2. n \in Nat /\ DOMAIN W = 1 .. n /\ \A i \in 1 .. n : W[i] \in [tile : Tiles, off : Nat]
    BY LenProperties, ElementOfSeq
<1> HIDE DEF W
<1>3. \A i \in 1 .. n : W[i].tile \in Tiles
    BY <1>2
<1>4. read \in SUBSET (0 .. n) /\ \A i \in read : i \in 1 .. n
    BY <1>2
<1>5. D \subseteq Tiles /\ DOMAIN index = D
    BY <1>3, <1>4
<1>6. ASSUME NEW t \in D
      PROVE  \E i \in 1 .. n : W[i].tile = t /\ index[t] = W[i].off
  <2>1. of(t) \in SUBSET (0 .. n) /\ of(t) # {}
    BY <1>4
  <2>2. Max(of(t)) \in of(t)
    <3> HIDE DEF of
    <3> QED BY <2>1, <1>2, MaxIs
  <2>3. Max(of(t)) \in 1 .. n /\ W[Max(of(t))].tile = t
    BY <2>2, <1>4
  <2> QED BY <2>3
<1>7. Cardinality(D) =< MAX_ENTRIES
  <2>1. CASE read = {}
    <3>1. D = {}
      BY <2>1
    <3> HIDE DEF D
    <3>2. Cardinality(D) = 0
      BY <3>1, FS_EmptySet
    <3> QED BY <3>2, CacheAssumption
  <2>2. CASE read # {}
    <3> DEFINE m == Max(read)
               S == {W[j].tile : j \in 1 .. m - 1}
    <3>1. m \in read /\ \A i \in read : m >= i
      <4> HIDE DEF read
      <4> QED BY <1>4, <1>2, <2>2, MaxIs
    <3>2. m \in 1 .. n /\ Cardinality(S) < MAX_ENTRIES
      BY <3>1, <1>4
    <3> HIDE DEF m
    <3>3. S \subseteq Tiles
      BY <3>2, <1>3
    <3>4. D \subseteq S \cup {W[m].tile}
      <4>1. ASSUME NEW i \in read PROVE W[i].tile \in S \cup {W[m].tile}
        <5>1. i \in 1 .. n /\ m >= i
          BY <3>1, <1>4
        <5>2. i = m \/ i \in 1 .. m - 1
          BY <5>1, <3>2, <1>2
        <5> QED BY <5>2
      <4> QED BY <4>1
    <3> DEFINE x == W[m].tile
    <3> HIDE DEF S, D, x
    <3>5. IsFiniteSet(S) /\ Cardinality(S) \in Nat
      BY <3>3, SomeTilesFinite
    <3>6. IsFiniteSet(S \cup {x}) /\ Cardinality(S \cup {x}) =< Cardinality(S) + 1
      <4>1. /\ IsFiniteSet(S \cup {x})
            /\ Cardinality(S \cup {x}) = IF x \in S THEN Cardinality(S) ELSE Cardinality(S) + 1
        BY <3>5, FS_AddElement
      <4> QED BY <4>1, <3>5
    <3>7. Cardinality(D) =< Cardinality(S \cup {x})
      <4>1. D \in SUBSET (S \cup {x})
        BY <3>4 DEF x
      <4> QED BY <4>1, <3>6, FS_Subset
    <3>8. Cardinality(D) \in Nat /\ Cardinality(S \cup {x}) \in Nat
      BY <1>5, <3>6, SomeTilesFinite, FS_CardinalityType
    <3> QED BY <3>2, <3>5, <3>6, <3>7, <3>8, CacheAssumption
  <2> QED BY <2>1, <2>2
<1>8. ASSUME W # <<>> PROVE index # NoEntries
  <2>1. 1 \in 1 .. n
    BY <1>8, <1>2, EmptySeq DEF W
  <2>2. {W[j].tile : j \in 1 .. 1 - 1} = {}
    OBVIOUS
  <2>3. Cardinality({W[j].tile : j \in 1 .. 1 - 1}) < MAX_ENTRIES
    <3>1. Cardinality({W[j].tile : j \in 1 .. 1 - 1}) = 0
      BY <2>2, FS_EmptySet
    <3> QED BY <3>1, CacheAssumption
  <2>4. 1 \in read
    BY <2>1, <2>3, <1>2
  <2>5. W[1].tile \in DOMAIN index
    BY <2>4
  <2>6. DOMAIN NoEntries = {}
    BY DEF NoEntries
  <2> QED BY <2>5, <2>6
<1> HIDE DEF index
<1> QED BY <1>1, <1>5, <1>6, <1>7, <1>8 DEF W, Fits

(* Of any file at all the walk finds records within it.                     *)
LEMMA RescanTyped ==
    ASSUME NEW file \in Files, Len(file) =< MAX_CELLS
    PROVE  Rescan(file) \in Index /\ Fits(Rescan(file))
<1> DEFINE R == [tile : Tiles, off : 1 .. Len(file)]
<1>1. \A q \in 0 .. Len(file) : RecordAt(file, q) =>
          RecordOf(file, q) \in R /\ RecordEnd(file, q) \in 0 .. Len(file)
  <2> SUFFICES ASSUME NEW q \in 0 .. Len(file), RecordAt(file, q)
               PROVE RecordOf(file, q) \in R /\ RecordEnd(file, q) \in 0 .. Len(file)
      OBVIOUS
  <2>1. /\ q + 1 \in 1 .. Len(file) /\ file[q + 1].tile \in Tiles
        /\ RecordEnd(file, q) \in q + 1 .. Len(file)
    BY RecordAtIs
  <2> QED BY <2>1, FileIs DEF RecordOf
<1>2. Walk(file) \in Seq(R)
  <2>1. 0 \in 0 .. Len(file)
    BY FileIs
  <2> HIDE DEF R
  <2> QED BY <1>1, <2>1, RecordsAreIn DEF Walk
<1>3. Walk(file) \in Seq([tile : Tiles, off : Nat])
  <2>1. R \subseteq [tile : Tiles, off : Nat]
    OBVIOUS
  <2> HIDE DEF R
  <2> QED BY <1>2, <2>1, SeqMonotonic
<1>4. \A i \in 1 .. Len(Walk(file)) : Walk(file)[i].off \in 0 .. MAX_CELLS
  <2>1. \A i \in 1 .. Len(Walk(file)) : Walk(file)[i] \in R
    BY <1>2, ElementOfSeq
  <2> QED BY <2>1, FileIs, CacheAssumption
<1>5. DOMAIN Rescan(file) \subseteq Tiles /\ Fits(Rescan(file))
      /\ \A t \in DOMAIN Rescan(file) : Rescan(file)[t] \in 0 .. MAX_CELLS
    BY <1>3, <1>4, RescanIs
<1>6. Rescan(file) = [t \in DOMAIN Rescan(file) |-> Rescan(file)[t]]
    BY DEF Rescan
<1> QED BY <1>5, <1>6, IndexIs DEF IndexMap

-----------------------------------------------------------------------------
(***************************************************************************)
(* The plans of the tasks: what may come after a step, and what ends one.   *)
(***************************************************************************)
Saving == {"save", "write"}
Follows ==
    {<<"open", "load">>, <<"load", "check">>, <<"load", "begun">>, <<"load", "manifest">>,
     <<"check", "begun">>, <<"sync", "save">>,
     <<"close", "dropBlob">>, <<"dropBlob", "dropIdx">>, <<"dropIdx", "open">>}
        \cup (Saving \X {"check", "begun", "manifest", "close", "release"})
Lasts == {"begun", "manifest", "release"}
Lists == Seq(Steps)

Linked(a) == \A i \in 1 .. Len(a) - 1 : <<a[i], a[i + 1]>> \in Follows
Planned(a) == a \in Lists /\ Linked(a) /\ (a # <<>> => a[Len(a)] \in Lasts)
Holds(a, x) == \E i \in 1 .. Len(a) : a[i] = x

LEMMA ListIs ==
    ASSUME NEW a \in Lists
    PROVE  /\ Len(a) \in Nat /\ (a = <<>> <=> Len(a) = 0)
           /\ \A i \in 1 .. Len(a) : a[i] \in Steps
           /\ a # <<>> => Head(a) = a[1] /\ 1 \in 1 .. Len(a) /\ Len(a) \in 1 .. Len(a)
BY LenProperties, EmptySeq, ElementOfSeq, HeadTailProperties DEF Lists

LEMMA ListTail ==
    ASSUME NEW a \in Lists, a # <<>>
    PROVE  /\ Tail(a) \in Lists /\ Len(Tail(a)) = Len(a) - 1
           /\ \A i \in 1 .. Len(a) - 1 : Tail(a)[i] = a[i + 1]
BY HeadTailProperties DEF Lists

LEMMA ListConcat ==
    ASSUME NEW a \in Lists, NEW b \in Lists
    PROVE  /\ a \o b \in Lists /\ Len(a \o b) = Len(a) + Len(b)
           /\ \A i \in 1 .. Len(a) + Len(b) :
                (a \o b)[i] = IF i =< Len(a) THEN a[i] ELSE b[i - Len(a)]
BY ConcatProperties DEF Lists

(* What is left of a plan after its first step. *)
LEMMA PlanTail ==
    ASSUME NEW a, Planned(a), a # <<>>
    PROVE  /\ Planned(Tail(a)) /\ Head(a) \in Steps
           /\ \A x : Holds(a, x) <=> x = Head(a) \/ Holds(Tail(a), x)
           /\ Tail(a) # <<>> => <<Head(a), Head(Tail(a))>> \in Follows
           /\ Tail(a) = <<>> => Head(a) \in Lasts
<1> DEFINE b == Tail(a)
           n == Len(a)
<1>1. /\ a \in Lists /\ n \in Nat /\ n > 0 /\ Head(a) = a[1] /\ a[1] \in Steps
      /\ \A i \in 1 .. n - 1 : <<a[i], a[i + 1]>> \in Follows
      /\ a[n] \in Lasts
    BY ListIs DEF Planned, Linked
<1>2. /\ b \in Lists /\ Len(b) = n - 1 /\ \A i \in 1 .. n - 1 : b[i] = a[i + 1]
      /\ (b = <<>> <=> n - 1 = 0) /\ (b # <<>> => Head(b) = b[1])
    BY <1>1, ListTail, ListIs
<1> HIDE DEF b, n
<1>3. ASSUME NEW i \in 1 .. Len(b) - 1 PROVE <<b[i], b[i + 1]>> \in Follows
  <2>1. i + 1 \in 1 .. n - 1 /\ i \in 1 .. n - 1
    BY <1>1, <1>2
  <2>2. b[i] = a[i + 1] /\ b[i + 1] = a[(i + 1) + 1]
    BY <1>2, <2>1
  <2> QED BY <1>1, <2>1, <2>2
<1>4. b # <<>> => b[Len(b)] \in Lasts
  <2> SUFFICES ASSUME b # <<>> PROVE b[Len(b)] \in Lasts
      OBVIOUS
  <2>1. n - 1 \in 1 .. n - 1 /\ (n - 1) + 1 = n
    BY <1>1, <1>2
  <2>2. b[n - 1] = a[n]
    BY <2>1, <1>2
  <2> QED BY <2>2, <1>1, <1>2
<1>5. ASSUME NEW i \in 1 .. Len(b) PROVE \E j \in 1 .. n : a[j] = b[i]
  <2>1. i + 1 \in 1 .. n /\ i \in 1 .. n - 1
    BY <1>1, <1>2
  <2> QED BY <1>2, <2>1
<1>6. \A x : Holds(a, x) <=> x = a[1] \/ Holds(b, x)
  <2>1. \A x : Holds(b, x) => Holds(a, x)
    BY <1>5 DEF Holds, n
  <2>2. Holds(a, a[1])
    <3>1. 1 \in 1 .. n
      BY <1>1
    <3> QED BY <3>1 DEF Holds, n
  <2>3. ASSUME NEW i \in 1 .. n PROVE a[i] = a[1] \/ Holds(b, a[i])
    <3>1. CASE i = 1
      BY <3>1
    <3>2. CASE i # 1
      <4>1. i - 1 \in 1 .. n - 1 /\ (i - 1) + 1 = i
        BY <3>2, <1>1
      <4>2. b[i - 1] = a[i] /\ i - 1 \in 1 .. Len(b)
        BY <4>1, <1>2
      <4> QED BY <4>2 DEF Holds
    <3> QED BY <3>1, <3>2
  <2>4. \A x : Holds(a, x) => x = a[1] \/ Holds(b, x)
    BY <2>3 DEF Holds, n
  <2> QED BY <2>1, <2>2, <2>4
<1>7. b # <<>> => <<a[1], b[1]>> \in Follows
  <2> SUFFICES ASSUME b # <<>> PROVE <<a[1], b[1]>> \in Follows
      OBVIOUS
  <2>1. 1 \in 1 .. n - 1 /\ b[1] = a[1 + 1]
    BY <1>1, <1>2
  <2> QED BY <1>1, <2>1
<1>8. b = <<>> => a[1] \in Lasts
  <2>1. b = <<>> => n = 1
    BY <1>1, <1>2
  <2> QED BY <2>1, <1>1
<1> QED BY <1>1, <1>2, <1>3, <1>4, <1>6, <1>7, <1>8 DEF b, Planned, Linked

(* What may be put before a plan. *)
LEMMA PlanConcat ==
    ASSUME NEW a \in Lists, a # <<>>, Linked(a), NEW b, Planned(b), b # <<>>,
           <<a[Len(a)], Head(b)>> \in Follows
    PROVE  /\ Planned(a \o b) /\ a \o b # <<>> /\ Head(a \o b) = a[1]
           /\ \A x : Holds(a \o b, x) <=> Holds(a, x) \/ Holds(b, x)
<1> DEFINE c == a \o b
           m == Len(a)
           n == Len(b)
<1>1. /\ m \in Nat /\ m > 0 /\ n \in Nat /\ n > 0 /\ b \in Lists /\ Head(b) = b[1]
      /\ \A i \in 1 .. m - 1 : <<a[i], a[i + 1]>> \in Follows
      /\ \A i \in 1 .. n - 1 : <<b[i], b[i + 1]>> \in Follows
      /\ b[n] \in Lasts /\ <<a[m], b[1]>> \in Follows
    BY ListIs DEF Planned, Linked
<1>2. /\ c \in Lists /\ Len(c) = m + n
      /\ \A i \in 1 .. m + n : c[i] = IF i =< m THEN a[i] ELSE b[i - m]
    BY <1>1, ListConcat
<1>3. c # <<>> /\ Head(c) = c[1]
    BY <1>1, <1>2, ListIs
<1> HIDE DEF c, m, n
<1>4. c[1] = a[1]
    BY <1>1, <1>2
<1>5. ASSUME NEW i \in 1 .. Len(c) - 1 PROVE <<c[i], c[i + 1]>> \in Follows
  <2>0. i \in 1 .. m + n /\ i + 1 \in 1 .. m + n
    BY <1>1, <1>2
  <2>1. CASE i < m
    <3>1. i \in 1 .. m - 1 /\ i =< m /\ i + 1 =< m
      BY <1>1, <2>1
    <3> QED BY <1>1, <1>2, <2>0, <3>1
  <2>2. CASE i = m
    <3>1. c[i] = a[m] /\ c[i + 1] = b[1]
      BY <1>1, <1>2, <2>0, <2>2
    <3> QED BY <1>1, <3>1
  <2>3. CASE i > m
    <3>1. i - m \in 1 .. n - 1 /\ (i + 1) - m = (i - m) + 1
      BY <1>1, <1>2, <2>3
    <3>2. c[i] = b[i - m] /\ c[i + 1] = b[(i - m) + 1]
      BY <1>1, <1>2, <2>0, <2>3, <3>1
    <3> QED BY <1>1, <3>1, <3>2
  <2> QED BY <1>1, <2>1, <2>2, <2>3
<1>6. c[Len(c)] \in Lasts
  <2>1. m + n \in 1 .. m + n /\ ~(m + n =< m) /\ (m + n) - m = n
    BY <1>1
  <2> QED BY <1>1, <1>2, <2>1
<1>7. ASSUME NEW x PROVE Holds(c, x) <=> Holds(a, x) \/ Holds(b, x)
  <2>1. ASSUME NEW i \in 1 .. m PROVE c[i] = a[i] /\ i \in 1 .. m + n
    BY <1>1, <1>2
  <2>2. ASSUME NEW i \in 1 .. n PROVE c[i + m] = b[i] /\ i + m \in 1 .. m + n
    <3>1. i + m \in 1 .. m + n /\ ~(i + m =< m) /\ (i + m) - m = i
      BY <1>1
    <3> QED BY <1>2, <3>1
  <2>3. ASSUME NEW i \in 1 .. m + n
        PROVE  (i \in 1 .. m /\ c[i] = a[i]) \/ (i - m \in 1 .. n /\ c[i] = b[i - m])
    BY <1>1, <1>2
  <2>4. Holds(c, x) => Holds(a, x) \/ Holds(b, x)
    BY <2>3, <1>2 DEF Holds, m, n
  <2>5. Holds(a, x) => Holds(c, x)
    BY <2>1, <1>2 DEF Holds, m
  <2>6. Holds(b, x) => Holds(c, x)
    BY <2>2, <1>2 DEF Holds, n
  <2> QED BY <2>4, <2>5, <2>6
<1> QED BY <1>2, <1>3, <1>4, <1>5, <1>6, <1>7 DEF c, Planned, Linked

LEMMA NoSteps ==
    ASSUME NEW a \in Lists PROVE <<>> \o a = a
BY ConcatEmptySeq DEF Lists

LEMMA NothingPlanned == Planned(<<>>) /\ \A x : ~Holds(<<>>, x)
<1>1. <<>> \in Lists /\ Len(<<>>) = 0
    BY EmptySeq DEF Lists
<1> QED BY <1>1 DEF Planned, Linked, Holds

(* The lists the code begins with. *)
LEMMA OneStep ==
    ASSUME NEW x \in Steps
    PROVE  /\ <<x>> \in Lists /\ <<x>> # <<>> /\ Linked(<<x>>) /\ Len(<<x>>) = 1 /\ <<x>>[1] = x
           /\ Head(<<x>>) = x /\ \A y : Holds(<<x>>, y) <=> y = x
<1>1. <<x>> \in Lists /\ <<x>> # <<>> /\ Len(<<x>>) = 1 /\ <<x>>[1] = x /\ Head(<<x>>) = x
    BY DEF Lists
<1>2. \A i \in 1 .. 1 : i = 1
    OBVIOUS
<1>3. \A i \in 1 .. 1 - 1 : FALSE
    OBVIOUS
<1> QED BY <1>1, <1>2, <1>3 DEF Linked, Holds

LEMMA TwoSteps ==
    ASSUME NEW x \in Steps, NEW y \in Steps, <<x, y>> \in Follows
    PROVE  /\ <<x, y>> \in Lists /\ <<x, y>> # <<>> /\ Linked(<<x, y>>) /\ Len(<<x, y>>) = 2
           /\ <<x, y>>[1] = x /\ <<x, y>>[2] = y
           /\ \A z : Holds(<<x, y>>, z) <=> z \in {x, y}
<1>1. /\ <<x, y>> \in Lists /\ <<x, y>> # <<>> /\ Len(<<x, y>>) = 2
      /\ <<x, y>>[1] = x /\ <<x, y>>[2] = y
    BY DEF Lists
<1>2. \A i \in 1 .. 2 : i = 1 \/ i = 2
    OBVIOUS
<1>3. \A i \in 1 .. 2 - 1 : i = 1 /\ i + 1 = 2
    OBVIOUS
<1>4. 1 \in 1 .. 2 /\ 2 \in 1 .. 2
    OBVIOUS
<1>5. \A z : Holds(<<x, y>>, z) <=> z \in {x, y}
    BY <1>1, <1>2, <1>4 DEF Holds
<1>6. Linked(<<x, y>>)
    BY <1>1, <1>3 DEF Linked
<1> QED BY <1>1, <1>5, <1>6
(* A close comes first or right after a save.                               *)
LEMMA NoClose ==
    ASSUME NEW a, Planned(a), a # <<>>, Head(a) \notin {"sync", "save", "write"}
    PROVE  ~Holds(Tail(a), "close")
<1> DEFINE n == Len(a)
<1>1. /\ a \in Lists /\ n \in Nat /\ n > 0 /\ Head(a) = a[1]
      /\ \A i \in 1 .. n - 1 : <<a[i], a[i + 1]>> \in Follows
    BY ListIs DEF Planned, Linked
<1>2. Len(Tail(a)) = n - 1 /\ \A i \in 1 .. n - 1 : Tail(a)[i] = a[i + 1]
    BY <1>1, ListTail
<1> HIDE DEF n
<1>3. ASSUME NEW x, NEW y, <<x, y>> \in Follows
      PROVE  (y = "close" => x \in Saving) /\ (y = "save" => x = "sync") /\ y # "sync" /\ y # "write"
  <2>1. CASE <<x, y>> \in Saving \X {"check", "begun", "manifest", "close", "release"}
    BY <2>1 DEF Saving
  <2>2. CASE <<x, y>> \notin Saving \X {"check", "begun", "manifest", "close", "release"}
    BY <1>3, <2>2 DEF Follows
  <2> QED BY <2>1, <2>2
<1>4. ASSUME NEW i \in 1 .. n - 1, a[i + 1] = "close" PROVE FALSE
  <2>1. a[i] \in Saving
    BY <1>1, <1>3, <1>4
  <2>2. i # 1
    BY <2>1, <1>1 DEF Saving
  <2>3. i - 1 \in 1 .. n - 1 /\ (i - 1) + 1 = i
    BY <2>2, <1>1
  <2>4. <<a[i - 1], a[i]>> \in Follows
    BY <2>3, <1>1
  <2>5. a[i - 1] = "sync"
    BY <2>4, <2>1, <1>3 DEF Saving
  <2>6. i - 1 # 1
    BY <2>5, <1>1
  <2>7. (i - 1) - 1 \in 1 .. n - 1 /\ ((i - 1) - 1) + 1 = i - 1
    BY <2>6, <2>3, <1>1
  <2>8. <<a[(i - 1) - 1], a[i - 1]>> \in Follows
    BY <2>7, <1>1
  <2> QED BY <2>8, <2>5, <1>3
<1> QED BY <1>2, <1>4 DEF Holds

-----------------------------------------------------------------------------
(* What comes next. *)
LEMMA Onward ==
    ASSUME NEW a, Planned(a), a # <<>>
    PROVE  /\ Planned(Tail(a)) /\ Head(a) \in Steps
           /\ \A x : Holds(a, x) <=> x = Head(a) \/ Holds(Tail(a), x)
           /\ Head(a) = "open" => Tail(a) # <<>> /\ Head(Tail(a)) = "load"
           /\ Head(a) = "load" => Tail(a) # <<>> /\ Head(Tail(a)) \in {"check", "begun", "manifest"}
           /\ Head(a) = "check" => Tail(a) # <<>> /\ Head(Tail(a)) = "begun"
           /\ Head(a) = "sync" => Tail(a) # <<>> /\ Head(Tail(a)) = "save"
           /\ Head(a) \in Saving =>
                Tail(a) # <<>> /\ Head(Tail(a)) \in {"check", "begun", "manifest", "close", "release"}
           /\ Head(a) = "close" => Tail(a) # <<>> /\ Head(Tail(a)) = "dropBlob"
           /\ Head(a) = "dropBlob" => Tail(a) # <<>> /\ Head(Tail(a)) = "dropIdx"
           /\ Head(a) = "dropIdx" => Tail(a) # <<>> /\ Head(Tail(a)) = "open"
           /\ Head(a) \in Lasts => Tail(a) = <<>>
           /\ Tail(a) = <<>> => Head(a) \in Lasts
<1> DEFINE h == Head(a)
           y == Head(Tail(a))
<1>1. /\ Planned(Tail(a)) /\ h \in Steps
      /\ \A x : Holds(a, x) <=> x = h \/ Holds(Tail(a), x)
      /\ Tail(a) # <<>> => <<h, y>> \in Follows
      /\ Tail(a) = <<>> => h \in Lasts
    BY PlanTail
<1> HIDE DEF h, y
<1>2. ASSUME <<h, y>> \in Follows
      PROVE  /\ h = "open" => y = "load"
             /\ h = "load" => y \in {"check", "begun", "manifest"}
             /\ h = "check" => y = "begun"
             /\ h = "sync" => y = "save"
             /\ h \in Saving => y \in {"check", "begun", "manifest", "close", "release"}
             /\ h = "close" => y = "dropBlob"
             /\ h = "dropBlob" => y = "dropIdx"
             /\ h = "dropIdx" => y = "open"
             /\ h \notin Lasts
  <2>1. CASE <<h, y>> \in Saving \X {"check", "begun", "manifest", "close", "release"}
    BY <2>1 DEF Saving, Lasts
  <2>2. CASE <<h, y>> \notin Saving \X {"check", "begun", "manifest", "close", "release"}
    BY <1>2, <2>2 DEF Follows, Saving, Lasts
  <2> QED BY <2>1, <2>2
<1>3. h \in Saving => h \notin Lasts
    BY DEF Saving, Lasts
<1> QED BY <1>1, <1>2, <1>3 DEF h, y, Saving, Lasts

(* A plan that one more step is put in front of. *)
LEMMA PutBefore ==
    ASSUME NEW b, Planned(b), b # <<>>, NEW x \in Steps, <<x, Head(b)>> \in Follows
    PROVE  /\ Planned(<<x>> \o b) /\ <<x>> \o b # <<>> /\ Head(<<x>> \o b) = x
           /\ \A z : Holds(<<x>> \o b, z) <=> z = x \/ Holds(b, z)
<1>1. /\ <<x>> \in Lists /\ <<x>> # <<>> /\ Linked(<<x>>) /\ Len(<<x>>) = 1 /\ <<x>>[1] = x
      /\ \A z : Holds(<<x>>, z) <=> z = x
    BY OneStep
<1> DEFINE a == <<x>>
<1> HIDE DEF a
<1>2. /\ a \in Lists /\ a # <<>> /\ Linked(a) /\ a[1] = x /\ <<a[Len(a)], Head(b)>> \in Follows
      /\ \A z : Holds(a, z) <=> z = x
    BY <1>1 DEF a
<1> QED BY <1>2, PlanConcat DEF a

LEMMA PutTwoBefore ==
    ASSUME NEW b, Planned(b), b # <<>>, NEW x \in Steps, NEW y \in Steps,
           <<x, y>> \in Follows, <<y, Head(b)>> \in Follows
    PROVE  /\ Planned(<<x, y>> \o b) /\ <<x, y>> \o b # <<>> /\ Head(<<x, y>> \o b) = x
           /\ \A z : Holds(<<x, y>> \o b, z) <=> z \in {x, y} \/ Holds(b, z)
<1> DEFINE a == <<x, y>>
<1>1. /\ a \in Lists /\ a # <<>> /\ Linked(a) /\ Len(a) = 2 /\ a[1] = x /\ a[2] = y
      /\ \A z : Holds(a, z) <=> z \in {x, y}
    BY TwoSteps
<1> HIDE DEF a
<1>2. <<a[Len(a)], Head(b)>> \in Follows
    BY <1>1
<1>3. /\ Planned(a \o b) /\ a \o b # <<>> /\ Head(a \o b) = a[1]
      /\ \A z : Holds(a \o b, z) <=> Holds(a, z) \/ Holds(b, z)
    BY <1>1, <1>2, PlanConcat
<1> QED BY <1>1, <1>3 DEF a

LEMMA LastStep ==
    ASSUME NEW x \in Lasts
    PROVE  Planned(<<x>>) /\ <<x>> # <<>> /\ Head(<<x>>) = x /\ \A z : Holds(<<x>>, z) <=> z = x
<1>1. x \in Steps
    BY DEF Lasts, Steps
<1> QED BY <1>1, OneStep DEF Planned

LEMMA OpenPlan ==
    ASSUME NEW b, Planned(b), b # <<>>, Head(b) \in {"check", "begun", "manifest"}
    PROVE  /\ Planned(<<"open", "load">> \o b) /\ <<"open", "load">> \o b # <<>>
           /\ Head(<<"open", "load">> \o b) = "open"
           /\ \A z : Holds(<<"open", "load">> \o b, z) <=> z \in {"open", "load"} \/ Holds(b, z)
<1>1. "open" \in Steps /\ "load" \in Steps
    BY DEF Steps
<1>2. <<"open", "load">> \in Follows /\ <<"load", Head(b)>> \in Follows
    BY DEF Follows
<1> QED BY <1>1, <1>2, PutTwoBefore

LEMMA FlushPlan ==
    /\ Planned(FlushSteps) /\ FlushSteps # <<>> /\ Head(FlushSteps) = "sync"
    /\ \A z : Holds(FlushSteps, z) <=> z \in {"sync", "save", "release"}
<1> DEFINE b == <<"release">>
<1>1. Planned(b) /\ b # <<>> /\ Head(b) = "release" /\ \A z : Holds(b, z) <=> z = "release"
    BY LastStep DEF Lasts
<1>2. "sync" \in Steps /\ "save" \in Steps /\ <<"sync", "save">> \in Follows
      /\ <<"save", "release">> \in Follows
    BY DEF Steps, Follows, Saving
<1>3. FlushSteps = <<"sync", "save">> \o b
    BY DEF FlushSteps
<1> HIDE DEF b
<1>4. /\ Planned(<<"sync", "save">> \o b) /\ <<"sync", "save">> \o b # <<>>
      /\ Head(<<"sync", "save">> \o b) = "sync"
      /\ \A z : Holds(<<"sync", "save">> \o b, z) <=> z \in {"sync", "save"} \/ Holds(b, z)
    BY <1>1, <1>2, PutTwoBefore
<1> QED BY <1>1, <1>3, <1>4

(* Dropping a build's files and opening the next. *)
LEMMA DropPlan ==
    ASSUME NEW b, Planned(b), b # <<>>, Head(b) \in {"check", "begun", "manifest"}
    PROVE  LET p == (DropSteps \o <<"open", "load">>) \o b
           IN  /\ Planned(p) /\ p # <<>> /\ Head(p) = IF cache.open THEN "save" ELSE "dropBlob"
               /\ \A z : Holds(p, z) <=>
                      \/ z \in {"dropBlob", "dropIdx", "open", "load"}
                      \/ cache.open /\ z \in {"save", "close"}
                      \/ Holds(b, z)
<1> DEFINE o == <<"open", "load">>
           d == <<"dropBlob", "dropIdx">>
           c == <<"save", "close">>
           e == <<>>
<1>0. /\ "save" \in Steps /\ "close" \in Steps /\ "dropBlob" \in Steps /\ "dropIdx" \in Steps
      /\ "open" \in Steps /\ "load" \in Steps
    BY DEF Steps
<1>1. o \in Lists /\ d \in Lists /\ c \in Lists /\ e \in Lists /\ b \in Lists
    BY <1>0 DEF Lists, Planned
<1>2. DropSteps = IF cache.open THEN c \o d ELSE e \o d
    BY DEF DropSteps, CloseSteps
<1>3. /\ <<"dropBlob", "dropIdx">> \in Follows /\ <<"dropIdx", "open">> \in Follows
      /\ <<"save", "close">> \in Follows /\ <<"close", "dropBlob">> \in Follows
    BY DEF Follows, Saving
<1>4. /\ Planned(o \o b) /\ o \o b # <<>> /\ Head(o \o b) = "open"
      /\ \A z : Holds(o \o b, z) <=> z \in {"open", "load"} \/ Holds(b, z)
    BY OpenPlan
<1> DEFINE ob == o \o b
<1> HIDE DEF ob
<1>5. /\ Planned(d \o ob) /\ d \o ob # <<>> /\ Head(d \o ob) = "dropBlob"
      /\ \A z : Holds(d \o ob, z) <=> z \in {"dropBlob", "dropIdx"} \/ Holds(ob, z)
  <2>1. Planned(ob) /\ ob # <<>> /\ <<"dropIdx", Head(ob)>> \in Follows
    BY <1>3, <1>4 DEF ob
  <2> QED BY <1>0, <1>3, <2>1, PutTwoBefore
<1> DEFINE dob == d \o ob
<1> HIDE DEF dob
<1>6. /\ Planned(c \o dob) /\ c \o dob # <<>> /\ Head(c \o dob) = "save"
      /\ \A z : Holds(c \o dob, z) <=> z \in {"save", "close"} \/ Holds(dob, z)
  <2>1. Planned(dob) /\ dob # <<>> /\ <<"close", Head(dob)>> \in Follows
    BY <1>3, <1>5 DEF dob
  <2> QED BY <1>0, <1>3, <2>1, PutTwoBefore
<1> HIDE DEF o, d, c, e
<1>7. e \o d = d
    BY <1>1, NoSteps DEF e
<1>8. (d \o o) \o b = dob
  <2>1. d \in Seq(Steps) /\ o \in Seq(Steps) /\ b \in Seq(Steps)
    BY <1>1 DEF Lists
  <2>2. (d \o o) \o b = d \o (o \o b)
    BY <2>1, ConcatAssociative
  <2> QED BY <2>2 DEF ob, dob
<1>9. ((c \o d) \o o) \o b = c \o dob
  <2>1. (c \o d) \o o = c \o (d \o o)
    BY <1>1, ConcatAssociative DEF Lists
  <2>2. d \o o \in Lists
    BY <1>1, ListConcat
  <2>3. (c \o (d \o o)) \o b = c \o ((d \o o) \o b)
    <3> DEFINE do == d \o o
    <3>1. c \in Seq(Steps) /\ do \in Seq(Steps) /\ b \in Seq(Steps)
      BY <1>1, <2>2 DEF Lists
    <3> HIDE DEF do
    <3>2. (c \o do) \o b = c \o (do \o b)
      BY <3>1, ConcatAssociative
    <3> QED BY <3>2 DEF do
  <2> QED BY <2>1, <2>3, <1>8
<1>10. CASE cache.open
  <2>1. (DropSteps \o o) \o b = c \o dob
    BY <1>10, <1>2, <1>9
  <2> QED BY <2>1, <1>4, <1>5, <1>6, <1>10 DEF o, ob, dob
<1>11. CASE ~cache.open
  <2>1. (DropSteps \o o) \o b = dob
    BY <1>11, <1>2, <1>7, <1>8
  <2> QED BY <2>1, <1>4, <1>5, <1>11 DEF o, ob, dob
<1> QED BY <1>10, <1>11

-----------------------------------------------------------------------------
(***************************************************************************)
(* Files, indexes and the records they are kept in                          *)
(***************************************************************************)
LEMMA FileFrom ==
    ASSUME NEW f, NEW n \in Nat, DOMAIN f = 1 .. n, f = [i \in 1 .. n |-> f[i]],
           \A i \in 1 .. n : f[i] \in Cell
    PROVE  f \in Files /\ Len(f) = n
BY DEF Files

LEMMA OverwriteIs ==
    ASSUME NEW file \in Files, NEW at \in 0 .. Len(file), NEW cells \in Files
    PROVE  LET f == Overwrite(file, at, cells)
           IN  /\ f \in Files
               /\ Len(f) = IF at + Len(cells) > Len(file) THEN at + Len(cells) ELSE Len(file)
               /\ \A i \in 1 .. Len(f) : f[i] =
                      IF i \in at + 1 .. at + Len(cells) THEN cells[i - at] ELSE file[i]
<1> DEFINE f == Overwrite(file, at, cells)
           n == IF at + Len(cells) > Len(file) THEN at + Len(cells) ELSE Len(file)
<1>1. Len(file) \in Nat /\ Len(cells) \in Nat /\ at \in Nat /\ n \in Nat
    BY FileIs
<1>2. f = [i \in 1 .. n |-> IF i \in at + 1 .. at + Len(cells) THEN cells[i - at] ELSE file[i]]
    BY DEF Overwrite
<1>3. ASSUME NEW i \in 1 .. n
      PROVE  (IF i \in at + 1 .. at + Len(cells) THEN cells[i - at] ELSE file[i]) \in Cell
  <2>1. CASE i \in at + 1 .. at + Len(cells)
    <3>1. i - at \in 1 .. Len(cells)
      BY <2>1, <1>1
    <3> QED BY <2>1, <3>1, FileIs
  <2>2. CASE i \notin at + 1 .. at + Len(cells)
    <3>1. i \in 1 .. Len(file)
      BY <2>2, <1>1
    <3> QED BY <2>2, <3>1, FileIs
  <2> QED BY <2>1, <2>2
<1> HIDE DEF n, f
<1>4. DOMAIN f = 1 .. n /\ f = [i \in 1 .. n |-> f[i]] /\ \A i \in 1 .. n : f[i] \in Cell
    BY <1>2, <1>3
<1>5. f \in Files /\ Len(f) = n
    BY <1>1, <1>4, FileFrom
<1>6. \A i \in 1 .. n : f[i] = IF i \in at + 1 .. at + Len(cells) THEN cells[i - at] ELSE file[i]
    BY <1>2
<1> QED BY <1>5, <1>6 DEF f, n

LEMMA RecordIs ==
    ASSUME NEW t \in Tiles
    PROVE  /\ Record(t) \in Files /\ Len(Record(t)) = PayloadSize[t] + 1
           /\ PayloadSize[t] \in Nat
           /\ \A i \in 1 .. PayloadSize[t] + 1 : Record(t)[i] = [tile |-> t, part |-> i - 1]
<1> DEFINE n == PayloadSize[t] + 1
           r == Record(t)
<1>1. n \in Nat /\ PayloadSize[t] \in Nat
    BY SizeIs
<1>2. r = [i \in 1 .. n |-> [tile |-> t, part |-> i - 1]]
    BY DEF Record
<1>3. \A i \in 1 .. n : [tile |-> t, part |-> i - 1] \in Cell
    BY <1>1 DEF Cell
<1> HIDE DEF n, r
<1>4. DOMAIN r = 1 .. n /\ r = [i \in 1 .. n |-> r[i]] /\ \A i \in 1 .. n : r[i] \in Cell
    BY <1>2, <1>3
<1>5. r \in Files /\ Len(r) = n
    BY <1>1, <1>4, FileFrom
<1> QED BY <1>1, <1>2, <1>5 DEF n, r

(* An append that was cut short. *)
LEMMA PieceIs ==
    ASSUME NEW t \in Tiles, NEW k \in 1 .. PayloadSize[t]
    PROVE  SubSeq(Record(t), 1, k) \in Files /\ Len(SubSeq(Record(t), 1, k)) = k
<1>1. PayloadSize[t] \in Nat /\ k \in Int /\ k >= 1
    BY RecordIs
<1>2. \A i \in 1 .. k : i \in 1 .. Len(Record(t))
    BY <1>1, RecordIs
<1>3. \A i \in 1 .. k : Record(t)[i] \in Cell
    BY <1>2, RecordIs, FileIs
<1> QED BY <1>1, <1>3, SubSeqProperties DEF Files

LEMMA NothingIndexed ==
    /\ NoEntries \in Index /\ Fits(NoEntries) /\ NoIndex \in IdxFile /\ NoIndex.entries = NoEntries
    /\ NoIndex.len = -1 /\ DOMAIN NoEntries = {} /\ NoDraft.idx = NoIndex /\ NoDraft.build = 0
<1>1. DOMAIN NoEntries = {} /\ NoEntries \in [{} -> 0 .. MAX_CELLS]
    BY DEF NoEntries
<1>2. NoEntries \in Index
    BY <1>1, IndexIs DEF IndexMap
<1>3. Fits(NoEntries)
    BY <1>1, FS_EmptySet, CacheAssumption DEF Fits
<1> QED BY <1>1, <1>2, <1>3 DEF NoIndex, IdxFile, NoDraft

LEMMA InsertIs ==
    ASSUME NEW index \in Index, Fits(index), NEW t \in Tiles, t \notin DOMAIN index, NEW off \in 0 .. MAX_CELLS
    PROVE  LET new == IdxInsert(index, t, off)
           IN  /\ new \in Index /\ Fits(new)
               /\ \A u \in DOMAIN new : IF u = t THEN new[u] = off
                                        ELSE u \in DOMAIN index /\ new[u] = index[u]
<1> DEFINE D == DOMAIN index
           new == [u \in D \cup {t} |-> IF u = t THEN off ELSE index[u]]
<1>1. D \subseteq Tiles /\ index \in [D -> 0 .. MAX_CELLS]
    BY IndexIs DEF IndexMap
<1>2. new \in Index
  <2>1. DOMAIN new = D \cup {t} /\ new \in [D \cup {t} -> 0 .. MAX_CELLS]
    BY <1>1
  <2> QED BY <1>1, <2>1, IndexIs DEF IndexMap
<1>3. ASSUME t \in D \/ Cardinality(D) < MAX_ENTRIES PROVE Fits(new)
  <2>1. IsFiniteSet(D) /\ Cardinality(D) \in Nat
    BY <1>1, SomeTilesFinite
  <2>2. Cardinality(D) =< MAX_ENTRIES
    BY DEF Fits
  <2>3. DOMAIN new = D \cup {t}
    OBVIOUS
  <2> HIDE DEF D, new
  <2>4. Cardinality(D \cup {t}) = IF t \in D THEN Cardinality(D) ELSE Cardinality(D) + 1
    BY <2>1, FS_AddElement
  <2> QED BY <2>1, <2>2, <2>3, <2>4, <1>3, CacheAssumption DEF Fits
<1>4. CASE t \in D \/ Cardinality(D) < MAX_ENTRIES
  <2>1. IdxInsert(index, t, off) = new
    BY <1>4 DEF IdxInsert
  <2>2. \A u \in DOMAIN new : IF u = t THEN new[u] = off ELSE u \in DOMAIN index /\ new[u] = index[u]
    OBVIOUS
  <2>3. Fits(new)
    BY <1>3, <1>4
  <2> QED BY <2>1, <2>2, <2>3, <1>2
<1>5. CASE ~(t \in D \/ Cardinality(D) < MAX_ENTRIES)
  <2>1. IdxInsert(index, t, off) = index /\ t \notin DOMAIN index
    BY <1>5 DEF IdxInsert
  <2> QED BY <2>1
<1> QED BY <1>4, <1>5

-----------------------------------------------------------------------------
Cards == [blob : [Builds -> Files], idx : [Builds -> IdxFile], manifest : 0 .. BUILDS]
Caches == [open : BOOLEAN, build : 0 .. BUILDS, len : Nat, index : Index, pending : Nat]
Drafts == [build : 0 .. BUILDS, idx : IdxFile]

LEMMA BuildIs == \A b \in Builds : b \in 0 .. BUILDS /\ b \in Nat /\ b # 0 /\ b \in 1 .. BUILDS
BY CacheAssumption DEF Builds

BlobSet(c, b, x) == [c EXCEPT !.blob[b] = x]
IdxSet(c, b, x) == [c EXCEPT !.idx[b] = x]

LEMMA BlobSetIs ==
    ASSUME NEW c \in Cards, NEW b, NEW x \in Files, NEW d, d = BlobSet(c, b, x)
    PROVE  /\ d \in Cards /\ d.idx = c.idx /\ d.manifest = c.manifest
           /\ \A a \in Builds : d.blob[a] = IF a = b THEN x ELSE c.blob[a]
<1> DEFINE new == [c.blob EXCEPT ![b] = x]
<1>1. new \in [Builds -> Files] /\ \A a \in Builds : new[a] = IF a = b THEN x ELSE c.blob[a]
    BY DEF Cards
<1>2. d = [blob |-> new, idx |-> c.idx, manifest |-> c.manifest]
    BY DEF Cards, BlobSet
<1>3. c.idx \in [Builds -> IdxFile] /\ c.manifest \in 0 .. BUILDS
    BY DEF Cards
<1> HIDE DEF new
<1> QED BY <1>1, <1>2, <1>3 DEF Cards

LEMMA IdxSetIs ==
    ASSUME NEW c \in Cards, NEW b, NEW x \in IdxFile, NEW d, d = IdxSet(c, b, x)
    PROVE  /\ d \in Cards /\ d.blob = c.blob /\ d.manifest = c.manifest
           /\ \A a \in Builds : d.idx[a] = IF a = b THEN x ELSE c.idx[a]
<1> DEFINE new == [c.idx EXCEPT ![b] = x]
<1>1. new \in [Builds -> IdxFile] /\ \A a \in Builds : new[a] = IF a = b THEN x ELSE c.idx[a]
    BY DEF Cards
<1>2. d = [blob |-> c.blob, idx |-> new, manifest |-> c.manifest]
    BY DEF Cards, IdxSet
<1>3. c.blob \in [Builds -> Files] /\ c.manifest \in 0 .. BUILDS
    BY DEF Cards
<1> HIDE DEF new
<1> QED BY <1>1, <1>2, <1>3 DEF Cards

LEMMA CardIs ==
    ASSUME NEW c \in Cards
    PROVE  /\ c.blob \in [Builds -> Files] /\ c.idx \in [Builds -> IdxFile] /\ c.manifest \in 0 .. BUILDS
           /\ \A b \in Builds : c.blob[b] \in Files /\ c.idx[b] \in IdxFile
                                /\ c.idx[b].entries \in Index /\ c.idx[b].len \in {-1} \cup Nat
<1>1. c.blob \in [Builds -> Files] /\ c.idx \in [Builds -> IdxFile] /\ c.manifest \in 0 .. BUILDS
    BY DEF Cards
<1>2. \A i \in IdxFile : i.entries \in Index /\ i.len \in {-1} \cup Nat
    BY DEF IdxFile
<1> QED BY <1>1, <1>2

LEMMA CacheIs ==
    ASSUME NEW c \in Caches
    PROVE  /\ c = [open |-> c.open, build |-> c.build, len |-> c.len, index |-> c.index, pending |-> c.pending]
           /\ c.open \in BOOLEAN /\ c.build \in 0 .. BUILDS /\ c.len \in Nat /\ c.index \in Index
           /\ c.pending \in Nat
BY DEF Caches

-----------------------------------------------------------------------------
(***************************************************************************)
(* The invariant, as far as types and bounds need it                        *)
(***************************************************************************)
CacheTyped ==
    /\ card \in Cards
    /\ synced \in [Builds -> Files]
    /\ cache \in Caches
    /\ build \in 0 .. BUILDS
    /\ ready \in BOOLEAN
    /\ todo \in [Tasks -> Lists]
    /\ draft \in [Tasks -> Drafts]
    /\ guard \in Tasks \cup {"none"}
    /\ mishaps \subseteq Mishaps

(* No file shrinks behind the program's back.                               *)
Bounds ==
    /\ \A b \in Builds : Len(synced[b]) =< Len(card.blob[b]) /\ Len(card.blob[b]) =< MAX_CELLS
    /\ \A b \in Builds : Fits(card.idx[b].entries)
    /\ \A w \in Tasks : Fits(draft[w].idx.entries)
    /\ Fits(cache.index)
    /\ cache.open => cache.len =< Len(card.blob[cache.build])

(* Where the two tasks can be, and what that says of the rest.              *)
Plans == \A w \in Tasks : Planned(todo[w])
FlushesOnly == \A x : Holds(todo["ui"], x) => x \in {"sync", "save", "write", "release"}
Guarding ==
    /\ guard = "ui" <=> todo["ui"] # <<>>
    /\ Holds(todo["net"], "release") => guard = "net"
Booting ==
    ~ready => /\ todo["ui"] = <<>>
              /\ todo["net"] = <<>> => ~cache.open
              /\ ~Holds(todo["net"], "manifest") /\ ~Holds(todo["net"], "release")
Judging == Holds(todo["net"], "check") => ~ready
Drafting == \A w \in Tasks : ~At(w, "write") => draft[w] = NoDraft
Opened ==
    cache.open => /\ cache.build \in Builds /\ cache.build =< build
                  /\ ~At("net", "dropBlob") /\ ~At("net", "dropIdx") /\ ~At("net", "open")
Closed ==
    ~cache.open => /\ cache.index = NoEntries
                   /\ ~At("net", "sync") /\ ~At("net", "save") /\ ~At("net", "write")
                   /\ ~At("net", "close") /\ ~At("net", "load")
Dropping == At("net", "dropBlob") \/ At("net", "dropIdx") => cache.build \in Builds
Leading == Holds(todo["net"], "open") => build \in Builds
Leaving == Holds(todo["net"], "close") => cache.build < build \/ ~ready
Arrived ==
    build # 0 /\ ~Holds(todo["net"], "open") /\ (ready \/ todo["net"] # <<>>) => cache.build = build

Control ==
    /\ Plans /\ FlushesOnly /\ Guarding /\ Booting /\ Judging /\ Drafting
    /\ Opened /\ Closed /\ Dropping /\ Leading /\ Leaving /\ Arrived

Kept == CacheTyped /\ Bounds /\ Control

-----------------------------------------------------------------------------
(* A task that takes the next step of its plan. *)
LEMMA Moves ==
    ASSUME CacheTyped, Plans, NEW who \in Tasks, NEW h, At(who, h), Advance(who, <<>>)
    PROVE  /\ todo' \in [Tasks -> Lists] /\ \A w \in Tasks : w # who => todo'[w] = todo[w]
           /\ todo[who] # <<>> /\ Head(todo[who]) = h /\ Planned(todo'[who])
           /\ todo'[who] = Tail(todo[who])
           /\ \A x : Holds(todo[who], x) <=> x = h \/ Holds(todo'[who], x)
           /\ h \notin {"sync", "save", "write"} => ~Holds(todo'[who], "close")
           /\ h = "open" => todo'[who] # <<>> /\ Head(todo'[who]) = "load"
           /\ h = "load" => todo'[who] # <<>> /\ Head(todo'[who]) \in {"check", "begun", "manifest"}
           /\ h = "check" => todo'[who] # <<>> /\ Head(todo'[who]) = "begun"
           /\ h = "sync" => todo'[who] # <<>> /\ Head(todo'[who]) = "save"
           /\ h \in {"save", "write"} =>
                todo'[who] # <<>> /\ Head(todo'[who]) \in {"check", "begun", "manifest", "close", "release"}
           /\ h = "close" => todo'[who] # <<>> /\ Head(todo'[who]) = "dropBlob"
           /\ h = "dropBlob" => todo'[who] # <<>> /\ Head(todo'[who]) = "dropIdx"
           /\ h = "dropIdx" => todo'[who] # <<>> /\ Head(todo'[who]) = "open"
           /\ h \in {"begun", "manifest", "release"} => todo'[who] = <<>>
           /\ \A w \in Tasks : Planned(todo'[w])
<1> DEFINE a == todo[who]
<1>1. a \in Lists /\ a # <<>> /\ Head(a) = h /\ Planned(a)
    BY DEF CacheTyped, Plans, At
<1>2. Tail(a) \in Lists
    BY <1>1, ListTail
<1>3. todo' = [todo EXCEPT ![who] = Tail(a)]
    BY <1>2, NoSteps DEF Advance
<1>4. /\ todo' \in [Tasks -> Lists] /\ todo'[who] = Tail(a)
      /\ \A w \in Tasks : w # who => todo'[w] = todo[w]
    BY <1>2, <1>3 DEF CacheTyped
<1> HIDE DEF a
<1>5. h \notin {"sync", "save", "write"} => ~Holds(Tail(a), "close")
    BY <1>1, NoClose
<1>6. Planned(Tail(a))
    BY <1>1, Onward
<1>7. \A w \in Tasks : Planned(todo'[w])
    BY <1>4, <1>6 DEF Plans
<1> QED BY <1>1, <1>4, <1>5, <1>7, Onward DEF a, Saving, Lasts

LEMMA BeginKeeps == ASSUME Kept, Begin PROVE Kept'
<1> DEFINE b == <<"begun">>
           p == IF card.manifest = 0 THEN <<"begun">> ELSE <<"open", "load", "check", "begun">>
<1>1. /\ Planned(b) /\ b # <<>> /\ Head(b) = "begun" /\ \A z : Holds(b, z) <=> z = "begun"
    BY LastStep DEF Lasts
<1>2. <<"open", "load", "check", "begun">> = <<"open", "load">> \o (<<"check">> \o b)
    BY DEF b
<1>3. /\ Planned(<<"check">> \o b) /\ <<"check">> \o b # <<>> /\ Head(<<"check">> \o b) = "check"
      /\ \A z : Holds(<<"check">> \o b, z) <=> z = "check" \/ Holds(b, z)
  <2>1. "check" \in Steps /\ <<"check", "begun">> \in Follows
    BY DEF Steps, Follows
  <2> HIDE DEF b
  <2> QED BY <2>1, <1>1, PutBefore
<1>4. /\ Planned(p) /\ p # <<>> /\ Head(p) = IF card.manifest = 0 THEN "begun" ELSE "open"
      /\ \A z : Holds(p, z) => \/ z = "begun"
                               \/ card.manifest # 0 /\ z \in {"open", "load", "check"}
      /\ Holds(p, "open") <=> card.manifest # 0
  <2> DEFINE cb == <<"check">> \o b
  <2> HIDE DEF cb
  <2>1. /\ Planned(<<"open", "load">> \o cb) /\ <<"open", "load">> \o cb # <<>>
        /\ Head(<<"open", "load">> \o cb) = "open"
        /\ \A z : Holds(<<"open", "load">> \o cb, z) <=> z \in {"open", "load"} \/ Holds(cb, z)
    BY <1>3, OpenPlan DEF cb
  <2>2. \A z : Holds(cb, z) <=> z = "check" \/ Holds(b, z)
    BY <1>3 DEF cb
  <2>3. p = IF card.manifest = 0 THEN b ELSE <<"open", "load">> \o cb
    BY <1>2 DEF cb
  <2> HIDE DEF p, b
  <2> QED BY <2>1, <2>2, <2>3, <1>1
<1>5. todo' = [todo EXCEPT !["net"] = p] /\ ~ready /\ todo["net"] = <<>> /\ build' = card.manifest
    BY DEF Begin
<1> HIDE DEF p, b
<1>6. p \in Lists
    BY <1>4 DEF Planned
<1>7. todo' \in [Tasks -> Lists] /\ todo'["net"] = p /\ todo'["ui"] = todo["ui"]
    BY <1>5, <1>6 DEF Kept, CacheTyped, Tasks
<1>8. card.manifest \in 0 .. BUILDS /\ (card.manifest # 0 => card.manifest \in Builds)
    BY CardIs, CacheAssumption DEF Kept, CacheTyped, Builds
<1>9. ~cache.open /\ todo["ui"] = <<>>
    BY <1>5 DEF Kept, Control, Booting
<1>10. UNCHANGED <<card, synced, cache, ready, draft, guard, mishaps>>
    BY DEF Begin
<1>11. CacheTyped'
    BY <1>5, <1>7, <1>8, <1>10 DEF Kept, CacheTyped
<1>12. Bounds'
    BY <1>10 DEF Kept, Bounds
<1>13. Control'
  <2>1. Plans' /\ FlushesOnly' /\ Guarding' /\ Booting' /\ Judging'
    BY <1>4, <1>5, <1>7, <1>9, <1>10 DEF Kept, Control, Plans, FlushesOnly, Guarding, Booting, Judging, Tasks
  <2>2. Drafting'
    BY <1>4, <1>5, <1>7, <1>9, <1>10 DEF Kept, Control, Drafting, Tasks, At
  <2>3. Opened' /\ Closed' /\ Dropping'
    BY <1>4, <1>5, <1>7, <1>9, <1>10 DEF Kept, Control, Opened, Closed, Dropping, At
  <2>4. Leading' /\ Leaving' /\ Arrived'
    BY <1>4, <1>5, <1>7, <1>8, <1>9, <1>10 DEF Kept, Control, Leading, Leaving, Arrived
  <2> QED BY <2>1, <2>2, <2>3, <2>4 DEF Control
<1> QED BY <1>11, <1>12, <1>13 DEF Kept

(* A step of the tasks' plans that changes nothing the files are known by.  *)
LEMMA CheckKeeps == ASSUME Kept, Check PROVE Kept'
<1> DEFINE a == todo["net"]
           wipes == cache.open /\ cache.len > WIPE_BYTES /\ Cardinality(DOMAIN cache.index) < WIPE_ENTRIES
<1>0. /\ CacheTyped /\ Control /\ At("net", "check") /\ "net" \in Tasks
      /\ UNCHANGED <<card, synced, cache, build, ready, draft, guard, mishaps>>
    BY DEF Kept, Check, Tasks
<1>1. a # <<>> /\ Head(a) = "check" /\ Planned(a)
    BY <1>0 DEF At, Control, Plans
<1>2. Bounds'
    BY <1>0 DEF Kept, Bounds
<1>3. CASE ~wipes
  <2>1. Advance("net", <<>>)
    BY <1>3 DEF Check
  <2>2. /\ todo' \in [Tasks -> Lists] /\ todo'["ui"] = todo["ui"]
        /\ \A w \in Tasks : Planned(todo'[w])
        /\ \A x : Holds(a, x) <=> x = "check" \/ Holds(todo'["net"], x)
        /\ todo'["net"] # <<>> /\ Head(todo'["net"]) = "begun"
    BY <1>0, <2>1, Moves DEF Control, Tasks
  <2> HIDE DEF wipes
  <2>3. CacheTyped'
    BY <1>0, <2>2 DEF CacheTyped
  <2>4. Plans' /\ FlushesOnly' /\ Guarding' /\ Booting' /\ Judging'
    BY <1>0, <1>1, <2>2 DEF Control, Plans, FlushesOnly, Guarding, Booting, Judging, Tasks
  <2>5. Drafting' /\ Opened' /\ Closed' /\ Dropping'
    BY <1>0, <1>1, <2>2 DEF Control, Drafting, Opened, Closed, Dropping, At, Tasks
  <2>6. Leading' /\ Leaving' /\ Arrived'
    BY <1>0, <1>1, <2>2 DEF Control, Leading, Leaving, Arrived
  <2> QED BY <1>2, <2>3, <2>4, <2>5, <2>6 DEF Control, Kept
<1>4. CASE wipes
  <2> DEFINE b == Tail(a)
             p == (DropSteps \o <<"open", "load">>) \o b
  <2>1. cache.open /\ todo' = [todo EXCEPT !["net"] = p]
    BY <1>4 DEF Check, Advance
  <2>2. /\ Planned(b) /\ b # <<>> /\ Head(b) = "begun"
        /\ \A x : Holds(a, x) <=> x = "check" \/ Holds(b, x)
    BY <1>1, Onward
  <2>3. ~Holds(b, "close")
    BY <1>1, NoClose
  <2> HIDE DEF b, wipes
  <2>4. /\ Planned(p) /\ p # <<>> /\ Head(p) = "save"
        /\ \A z : Holds(p, z) <=> z \in {"dropBlob", "dropIdx", "open", "load", "save", "close"} \/ Holds(b, z)
    BY <2>1, <2>2, DropPlan
  <2> HIDE DEF p
  <2>5. p \in Lists
    BY <2>4 DEF Planned
  <2>6. todo' \in [Tasks -> Lists] /\ todo'["net"] = p /\ todo'["ui"] = todo["ui"]
    BY <1>0, <2>1, <2>5 DEF CacheTyped, Tasks
  <2>7. ~ready /\ cache.build \in Builds /\ build \in Builds
    <3>1. ~ready
      BY <1>0, <1>1, <2>2 DEF Control, Judging
    <3>2. cache.build \in Builds /\ cache.build =< build /\ build \in 0 .. BUILDS
      BY <1>0, <2>1 DEF Control, Opened, CacheTyped
    <3> QED BY <3>1, <3>2, CacheAssumption DEF Builds
  <2>8. CacheTyped'
    BY <1>0, <2>6 DEF CacheTyped
  <2>9. Plans' /\ FlushesOnly' /\ Guarding' /\ Booting' /\ Judging'
    BY <1>0, <1>1, <2>2, <2>4, <2>6, <2>7 DEF Control, Plans, FlushesOnly, Guarding, Booting, Judging, Tasks
  <2>10. Drafting' /\ Opened' /\ Closed' /\ Dropping'
    BY <1>0, <1>1, <2>1, <2>4, <2>6 DEF Control, Drafting, Opened, Closed, Dropping, At, Tasks
  <2>11. Leading' /\ Leaving' /\ Arrived'
    BY <1>0, <1>1, <2>2, <2>4, <2>6, <2>7 DEF Control, Leading, Leaving, Arrived
  <2> QED BY <1>2, <2>8, <2>9, <2>10, <2>11 DEF Control, Kept
<1> QED BY <1>3, <1>4

LEMMA BegunKeeps == ASSUME Kept, Begun PROVE Kept'
<1>0. /\ CacheTyped /\ Control /\ At("net", "begun") /\ "net" \in Tasks /\ Advance("net", <<>>)
      /\ ready' = TRUE /\ UNCHANGED <<card, synced, cache, build, draft, guard, mishaps>>
    BY DEF Kept, Begun, Tasks
<1>1. /\ todo' \in [Tasks -> Lists] /\ todo'["ui"] = todo["ui"] /\ \A w \in Tasks : Planned(todo'[w])
      /\ \A x : Holds(todo["net"], x) <=> x = "begun" \/ Holds(todo'["net"], x)
      /\ todo["net"] # <<>> /\ Head(todo["net"]) = "begun" /\ todo'["net"] = <<>>
    BY <1>0, Moves DEF Control, Tasks
<1>2. \A x : ~Holds(<<>>, x)
    BY NothingPlanned
<1>3. CacheTyped' /\ Bounds'
    BY <1>0, <1>1 DEF Kept, CacheTyped, Bounds
<1>4. Plans' /\ FlushesOnly' /\ Guarding' /\ Booting' /\ Judging'
    BY <1>0, <1>1, <1>2 DEF Control, Plans, FlushesOnly, Guarding, Booting, Judging, Tasks
<1>5. Drafting' /\ Opened' /\ Closed' /\ Dropping'
    BY <1>0, <1>1 DEF Control, Drafting, Opened, Closed, Dropping, At, Tasks
<1>6. Leading' /\ Leaving' /\ Arrived'
    BY <1>0, <1>1, <1>2 DEF Control, Leading, Leaving, Arrived
<1> QED BY <1>3, <1>4, <1>5, <1>6 DEF Control, Kept

LEMMA HappensIs ==
    ASSUME NEW kind, NEW when \in BOOLEAN, mishaps \subseteq Mishaps, Happens(kind, when)
    PROVE  mishaps' \subseteq Mishaps /\ mishaps \subseteq mishaps'
           /\ mishaps' = IF when THEN mishaps \cup {kind} ELSE mishaps
BY DEF Happens

(* What a refresh has before it. *)
LEMMA RefreshPlan ==
    ASSUME NEW found, found # 0
    PROVE  LET p == (IF build \notin {0, found} THEN DropSteps ELSE <<>>)
                        \o (IF found = build /\ cache.open THEN <<>> ELSE <<"open", "load">>)
                        \o <<"manifest">>
               drops == build # 0 /\ build # found
               opens == drops \/ build = 0 \/ ~cache.open
           IN  /\ Planned(p) /\ p # <<>>
               /\ Head(p) = IF drops THEN IF cache.open THEN "save" ELSE "dropBlob"
                            ELSE IF opens THEN "open" ELSE "manifest"
               /\ \A z : Holds(p, z) =>
                      \/ z = "manifest"
                      \/ opens /\ z \in {"open", "load"}
                      \/ drops /\ z \in {"dropBlob", "dropIdx"}
                      \/ drops /\ cache.open /\ z \in {"save", "close"}
               /\ Holds(p, "open") <=> opens
               /\ drops /\ cache.open => Holds(p, "close")
<1> DEFINE m == <<"manifest">>
           o == <<"open", "load">>
           d == build # 0 /\ build # found
           opens == d \/ build = 0 \/ ~cache.open
           p == (IF build \notin {0, found} THEN DropSteps ELSE <<>>)
                    \o (IF found = build /\ cache.open THEN <<>> ELSE o) \o m
<1>1. /\ Planned(m) /\ m # <<>> /\ Head(m) = "manifest" /\ \A z : Holds(m, z) <=> z = "manifest"
    BY LastStep DEF Lasts
<1>2. o \in Lists /\ m \in Lists /\ <<>> \in Lists
    BY DEF Lists, Steps
<1>3. <<>> \o o = o /\ <<>> \o <<>> = <<>> /\ <<>> \o m = m
    BY <1>2, NoSteps
<1> HIDE DEF m
<1>4. /\ Planned(o \o m) /\ o \o m # <<>> /\ Head(o \o m) = "open"
      /\ \A z : Holds(o \o m, z) <=> z \in {"open", "load"} \/ Holds(m, z)
    BY <1>1, OpenPlan
<1> DEFINE q == (DropSteps \o o) \o m
<1>5. /\ Planned(q) /\ q # <<>> /\ Head(q) = IF cache.open THEN "save" ELSE "dropBlob"
      /\ \A z : Holds(q, z) <=> \/ z \in {"dropBlob", "dropIdx", "open", "load"}
                                \/ cache.open /\ z \in {"save", "close"}
                                \/ Holds(m, z)
    BY <1>1, DropPlan
<1> HIDE DEF o, q
<1>6. p = IF d THEN q ELSE IF opens THEN o \o m ELSE m
    BY <1>3 DEF q
<1> HIDE DEF p
<1>7. /\ Planned(p) /\ p # <<>>
      /\ Head(p) = IF d THEN IF cache.open THEN "save" ELSE "dropBlob"
                   ELSE IF opens THEN "open" ELSE "manifest"
      /\ \A z : Holds(p, z) =>
             \/ z = "manifest"
             \/ opens /\ z \in {"open", "load"}
             \/ d /\ z \in {"dropBlob", "dropIdx"}
             \/ d /\ cache.open /\ z \in {"save", "close"}
      /\ Holds(p, "open") <=> opens
      /\ d /\ cache.open => Holds(p, "close")
    BY <1>1, <1>4, <1>5, <1>6
<1> QED BY <1>7 DEF p, m, o

LEMMA RefreshKeeps ==
    ASSUME Kept, NEW found \in Builds, found >= build, Refresh(found) PROVE Kept'
<1> DEFINE p == (IF build \notin {0, found} THEN DropSteps ELSE <<>>)
                    \o (IF found = build /\ cache.open THEN <<>> ELSE <<"open", "load">>)
                    \o <<"manifest">>
           drops == build # 0 /\ build # found
           opens == drops \/ build = 0 \/ ~cache.open
<1>0. /\ CacheTyped /\ Control /\ ready /\ todo["net"] = <<>> /\ build' = found
      /\ todo' = [todo EXCEPT !["net"] = p]
      /\ UNCHANGED <<card, synced, cache, ready, draft, guard>>
    BY DEF Kept, Refresh
<1>1. found \in 0 .. BUILDS /\ found # 0
    BY BuildIs
<1>2. /\ Planned(p) /\ p # <<>>
      /\ Head(p) = IF drops THEN IF cache.open THEN "save" ELSE "dropBlob"
                   ELSE IF opens THEN "open" ELSE "manifest"
      /\ \A z : Holds(p, z) =>
             \/ z = "manifest"
             \/ opens /\ z \in {"open", "load"}
             \/ drops /\ z \in {"dropBlob", "dropIdx"}
             \/ drops /\ cache.open /\ z \in {"save", "close"}
      /\ Holds(p, "open") <=> opens
    BY <1>1, RefreshPlan
<1> HIDE DEF p
<1>3. p \in Lists
    BY <1>2 DEF Planned
<1>4. todo' \in [Tasks -> Lists] /\ todo'["net"] = p /\ todo'["ui"] = todo["ui"]
    BY <1>0, <1>3 DEF CacheTyped, Tasks
<1>5. mishaps' \subseteq Mishaps
    BY <1>0 DEF Refresh, Happens, CacheTyped
<1>6. ~Holds(todo["net"], "open")
    BY <1>0, NothingPlanned
<1>7. build # 0 => cache.build = build
    BY <1>0, <1>6 DEF Control, Arrived
<1>8. cache.open => cache.build \in Builds /\ cache.build =< build /\ build # 0
  <2>1. cache.open => cache.build \in Builds /\ cache.build =< build
    BY <1>0 DEF Control, Opened
  <2> QED BY <2>1, BuildIs, <1>0 DEF CacheTyped, Builds
<1>9. build \in Nat /\ found \in Nat /\ cache.build \in Nat /\ found >= build
    BY <1>0, BuildIs, CacheIs DEF CacheTyped
<1>10. CacheTyped' /\ Bounds'
    BY <1>0, <1>1, <1>4, <1>5 DEF Kept, CacheTyped, Bounds
<1>11. Plans' /\ FlushesOnly' /\ Guarding' /\ Booting' /\ Judging'
    BY <1>0, <1>2, <1>4 DEF Control, Plans, FlushesOnly, Guarding, Booting, Judging, Tasks
<1>12. Drafting'
    BY <1>0, <1>2, <1>4 DEF Control, Drafting, At, Tasks
<1>13. Opened'
    BY <1>0, <1>2, <1>4, <1>8, <1>9 DEF Opened, At
<1>14. Closed'
    BY <1>0, <1>2, <1>4 DEF Control, Closed, At
<1>15. Dropping'
    BY <1>0, <1>2, <1>4, <1>7, <1>9 DEF Dropping, At, Builds, CacheTyped
<1>16. Leading' /\ Leaving'
    BY <1>0, <1>2, <1>4, <1>7, <1>8, <1>9 DEF Leading, Leaving
<1>17. Arrived'
    BY <1>0, <1>2, <1>4, <1>7, <1>9 DEF Arrived
<1> QED BY <1>10, <1>11, <1>12, <1>13, <1>14, <1>15, <1>16, <1>17 DEF Control, Kept

LEMMA ManifestSaveKeeps == ASSUME Kept, ManifestSave PROVE Kept'
<1>0. /\ CacheTyped /\ Control /\ At("net", "manifest") /\ "net" \in Tasks /\ Advance("net", <<>>)
      /\ UNCHANGED <<synced, cache, build, ready, draft, guard, mishaps>>
    BY DEF Kept, ManifestSave, Tasks
<1>1. PICK m \in {card.manifest, build, 0} : card' = [card EXCEPT !.manifest = m]
    BY DEF ManifestSave
<1>2. m \in 0 .. BUILDS
    BY <1>0, CardIs, CacheAssumption DEF CacheTyped
<1>3. card' \in Cards /\ card'.blob = card.blob /\ card'.idx = card.idx
    BY <1>0, <1>1, <1>2 DEF CacheTyped, Cards
<1>4. /\ todo' \in [Tasks -> Lists] /\ todo'["ui"] = todo["ui"] /\ \A w \in Tasks : Planned(todo'[w])
      /\ \A x : Holds(todo["net"], x) <=> x = "manifest" \/ Holds(todo'["net"], x)
      /\ todo["net"] # <<>> /\ Head(todo["net"]) = "manifest" /\ todo'["net"] = <<>>
    BY <1>0, Moves DEF Control, Tasks
<1>5. \A x : ~Holds(<<>>, x)
    BY NothingPlanned
<1>6. CacheTyped'
    BY <1>0, <1>3, <1>4 DEF CacheTyped
<1>7. Bounds'
    BY <1>0, <1>3 DEF Kept, Bounds
<1>8. Plans' /\ FlushesOnly' /\ Guarding' /\ Booting' /\ Judging'
    BY <1>0, <1>4, <1>5 DEF Control, Plans, FlushesOnly, Guarding, Booting, Judging, Tasks
<1>9. Drafting' /\ Opened' /\ Closed' /\ Dropping'
    BY <1>0, <1>4 DEF Control, Drafting, Opened, Closed, Dropping, At, Tasks
<1>10. Leading' /\ Leaving' /\ Arrived'
    BY <1>0, <1>4, <1>5 DEF Control, Leading, Leaving, Arrived
<1> QED BY <1>6, <1>7, <1>8, <1>9, <1>10 DEF Control, Kept

LEMMA OpenBlobKeeps == ASSUME Kept, OpenBlob PROVE Kept'
<1>0. /\ CacheTyped /\ Control /\ At("net", "open") /\ "net" \in Tasks /\ Advance("net", <<>>)
      /\ UNCHANGED <<card, synced, build, ready, draft, guard, mishaps>>
    BY DEF Kept, OpenBlob, Tasks
<1>1. /\ todo' \in [Tasks -> Lists] /\ todo'["ui"] = todo["ui"] /\ \A w \in Tasks : Planned(todo'[w])
      /\ \A x : Holds(todo["net"], x) <=> x = "open" \/ Holds(todo'["net"], x)
      /\ todo["net"] # <<>> /\ Head(todo["net"]) = "open"
      /\ todo'["net"] # <<>> /\ Head(todo'["net"]) = "load" /\ ~Holds(todo'["net"], "close")
    BY <1>0, Moves DEF Control, Tasks
<1>2. build \in Builds /\ ~cache.open /\ cache.index = NoEntries
    BY <1>0, <1>1 DEF Control, Leading, Opened, Closed
<1>3. card.blob[build] \in Files /\ Len(card.blob[build]) \in Nat /\ build \in 0 .. BUILDS /\ build \in Nat
    BY <1>0, <1>2, CardIs, FileIs, BuildIs DEF CacheTyped
<1>4. cache' = [open |-> TRUE, build |-> build, len |-> Len(card.blob[build]),
                index |-> cache.index, pending |-> cache.pending]
  <2> DEFINE n == Len(card.blob[build])
  <2>1. cache' = [cache EXCEPT !.open = TRUE, !.build = build, !.len = n]
    BY DEF OpenBlob
  <2>2. cache \in Caches
    BY <1>0 DEF CacheTyped
  <2> HIDE DEF n
  <2>3. cache' = [open |-> TRUE, build |-> build, len |-> n,
                  index |-> cache.index, pending |-> cache.pending]
    BY <2>1, <2>2 DEF Caches
  <2> QED BY <2>3 DEF n
<1>5. cache.index \in Index /\ cache.pending \in Nat
    BY <1>0, CacheIs DEF CacheTyped
<1>6. CacheTyped'
  <2>1. cache' \in Caches
    BY <1>3, <1>4, <1>5 DEF Caches
  <2> QED BY <1>0, <1>1, <2>1 DEF CacheTyped
<1>7. Bounds'
    BY <1>0, <1>3, <1>4 DEF Kept, Bounds
<1>8. Plans' /\ FlushesOnly' /\ Guarding' /\ Booting' /\ Judging'
    BY <1>0, <1>1 DEF Control, Plans, FlushesOnly, Guarding, Booting, Judging, Tasks
<1>9. Drafting' /\ Opened' /\ Closed' /\ Dropping'
    BY <1>0, <1>1, <1>2, <1>3, <1>4 DEF Control, Drafting, Opened, Closed, Dropping, At, Tasks
<1>10. Leading' /\ Leaving' /\ Arrived'
    BY <1>0, <1>1, <1>4 DEF Control, Leading, Leaving, Arrived
<1> QED BY <1>6, <1>7, <1>8, <1>9, <1>10 DEF Control, Kept

LEMMA OpenFailsKeeps == ASSUME Kept, OpenFails PROVE Kept'
<1> DEFINE a == todo["net"]
           r == Tail(Tail(a))
<1>0. /\ CacheTyped /\ Control /\ At("net", "open") /\ "net" \in Tasks
      /\ todo' = [todo EXCEPT !["net"] = r]
      /\ UNCHANGED <<card, synced, build, ready, draft, guard, mishaps>>
    BY DEF Kept, OpenFails, Tasks
<1>1. /\ a # <<>> /\ Head(a) = "open" /\ Planned(a) /\ Planned(Tail(a)) /\ Tail(a) # <<>> /\ Head(Tail(a)) = "load"
      /\ \A x : Holds(a, x) <=> x = "open" \/ Holds(Tail(a), x)
    BY <1>0, Onward DEF At, Control, Plans
<1>2. /\ Planned(r) /\ r # <<>> /\ Head(r) \in {"check", "begun", "manifest"}
      /\ \A x : Holds(a, x) <=> x \in {"open", "load"} \/ Holds(r, x)
      /\ ~Holds(r, "close")
  <2>1. ~Holds(Tail(a), "close")
    BY <1>1, NoClose
  <2> DEFINE b == Tail(a)
  <2> HIDE DEF b
  <2>2. /\ Planned(Tail(b)) /\ Tail(b) # <<>> /\ Head(Tail(b)) \in {"check", "begun", "manifest"}
        /\ \A x : Holds(b, x) <=> x = "load" \/ Holds(Tail(b), x)
    BY <1>1, Onward DEF b
  <2> QED BY <1>1, <2>1, <2>2 DEF b
<1> HIDE DEF r
<1>3. r \in Lists
    BY <1>2 DEF Planned
<1>4. todo' \in [Tasks -> Lists] /\ todo'["net"] = r /\ todo'["ui"] = todo["ui"]
    BY <1>0, <1>3 DEF CacheTyped, Tasks
<1>5. build \in Builds /\ ~cache.open /\ cache.index = NoEntries
    BY <1>0, <1>1 DEF Control, Leading, Opened, Closed
<1>6. cache' = [open |-> cache.open, build |-> build, len |-> cache.len,
                index |-> cache.index, pending |-> cache.pending]
    BY <1>0, CacheIs DEF OpenFails, CacheTyped
<1>7. CacheTyped'
  <2>1. cache' \in Caches
    BY <1>0, <1>5, <1>6, CacheIs, BuildIs DEF Caches, CacheTyped
  <2> QED BY <1>0, <1>4, <2>1 DEF CacheTyped
<1>8. Bounds'
    BY <1>0, <1>5, <1>6 DEF Kept, Bounds
<1>9. Plans' /\ FlushesOnly' /\ Guarding' /\ Booting' /\ Judging'
    BY <1>0, <1>1, <1>2, <1>4, <1>5, <1>6 DEF Control, Plans, FlushesOnly, Guarding, Booting, Judging, Tasks
<1>10. Drafting' /\ Opened' /\ Closed' /\ Dropping'
    BY <1>0, <1>1, <1>2, <1>4, <1>5, <1>6 DEF Control, Drafting, Opened, Closed, Dropping, At, Tasks
<1>11. Leading' /\ Leaving' /\ Arrived'
    BY <1>0, <1>2, <1>4, <1>6 DEF Control, Leading, Leaving, Arrived
<1> QED BY <1>7, <1>8, <1>9, <1>10, <1>11 DEF Control, Kept

(* A task that puts one step in front of what it still has to do.           *)
LEMMA MovesInto ==
    ASSUME CacheTyped, Plans, NEW who \in Tasks, NEW h, At(who, h), NEW y \in Steps, Advance(who, <<y>>),
           (h = "save" /\ y = "write") \/ (h = "load" /\ y = "save")
    PROVE  /\ todo' \in [Tasks -> Lists] /\ \A w \in Tasks : w # who => todo'[w] = todo[w]
           /\ todo[who] # <<>> /\ Head(todo[who]) = h /\ \A w \in Tasks : Planned(todo'[w])
           /\ \A x : Holds(todo[who], x) => x = h \/ Holds(todo'[who], x)
           /\ \A x : Holds(todo'[who], x) => x = y \/ Holds(todo[who], x)
           /\ todo'[who] # <<>> /\ Head(todo'[who]) = y
<1> DEFINE a == todo[who]
           b == Tail(a)
<1>1. a \in Lists /\ a # <<>> /\ Head(a) = h /\ Planned(a)
    BY DEF CacheTyped, Plans, At
<1>2. /\ Planned(b) /\ b # <<>> /\ <<y, Head(b)>> \in Follows
      /\ \A x : Holds(a, x) <=> x = h \/ Holds(b, x)
  <2> DEFINE z == Head(b)
  <2>1. /\ Planned(b) /\ b # <<>> /\ \A x : Holds(a, x) <=> x = h \/ Holds(b, x)
        /\ h = "load" => z \in {"check", "begun", "manifest"}
        /\ h = "save" => z \in {"check", "begun", "manifest", "close", "release"}
    BY <1>1, Onward DEF Saving
  <2> HIDE DEF z, b
  <2>2. <<y, z>> \in Follows
    BY <2>1 DEF Follows, Saving
  <2> QED BY <2>1, <2>2 DEF z
<1> DEFINE p == <<y>> \o b
<1>3. /\ Planned(p) /\ p # <<>> /\ Head(p) = y /\ \A x : Holds(p, x) <=> x = y \/ Holds(b, x)
  <2> HIDE DEF b
  <2> QED BY <1>2, PutBefore
<1>4. p \in Lists
    BY <1>3 DEF Planned
<1>5. todo' = [todo EXCEPT ![who] = p]
    BY DEF Advance
<1> HIDE DEF p
<1>6. /\ todo' \in [Tasks -> Lists] /\ todo'[who] = p
      /\ \A w \in Tasks : w # who => todo'[w] = todo[w]
    BY <1>4, <1>5 DEF CacheTyped
<1>7. \A w \in Tasks : Planned(todo'[w])
    BY <1>3, <1>6 DEF Plans
<1> QED BY <1>1, <1>2, <1>3, <1>6, <1>7

LEMMA LoadIndexKeeps == ASSUME Kept, LoadIndex PROVE Kept'
<1> DEFINE file == card.blob[cache.build]
           idx == card.idx[cache.build]
           a == todo["net"]
           r == todo'["net"]
<1>0. /\ CacheTyped /\ Bounds /\ Control /\ At("net", "load") /\ "net" \in Tasks
      /\ UNCHANGED <<card, synced, build, ready, draft, guard, mishaps>>
    BY DEF Kept, LoadIndex, Tasks
<1>1. cache.open /\ cache.build \in Builds
    BY <1>0 DEF Control, Closed, Opened
<1>2. /\ file \in Files /\ Len(file) =< MAX_CELLS /\ idx \in IdxFile /\ idx.entries \in Index
      /\ Fits(idx.entries) /\ cache \in Caches
    BY <1>0, <1>1, CardIs DEF CacheTyped, Bounds
<1>3. Rescan(file) \in Index /\ Fits(Rescan(file))
    BY <1>2, RescanTyped
<1>4. PICK index \in Index : Fits(index) /\ cache' = [cache EXCEPT !.index = index]
    BY <1>2, <1>3 DEF LoadIndex
<1>5. /\ cache' \in Caches /\ cache'.open = cache.open /\ cache'.build = cache.build
      /\ cache'.len = cache.len /\ cache'.index = index
    BY <1>2, <1>4 DEF Caches
<1>6. Advance("net", <<>>) \/ Advance("net", <<"save">>)
    BY DEF LoadIndex
<1> HIDE DEF file, idx
<1>7. /\ todo' \in [Tasks -> Lists] /\ todo'["ui"] = todo["ui"] /\ \A w \in Tasks : Planned(todo'[w])
      /\ a # <<>> /\ Head(a) = "load"
      /\ \A x : Holds(a, x) => x = "load" \/ Holds(r, x)
      /\ \A x : Holds(r, x) => x = "save" \/ Holds(a, x)
      /\ r # <<>> /\ Head(r) \in {"check", "begun", "manifest", "save"}
  <2>1. CASE Advance("net", <<>>)
    BY <1>0, <2>1, Moves DEF Control, Tasks
  <2>2. CASE Advance("net", <<"save">>)
    BY <1>0, <2>2, MovesInto DEF Control, Tasks, Steps
  <2> QED BY <1>6, <2>1, <2>2
<1> HIDE DEF a, r
<1>8. CacheTyped'
    BY <1>0, <1>5, <1>7 DEF CacheTyped
<1>9. Bounds'
    BY <1>0, <1>4, <1>5 DEF Bounds
<1>10. Plans' /\ FlushesOnly' /\ Guarding' /\ Booting' /\ Judging'
    BY <1>0, <1>5, <1>7 DEF Control, Plans, FlushesOnly, Guarding, Booting, Judging, Tasks, a, r
<1>11. Drafting' /\ Opened' /\ Closed' /\ Dropping'
    BY <1>0, <1>1, <1>5, <1>7 DEF Control, Drafting, Opened, Closed, Dropping, At, Tasks, a, r
<1>12. Leading' /\ Leaving' /\ Arrived'
    BY <1>0, <1>5, <1>7 DEF Control, Leading, Leaving, Arrived, a, r
<1> QED BY <1>8, <1>9, <1>10, <1>11, <1>12 DEF Control, Kept

LEMMA CloseBlobKeeps == ASSUME Kept, CloseBlob PROVE Kept'
<1>0. /\ CacheTyped /\ Bounds /\ Control /\ At("net", "close") /\ "net" \in Tasks /\ Advance("net", <<>>)
      /\ synced' = [synced EXCEPT ![cache.build] = card.blob[cache.build]]
      /\ cache' = [cache EXCEPT !.open = FALSE, !.index = NoEntries]
      /\ UNCHANGED <<card, build, ready, draft, guard, mishaps>>
    BY DEF Kept, CloseBlob, Tasks
<1>1. cache.open /\ cache.build \in Builds
    BY <1>0 DEF Control, Closed, Opened
<1>2. card.blob[cache.build] \in Files /\ Len(card.blob[cache.build]) \in Nat
    BY <1>0, <1>1, CardIs, FileIs DEF CacheTyped
<1>3. /\ synced' \in [Builds -> Files]
      /\ \A b \in Builds : synced'[b] = IF b = cache.build THEN card.blob[cache.build] ELSE synced[b]
    BY <1>0, <1>2 DEF CacheTyped
<1>4. cache' = [open |-> FALSE, build |-> cache.build, len |-> cache.len, index |-> NoEntries,
                pending |-> cache.pending]
    BY <1>0 DEF CacheTyped, Caches
<1>5. cache' \in Caches
    BY <1>0, <1>4, CacheIs, NothingIndexed DEF CacheTyped, Caches
<1>6. /\ todo' \in [Tasks -> Lists] /\ todo'["ui"] = todo["ui"] /\ \A w \in Tasks : Planned(todo'[w])
      /\ \A x : Holds(todo["net"], x) <=> x = "close" \/ Holds(todo'["net"], x)
      /\ todo["net"] # <<>> /\ Head(todo["net"]) = "close"
      /\ todo'["net"] # <<>> /\ Head(todo'["net"]) = "dropBlob"
    BY <1>0, Moves DEF Control, Tasks
<1>7. CacheTyped'
    BY <1>0, <1>3, <1>5, <1>6 DEF CacheTyped
<1>8. Bounds'
    BY <1>0, <1>2, <1>3, <1>4, NothingIndexed DEF Bounds
<1>9. Plans' /\ FlushesOnly' /\ Guarding' /\ Booting' /\ Judging'
    BY <1>0, <1>4, <1>6 DEF Control, Plans, FlushesOnly, Guarding, Booting, Judging, Tasks
<1>10. Drafting' /\ Opened' /\ Closed' /\ Dropping'
    BY <1>0, <1>1, <1>4, <1>6 DEF Control, Drafting, Opened, Closed, Dropping, At, Tasks
<1>11. Leading' /\ Leaving' /\ Arrived'
    BY <1>0, <1>4, <1>6 DEF Control, Leading, Leaving, Arrived
<1> QED BY <1>7, <1>8, <1>9, <1>10, <1>11 DEF Control, Kept

LEMMA DropBlobKeeps == ASSUME Kept, DropBlob PROVE Kept'
<1>0. /\ CacheTyped /\ Bounds /\ Control /\ At("net", "dropBlob") /\ "net" \in Tasks /\ Advance("net", <<>>)
      /\ card' = [card EXCEPT !.blob[cache.build] = <<>>]
      /\ synced' = [synced EXCEPT ![cache.build] = <<>>]
      /\ UNCHANGED <<cache, build, ready, draft, guard, mishaps>>
    BY DEF Kept, DropBlob, Tasks
<1>1. ~cache.open /\ cache.build \in Builds
    BY <1>0 DEF Control, Opened, Dropping
<1>2. <<>> \in Files /\ Len(<<>>) = 0
    BY EmptySeq DEF Files
<1>3. /\ card' \in Cards /\ card'.idx = card.idx
      /\ \A b \in Builds : card'.blob[b] = IF b = cache.build THEN <<>> ELSE card.blob[b]
  <2>1. card \in Cards /\ card' = BlobSet(card, cache.build, <<>>)
    BY <1>0 DEF CacheTyped, BlobSet
  <2> QED BY <2>1, <1>2, BlobSetIs
<1>4. /\ synced' \in [Builds -> Files]
      /\ \A b \in Builds : synced'[b] = IF b = cache.build THEN <<>> ELSE synced[b]
    BY <1>0, <1>2 DEF CacheTyped
<1>5. /\ todo' \in [Tasks -> Lists] /\ todo'["ui"] = todo["ui"] /\ \A w \in Tasks : Planned(todo'[w])
      /\ \A x : Holds(todo["net"], x) <=> x = "dropBlob" \/ Holds(todo'["net"], x)
      /\ todo["net"] # <<>> /\ Head(todo["net"]) = "dropBlob"
      /\ todo'["net"] # <<>> /\ Head(todo'["net"]) = "dropIdx"
    BY <1>0, Moves DEF Control, Tasks
<1>6. CacheTyped'
    BY <1>0, <1>3, <1>4, <1>5 DEF CacheTyped
<1>7. Bounds'
    BY <1>0, <1>1, <1>2, <1>3, <1>4, CacheAssumption DEF Bounds
<1>8. Plans' /\ FlushesOnly' /\ Guarding' /\ Booting' /\ Judging'
    BY <1>0, <1>5 DEF Control, Plans, FlushesOnly, Guarding, Booting, Judging, Tasks
<1>9. Drafting' /\ Opened' /\ Closed' /\ Dropping'
    BY <1>0, <1>1, <1>5 DEF Control, Drafting, Opened, Closed, Dropping, At, Tasks
<1>10. Leading' /\ Leaving' /\ Arrived'
    BY <1>0, <1>5 DEF Control, Leading, Leaving, Arrived
<1> QED BY <1>6, <1>7, <1>8, <1>9, <1>10 DEF Control, Kept

LEMMA DropIdxKeeps == ASSUME Kept, DropIdx PROVE Kept'
<1>0. /\ CacheTyped /\ Bounds /\ Control /\ At("net", "dropIdx") /\ "net" \in Tasks /\ Advance("net", <<>>)
      /\ card' = [card EXCEPT !.idx[cache.build] = NoIndex]
      /\ UNCHANGED <<synced, cache, build, ready, draft, guard, mishaps>>
    BY DEF Kept, DropIdx, Tasks
<1>1. ~cache.open
    BY <1>0 DEF Control, Opened
<1>2. /\ card' \in Cards /\ card'.blob = card.blob
      /\ \A b \in Builds : card'.idx[b] = IF b = cache.build THEN NoIndex ELSE card.idx[b]
  <2>1. card \in Cards /\ NoIndex \in IdxFile /\ card' = IdxSet(card, cache.build, NoIndex)
    BY <1>0, NothingIndexed DEF CacheTyped, IdxSet
  <2> QED BY <2>1, IdxSetIs
<1>3. /\ todo' \in [Tasks -> Lists] /\ todo'["ui"] = todo["ui"] /\ \A w \in Tasks : Planned(todo'[w])
      /\ \A x : Holds(todo["net"], x) <=> x = "dropIdx" \/ Holds(todo'["net"], x)
      /\ todo["net"] # <<>> /\ Head(todo["net"]) = "dropIdx"
      /\ todo'["net"] # <<>> /\ Head(todo'["net"]) = "open"
    BY <1>0, Moves DEF Control, Tasks
<1>4. CacheTyped'
    BY <1>0, <1>2, <1>3 DEF CacheTyped
<1>5. Bounds'
    BY <1>0, <1>1, <1>2, NothingIndexed DEF Bounds
<1>6. Plans' /\ FlushesOnly' /\ Guarding' /\ Booting' /\ Judging'
    BY <1>0, <1>3 DEF Control, Plans, FlushesOnly, Guarding, Booting, Judging, Tasks
<1>7. Drafting' /\ Opened' /\ Closed' /\ Dropping'
    BY <1>0, <1>1, <1>3 DEF Control, Drafting, Opened, Closed, Dropping, At, Tasks
<1>8. Leading' /\ Leaving' /\ Arrived'
    BY <1>0, <1>3 DEF Control, Leading, Leaving, Arrived
<1> QED BY <1>4, <1>5, <1>6, <1>7, <1>8 DEF Control, Kept

LEMMA OthersAreCells == ASSUME CacheTyped, Bounds PROVE CellsOfOthers \in Nat
<1> DEFINE All == Builds \X (0 .. MAX_CELLS)
           S == UNION {{b} \X DOMAIN card.blob[b] : b \in Builds \ {cache.build}}
<1>1. \A b \in Builds : DOMAIN card.blob[b] \subseteq 0 .. MAX_CELLS
  <2> SUFFICES ASSUME NEW b \in Builds PROVE DOMAIN card.blob[b] \subseteq 0 .. MAX_CELLS
      OBVIOUS
  <2>1. /\ DOMAIN card.blob[b] = 1 .. Len(card.blob[b]) /\ Len(card.blob[b]) \in Nat
        /\ Len(card.blob[b]) =< MAX_CELLS
    BY CardIs, FileIs DEF CacheTyped, Bounds
  <2> QED BY <2>1, CacheAssumption
<1>2. S \in SUBSET All
    BY <1>1
<1>3. IsFiniteSet(All)
  <2>1. IsFiniteSet(Builds) /\ IsFiniteSet(0 .. MAX_CELLS)
    BY FS_Interval, CacheAssumption DEF Builds
  <2> QED BY <2>1, FS_Product
<1> HIDE DEF S, All
<1>4. IsFiniteSet(S)
    BY <1>2, <1>3, FS_Subset
<1> QED BY <1>4, FS_CardinalityType DEF CellsOfOthers, S

(* What an append leaves, whole or cut short.                               *)
LEMMA AppendedIs ==
    ASSUME CacheTyped, Bounds, Control, NEW t \in Tiles, MayPut(t), NEW cells \in Files,
           Len(cells) =< Len(Record(t)), Appended(cells)
    PROVE  /\ cache.open /\ cache.build \in Builds /\ AppendOffset = cache.len
           /\ cache.len \in 0 .. Len(card.blob[cache.build]) /\ card.blob[cache.build] \in Files
           /\ cache.len + Len(Record(t)) =< MAX_CELLS
           /\ card' \in Cards /\ card'.idx = card.idx /\ card'.manifest = card.manifest
           /\ \A b \in Builds : b # cache.build => card'.blob[b] = card.blob[b]
           /\ card'.blob[cache.build] = Overwrite(card.blob[cache.build], cache.len, cells)
           /\ \A b \in Builds : /\ Len(card'.blob[b]) =< MAX_CELLS
                                /\ Len(card.blob[b]) =< Len(card'.blob[b])
           /\ cache.len + Len(cells) =< Len(card'.blob[cache.build])
<1> DEFINE here == cache.build
           file == card.blob[here]
           new == Overwrite(file, cache.len, cells)
<1>1. cache.open /\ here \in Builds /\ card \in Cards /\ cache \in Caches
    BY DEF MayPut, CacheTyped, Control, Opened
<1>2. file \in Files /\ Len(file) \in Nat /\ Len(file) =< MAX_CELLS /\ cache.len \in Nat
      /\ cache.len =< Len(file)
    BY <1>1, CardIs, FileIs, CacheIs DEF Bounds
<1>3. Len(cells) \in Nat /\ Len(Record(t)) \in Nat
    BY RecordIs, FileIs
<1>4. cache.len + Len(Record(t)) + CellsOfOthers =< MAX_CELLS
    BY DEF MayPut, AppendOffset
<1>5. cache.len + Len(Record(t)) =< MAX_CELLS
    BY <1>2, <1>3, <1>4, OthersAreCells, CacheAssumption
<1>6. cache.len \in 0 .. Len(file)
    BY <1>2
<1>7. /\ new \in Files
      /\ Len(new) = IF cache.len + Len(cells) > Len(file) THEN cache.len + Len(cells) ELSE Len(file)
  <2> HIDE DEF file
  <2> QED BY <1>2, <1>6, OverwriteIs
<1>8. card' = BlobSet(card, here, new)
    BY DEF Appended, BlobSet, AppendOffset
<1> HIDE DEF new
<1>9. /\ card' \in Cards /\ card'.idx = card.idx /\ card'.manifest = card.manifest
      /\ \A a \in Builds : card'.blob[a] = IF a = here THEN new ELSE card.blob[a]
    BY <1>1, <1>7, <1>8, BlobSetIs
<1>10. /\ Len(new) =< MAX_CELLS /\ Len(file) =< Len(new) /\ cache.len + Len(cells) =< Len(new)
    BY <1>2, <1>3, <1>5, <1>7, CacheAssumption
<1>11. \A b \in Builds : Len(card.blob[b]) \in Nat /\ Len(card.blob[b]) =< MAX_CELLS
    BY <1>1, CardIs, FileIs DEF Bounds
<1> QED BY <1>1, <1>5, <1>6, <1>2, <1>9, <1>10, <1>11 DEF new, AppendOffset

LEMMA PutKeeps == ASSUME Kept, NEW t \in Tiles, Put(t) PROVE Kept'
<1> DEFINE index == IdxInsert(cache.index, t, AppendOffset + 1)
           len == AppendOffset + Len(Record(t))
<1>0. /\ CacheTyped /\ Bounds /\ Control /\ MayPut(t) /\ Appended(Record(t)) /\ cache \in Caches
      /\ ready /\ todo["net"] = <<>> /\ guard = "none" /\ t \notin DOMAIN cache.index
      /\ UNCHANGED <<synced, build, ready, draft, mishaps>>
    BY DEF Kept, Put, MayPut, CacheTyped
<1>1. Record(t) \in Files /\ Len(Record(t)) \in Nat /\ Len(Record(t)) >= 1 /\ Len(Record(t)) =< Len(Record(t))
    BY RecordIs, FileIs
<1>2. /\ cache.open /\ cache.build \in Builds /\ AppendOffset = cache.len
      /\ cache.len + Len(Record(t)) =< MAX_CELLS
      /\ card' \in Cards /\ card'.idx = card.idx
      /\ \A b \in Builds : /\ Len(card'.blob[b]) =< MAX_CELLS
                           /\ Len(card.blob[b]) =< Len(card'.blob[b])
      /\ cache.len + Len(Record(t)) =< Len(card'.blob[cache.build])
    BY <1>0, <1>1, AppendedIs
<1>3. cache.len \in Nat /\ cache.index \in Index /\ cache.pending \in Nat /\ Fits(cache.index)
    BY <1>0, CacheIs DEF Bounds
<1>4. AppendOffset + 1 \in 0 .. MAX_CELLS /\ len \in Nat /\ len = cache.len + Len(Record(t))
    BY <1>1, <1>2, <1>3, CacheAssumption
<1>5. index \in Index /\ Fits(index)
    BY <1>0, <1>3, <1>4, InsertIs
<1> HIDE DEF index, len
<1>6. /\ \/ cache' = [cache EXCEPT !.len = len, !.index = index, !.pending = @ + 1]
         \/ cache' = [cache EXCEPT !.len = len]
      /\ \/ guard' = "net" /\ todo' = [todo EXCEPT !["net"] = FlushSteps]
         \/ guard' = "none" /\ todo' = todo
    BY <1>0 DEF Put, index, len
<1>7. /\ cache' \in Caches /\ cache'.open = cache.open /\ cache'.build = cache.build
      /\ cache'.len = len /\ Fits(cache'.index)
  <2>1. CASE cache' = [cache EXCEPT !.len = len, !.index = index, !.pending = @ + 1]
    <3>1. cache' = [open |-> cache.open, build |-> cache.build, len |-> len, index |-> index,
                    pending |-> cache.pending + 1]
      BY <2>1, <1>0 DEF Caches
    <3> QED BY <3>1, <1>0, <1>3, <1>4, <1>5, CacheIs DEF Caches
  <2>2. CASE cache' = [cache EXCEPT !.len = len]
    <3>1. cache' = [open |-> cache.open, build |-> cache.build, len |-> len, index |-> cache.index,
                    pending |-> cache.pending]
      BY <2>2, <1>0 DEF Caches
    <3> QED BY <3>1, <1>0, <1>3, <1>4, CacheIs DEF Caches
  <2> QED BY <1>6, <2>1, <2>2
<1>8. todo["ui"] = <<>>
    BY <1>0 DEF Control, Guarding
<1>9. /\ todo' \in [Tasks -> Lists] /\ todo'["ui"] = todo["ui"] /\ \A w \in Tasks : Planned(todo'[w])
      /\ \/ guard' = "none" /\ todo'["net"] = <<>>
         \/ guard' = "net" /\ todo'["net"] # <<>> /\ Head(todo'["net"]) = "sync"
      /\ \A z : Holds(todo'["net"], z) => z \in {"sync", "save", "release"} /\ guard' = "net"
  <2>1. FlushSteps \in Lists
    BY FlushPlan DEF Planned
  <2>2. CASE guard' = "net" /\ todo' = [todo EXCEPT !["net"] = FlushSteps]
    <3>1. todo' \in [Tasks -> Lists] /\ todo'["net"] = FlushSteps /\ todo'["ui"] = todo["ui"]
      BY <1>0, <2>1, <2>2 DEF CacheTyped, Tasks
    <3> QED BY <3>1, <2>2, <1>0, FlushPlan DEF Control, Plans, Tasks
  <2>3. CASE guard' = "none" /\ todo' = todo
    BY <1>0, <2>3, NothingPlanned DEF Control, Plans, CacheTyped
  <2> QED BY <1>6, <2>2, <2>3
<1>10. CacheTyped'
    BY <1>0, <1>2, <1>6, <1>7, <1>9 DEF CacheTyped, Tasks
<1>11. Bounds'
  <2>1. \A b \in Builds : Len(synced'[b]) =< Len(card'.blob[b])
    <3> SUFFICES ASSUME NEW b \in Builds PROVE Len(synced[b]) =< Len(card'.blob[b])
        BY <1>0
    <3>1. synced[b] \in Files /\ card.blob[b] \in Files /\ card'.blob[b] \in Files
      BY <1>0, <1>2, CardIs DEF CacheTyped
    <3>2. Len(synced[b]) \in Nat /\ Len(card.blob[b]) \in Nat /\ Len(card'.blob[b]) \in Nat
      BY <3>1, FileIs
    <3> QED BY <1>0, <1>2, <3>2 DEF Bounds
  <2>2. cache'.open => cache'.len =< Len(card'.blob[cache'.build])
    BY <1>2, <1>4, <1>7
  <2> QED BY <2>1, <2>2, <1>0, <1>2, <1>7 DEF Bounds
<1>12. Plans' /\ FlushesOnly' /\ Guarding' /\ Booting' /\ Judging'
    BY <1>0, <1>8, <1>9, NothingPlanned DEF Control, Plans, FlushesOnly, Guarding, Booting, Judging, Tasks
<1>13. Drafting' /\ Opened' /\ Closed' /\ Dropping'
    BY <1>0, <1>2, <1>7, <1>8, <1>9 DEF Control, Drafting, Opened, Closed, Dropping, At, Tasks
<1>14. Leading' /\ Leaving' /\ Arrived'
    BY <1>0, <1>7, <1>9, NothingPlanned DEF Control, Leading, Leaving, Arrived
<1> QED BY <1>10, <1>11, <1>12, <1>13, <1>14 DEF Control, Kept

LEMMA PutFailsKeeps == ASSUME Kept, NEW t \in Tiles, PutFails(t) PROVE Kept'
<1>0. /\ CacheTyped /\ Bounds /\ Control /\ MayPut(t)
      /\ UNCHANGED <<synced, cache, build, ready, todo, draft, guard>>
      /\ mishaps' \subseteq Mishaps
    BY DEF Kept, PutFails, Happens, CacheTyped
<1>1. PICK n \in 1 .. PayloadSize[t] : Appended(SubSeq(Record(t), 1, n))
    BY DEF PutFails
<1>2. /\ SubSeq(Record(t), 1, n) \in Files /\ Len(SubSeq(Record(t), 1, n)) = n
      /\ n \in Nat /\ n =< Len(Record(t))
    BY PieceIs, RecordIs
<1>3. /\ card' \in Cards /\ card'.idx = card.idx /\ cache.build \in Builds
      /\ \A b \in Builds : /\ Len(card'.blob[b]) =< MAX_CELLS
                           /\ Len(card.blob[b]) =< Len(card'.blob[b])
  <2> DEFINE cells == SubSeq(Record(t), 1, n)
  <2>1. cells \in Files /\ Len(cells) =< Len(Record(t)) /\ Appended(cells)
    BY <1>1, <1>2
  <2> HIDE DEF cells
  <2> QED BY <1>0, <2>1, AppendedIs
<1>4. \A b \in Builds : Len(synced[b]) \in Nat /\ Len(card.blob[b]) \in Nat /\ Len(card'.blob[b]) \in Nat
    BY <1>0, <1>3, CardIs, FileIs DEF CacheTyped
<1>5. cache.len \in Nat
    BY <1>0, CacheIs DEF CacheTyped
<1>6. CacheTyped'
    BY <1>0, <1>3 DEF CacheTyped
<1>7. Bounds'
    BY <1>0, <1>3, <1>4, <1>5 DEF Bounds
<1>8. Control'
    BY <1>0 DEF Control, Plans, FlushesOnly, Guarding, Booting, Judging, Drafting, Opened, Closed,
                Dropping, Leading, Leaving, Arrived, At
<1> QED BY <1>6, <1>7, <1>8 DEF Kept

LEMMA FlushKeeps == ASSUME Kept, Flush PROVE Kept'
<1>0. /\ CacheTyped /\ Bounds /\ Control /\ ready /\ todo["ui"] = <<>> /\ guard = "none" /\ guard' = "ui"
      /\ todo' = [todo EXCEPT !["ui"] = FlushSteps]
      /\ UNCHANGED <<card, synced, cache, build, ready, draft>>
      /\ mishaps' \subseteq Mishaps
    BY DEF Kept, Flush, Happens, CacheTyped
<1>1. FlushSteps \in Lists
    BY FlushPlan DEF Planned
<1>2. todo' \in [Tasks -> Lists] /\ todo'["ui"] = FlushSteps /\ todo'["net"] = todo["net"]
    BY <1>0, <1>1 DEF CacheTyped, Tasks
<1>3. /\ Planned(todo'["ui"]) /\ todo'["ui"] # <<>> /\ Head(todo'["ui"]) = "sync"
      /\ \A z : Holds(todo'["ui"], z) <=> z \in {"sync", "save", "release"}
    BY <1>2, FlushPlan
<1>4. CacheTyped' /\ Bounds'
    BY <1>0, <1>2 DEF CacheTyped, Bounds, Tasks
<1>5. Plans' /\ FlushesOnly' /\ Guarding' /\ Booting' /\ Judging'
    BY <1>0, <1>2, <1>3 DEF Control, Plans, FlushesOnly, Guarding, Booting, Judging, Tasks
<1>6. Drafting' /\ Opened' /\ Closed' /\ Dropping'
    BY <1>0, <1>2, <1>3 DEF Control, Drafting, Opened, Closed, Dropping, At, Tasks
<1>7. Leading' /\ Leaving' /\ Arrived'
    BY <1>0, <1>2 DEF Control, Leading, Leaving, Arrived
<1> QED BY <1>4, <1>5, <1>6, <1>7 DEF Control, Kept

(* The steps of a flush or of a save, whoever takes them.                   *)
LEMMA FlushStep ==
    ASSUME CacheTyped, Control, NEW who \in Tasks, NEW h \in {"sync", "save", "write"}, At(who, h),
           (Advance(who, <<>>) /\ draft'[who] = NoDraft) \/ (h = "save" /\ Advance(who, <<"write">>)),
           UNCHANGED <<build, ready, guard>>,
           cache'.open = cache.open, cache'.build = cache.build, cache'.index = cache.index,
           \A w \in Tasks : w # who => draft'[w] = draft[w]
    PROVE  Control' /\ todo' \in [Tasks -> Lists]
<1>1. /\ todo' \in [Tasks -> Lists] /\ \A w \in Tasks : w # who => todo'[w] = todo[w]
      /\ \A w \in Tasks : Planned(todo'[w])
      /\ todo[who] # <<>> /\ Head(todo[who]) = h
      /\ todo'[who] # <<>>
      /\ \/ /\ Head(todo'[who]) \in {"save", "check", "begun", "manifest", "close", "release"}
            /\ draft'[who] = NoDraft
         \/ Head(todo'[who]) = "write"
      /\ \A x : Holds(todo[who], x) => x = h \/ Holds(todo'[who], x)
      /\ \A x : Holds(todo'[who], x) => x = "write" \/ Holds(todo[who], x)
  <2>1. CASE Advance(who, <<>>) /\ draft'[who] = NoDraft
    BY <2>1, Moves DEF Control
  <2>2. CASE h = "save" /\ Advance(who, <<"write">>)
    BY <2>2, MovesInto DEF Control, Steps
  <2> QED BY <2>1, <2>2
<1>2. Plans' /\ FlushesOnly' /\ Guarding' /\ Booting' /\ Judging'
    BY <1>1 DEF Control, Plans, FlushesOnly, Guarding, Booting, Judging, Tasks
<1>3. Drafting' /\ Opened' /\ Closed' /\ Dropping'
    BY <1>1 DEF Control, Drafting, Opened, Closed, Dropping, At, Tasks
<1>4. Leading' /\ Leaving' /\ Arrived'
    BY <1>1 DEF Control, Leading, Leaving, Arrived, Tasks
<1> QED BY <1>1, <1>2, <1>3, <1>4 DEF Control

LEMMA DraftSetIs ==
    ASSUME draft \in [Tasks -> Drafts], NEW who \in Tasks, NEW d \in Drafts, draft' = [draft EXCEPT ![who] = d]
    PROVE  draft' \in [Tasks -> Drafts] /\ draft'[who] = d /\ \A w \in Tasks : w # who => draft'[w] = draft[w]
OBVIOUS

LEMMA SyncKeeps == ASSUME Kept, NEW who \in Tasks, Sync(who) PROVE Kept'
<1>0. /\ CacheTyped /\ Bounds /\ Control /\ At(who, "sync") /\ Advance(who, <<>>)
      /\ UNCHANGED <<card, cache, build, ready, draft, guard, mishaps>>
    BY DEF Kept, Sync
<1>1. draft[who] = NoDraft
    BY <1>0 DEF Control, Drafting, At
<1>2. Control' /\ todo' \in [Tasks -> Lists]
    BY <1>0, <1>1, FlushStep
<1>3. /\ synced' \in [Builds -> Files]
      /\ \A b \in Builds : synced'[b] = card.blob[b] \/ synced'[b] = synced[b]
  <2>1. CASE cache.open
    <3>1. synced' = [synced EXCEPT ![cache.build] = card.blob[cache.build]]
      BY <2>1 DEF Sync
    <3>2. cache.build \in Builds
      BY <1>0, <2>1 DEF Control, Opened
    <3>3. card.blob[cache.build] \in Files
      BY <1>0, <3>2, CardIs DEF CacheTyped
    <3> QED BY <1>0, <3>1, <3>3 DEF CacheTyped
  <2>2. CASE ~cache.open
    BY <1>0, <2>2 DEF Sync, CacheTyped
  <2> QED BY <2>1, <2>2
<1>4. \A b \in Builds : Len(card.blob[b]) \in Nat
    BY <1>0, CardIs, FileIs DEF CacheTyped
<1>5. CacheTyped'
    BY <1>0, <1>2, <1>3 DEF CacheTyped
<1>6. Bounds'
    BY <1>0, <1>3, <1>4 DEF Bounds
<1> QED BY <1>2, <1>5, <1>6 DEF Kept

LEMMA SaveBeginsKeeps == ASSUME Kept, NEW who \in Tasks, SaveBegins(who) PROVE Kept'
<1> DEFINE d == [build |-> cache.build, idx |-> [len |-> cache.len, entries |-> cache.index]]
<1>0. /\ CacheTyped /\ Bounds /\ Control /\ At(who, "save") /\ Advance(who, <<"write">>)
      /\ draft' = [draft EXCEPT ![who] = d]
      /\ UNCHANGED <<synced, cache, build, ready, guard, mishaps>>
    BY DEF Kept, SaveBegins
<1>1. /\ card' \in Cards /\ card'.blob = card.blob
      /\ \A b \in Builds : card'.idx[b] = IF b = cache.build THEN NoIndex ELSE card.idx[b]
  <2>1. card \in Cards /\ NoIndex \in IdxFile /\ card' = IdxSet(card, cache.build, NoIndex)
    BY <1>0, NothingIndexed DEF CacheTyped, IdxSet, SaveBegins
  <2> QED BY <2>1, IdxSetIs
<1>2. d \in Drafts /\ d.idx.entries = cache.index
    BY <1>0, CacheIs DEF CacheTyped, Drafts, IdxFile
<1> HIDE DEF d
<1>3. draft' \in [Tasks -> Drafts] /\ draft'[who] = d /\ \A w \in Tasks : w # who => draft'[w] = draft[w]
    BY <1>0, <1>2, DraftSetIs DEF CacheTyped
<1>4. Control' /\ todo' \in [Tasks -> Lists]
    BY <1>0, <1>3, FlushStep
<1>5. CacheTyped'
    BY <1>0, <1>1, <1>3, <1>4 DEF CacheTyped
<1>6. Bounds'
    BY <1>0, <1>1, <1>2, <1>3, NothingIndexed DEF Bounds
<1> QED BY <1>4, <1>5, <1>6 DEF Kept

LEMMA SaveFailsKeeps == ASSUME Kept, NEW who \in Tasks, SaveFails(who) PROVE Kept'
<1>0. /\ CacheTyped /\ Bounds /\ Control /\ At(who, "save") /\ Advance(who, <<>>)
      /\ UNCHANGED <<card, synced, cache, build, ready, draft, guard>>
      /\ mishaps' \subseteq Mishaps
    BY DEF Kept, SaveFails, Happens, CacheTyped
<1>1. draft[who] = NoDraft
    BY <1>0 DEF Control, Drafting, At
<1>2. Control' /\ todo' \in [Tasks -> Lists]
    BY <1>0, <1>1, FlushStep
<1>3. CacheTyped' /\ Bounds'
    BY <1>0, <1>2 DEF CacheTyped, Bounds
<1> QED BY <1>2, <1>3 DEF Kept

LEMMA SaveEndsKeeps == ASSUME Kept, NEW who \in Tasks, SaveEnds(who) PROVE Kept'
<1>0. /\ CacheTyped /\ Bounds /\ Control /\ At(who, "write") /\ Advance(who, <<>>)
      /\ cache' = [cache EXCEPT !.pending = 0]
      /\ draft' = [draft EXCEPT ![who] = NoDraft]
      /\ UNCHANGED <<synced, build, ready, guard, mishaps>>
    BY DEF Kept, SaveEnds
<1>1. draft[who] \in Drafts /\ draft[who].idx \in IdxFile /\ Fits(draft[who].idx.entries)
    BY <1>0 DEF CacheTyped, Bounds, Drafts
<1>2. PICK idx \in {draft[who].idx, NoIndex} : card' = [card EXCEPT !.idx[draft[who].build] = idx]
    BY DEF SaveEnds
<1>3. idx \in IdxFile /\ Fits(idx.entries)
    BY <1>1, <1>2, NothingIndexed
<1>4. /\ card' \in Cards /\ card'.blob = card.blob
      /\ \A b \in Builds : card'.idx[b] = IF b = draft[who].build THEN idx ELSE card.idx[b]
  <2>1. card \in Cards /\ card' = IdxSet(card, draft[who].build, idx)
    BY <1>0, <1>2 DEF CacheTyped, IdxSet
  <2> QED BY <2>1, <1>3, IdxSetIs
<1>5. NoDraft \in Drafts
    BY NothingIndexed, CacheAssumption DEF Drafts, NoDraft
<1>6. draft' \in [Tasks -> Drafts] /\ draft'[who] = NoDraft /\ \A w \in Tasks : w # who => draft'[w] = draft[w]
    BY <1>0, <1>5, DraftSetIs DEF CacheTyped
<1>7. cache' = [open |-> cache.open, build |-> cache.build, len |-> cache.len, index |-> cache.index,
                pending |-> 0]
    BY <1>0 DEF CacheTyped, Caches
<1>8. cache' \in Caches
    BY <1>0, <1>7, CacheIs DEF CacheTyped, Caches
<1>9. Control' /\ todo' \in [Tasks -> Lists]
    BY <1>0, <1>6, <1>7, FlushStep
<1>10. CacheTyped'
    BY <1>0, <1>4, <1>6, <1>8, <1>9 DEF CacheTyped
<1>11. Bounds'
    BY <1>0, <1>3, <1>4, <1>6, <1>7, NothingIndexed DEF Bounds
<1> QED BY <1>9, <1>10, <1>11 DEF Kept

LEMMA ReleaseKeeps == ASSUME Kept, NEW who \in Tasks, Release(who) PROVE Kept'
<1>0. /\ CacheTyped /\ Bounds /\ Control /\ At(who, "release") /\ Advance(who, <<>>) /\ guard' = "none"
      /\ UNCHANGED <<card, synced, cache, build, ready, draft, mishaps>>
    BY DEF Kept, Release
<1>1. /\ todo' \in [Tasks -> Lists] /\ \A w \in Tasks : w # who => todo'[w] = todo[w]
      /\ \A w \in Tasks : Planned(todo'[w])
      /\ todo[who] # <<>> /\ Head(todo[who]) = "release" /\ todo'[who] = <<>>
      /\ \A x : Holds(todo[who], x) <=> x = "release" \/ Holds(todo'[who], x)
    BY <1>0, Moves DEF Control
<1>2. \A x : ~Holds(<<>>, x)
    BY NothingPlanned
<1>3. CacheTyped' /\ Bounds'
    BY <1>0, <1>1 DEF CacheTyped, Bounds, Tasks
<1>4. Plans' /\ FlushesOnly' /\ Guarding' /\ Booting' /\ Judging'
    BY <1>0, <1>1, <1>2 DEF Control, Plans, FlushesOnly, Guarding, Booting, Judging, Tasks
<1>5. Drafting' /\ Opened' /\ Closed' /\ Dropping'
    BY <1>0, <1>1 DEF Control, Drafting, Opened, Closed, Dropping, At, Tasks
<1>6. Leading' /\ Leaving' /\ Arrived'
    BY <1>0, <1>1, <1>2 DEF Control, Booting, Leading, Leaving, Arrived, Tasks
<1> QED BY <1>3, <1>4, <1>5, <1>6 DEF Control, Kept

(* What a power cut leaves is as long as what was flushed.                  *)
LEMMA ImageIs ==
    ASSUME NEW file \in Files, NEW flushed \in Files, Len(flushed) =< Len(file),
           NEW image \in AfterPowerCut(file, flushed)
    PROVE  /\ image \in Files /\ Len(image) = Len(flushed)
           /\ \A i \in 1 .. Len(flushed) : image[i] = file[i] \/ image[i] = flushed[i]
<1> DEFINE n == Len(flushed)
<1>1. n \in Nat /\ Len(file) \in Nat /\ \A i \in 1 .. n : i \in 1 .. Len(file)
    BY FileIs
<1>2. PICK kept : image = [i \in 1 .. n |-> IF i \in kept THEN file[i] ELSE flushed[i]]
    BY DEF AfterPowerCut
<1>3. \A i \in 1 .. n : file[i] \in Cell /\ flushed[i] \in Cell
    BY <1>1, FileIs
<1> HIDE DEF n
<1>4. DOMAIN image = 1 .. n /\ image = [i \in 1 .. n |-> image[i]] /\ \A i \in 1 .. n : image[i] \in Cell
    BY <1>2, <1>3
<1>5. image \in Files /\ Len(image) = n
    BY <1>1, <1>4, FileFrom
<1>6. \A i \in 1 .. n : image[i] = file[i] \/ image[i] = flushed[i]
    BY <1>2
<1> QED BY <1>5, <1>6 DEF n

LEMMA PowerCutIs ==
    ASSUME CacheTyped, Bounds, PowerCut
    PROVE  /\ card' \in Cards /\ card'.idx = card.idx /\ card'.manifest = card.manifest
           /\ synced' \in [Builds -> Files] /\ synced' = card'.blob
           /\ \A b \in Builds :
                /\ card'.blob[b] \in AfterPowerCut(card.blob[b], synced[b])
                /\ Len(card'.blob[b]) = Len(synced[b])
                /\ \A i \in 1 .. Len(synced[b]) :
                      card'.blob[b][i] = card.blob[b][i] \/ card'.blob[b][i] = synced[b][i]
<1>1. PICK image \in [Builds -> UNION {AfterPowerCut(card.blob[b], synced[b]) : b \in Builds}] :
          /\ \A b \in Builds : image[b] \in AfterPowerCut(card.blob[b], synced[b])
          /\ card' = [card EXCEPT !.blob = image]
          /\ synced' = image
    BY DEF PowerCut
<1>2. ASSUME NEW b \in Builds
      PROVE  /\ image[b] \in Files /\ Len(image[b]) = Len(synced[b])
             /\ \A i \in 1 .. Len(synced[b]) : image[b][i] = card.blob[b][i] \/ image[b][i] = synced[b][i]
  <2>1. card.blob[b] \in Files /\ synced[b] \in Files /\ Len(synced[b]) =< Len(card.blob[b])
    BY CardIs DEF CacheTyped, Bounds
  <2>2. image[b] \in AfterPowerCut(card.blob[b], synced[b])
    BY <1>1
  <2> QED BY <2>1, <2>2, ImageIs
<1>3. image \in [Builds -> Files]
    BY <1>1, <1>2
<1>4. card' = [blob |-> image, idx |-> card.idx, manifest |-> card.manifest]
    BY <1>1 DEF CacheTyped, Cards
<1>5. card' \in Cards /\ card'.blob = image /\ card'.idx = card.idx /\ card'.manifest = card.manifest
    BY <1>3, <1>4, CardIs DEF Cards, CacheTyped
<1> QED BY <1>1, <1>2, <1>3, <1>5

LEMMA NothingOpen ==
    /\ ClosedCache \in Caches /\ ~ClosedCache.open /\ ClosedCache.index = NoEntries
    /\ ClosedCache.build = 0 /\ ClosedCache.len = 0 /\ NoDraft \in Drafts /\ 0 \in 0 .. BUILDS
BY NothingIndexed, CacheAssumption DEF ClosedCache, Caches, Drafts, NoDraft

LEMMA InitKept == ASSUME Init PROVE Kept
<1>1. <<>> \in Files /\ Len(<<>>) = 0 /\ <<>> \in Lists
    BY EmptySeq DEF Files, Lists
<1>2. card = [blob |-> [b \in Builds |-> <<>>], idx |-> [b \in Builds |-> NoIndex], manifest |-> 0]
    BY DEF Init
<1>3. card \in Cards /\ \A b \in Builds : card.blob[b] = <<>> /\ card.idx[b] = NoIndex
    BY <1>1, <1>2, NothingIndexed, CacheAssumption DEF Cards
<1>4. CacheTyped
    BY <1>1, <1>3, NothingOpen DEF Init, CacheTyped
<1>5. Bounds
    BY <1>1, <1>3, NothingOpen, NothingIndexed, CacheAssumption DEF Init, Bounds
<1>6. Control
  <2>1. \A w \in Tasks : todo[w] = <<>> /\ draft[w] = NoDraft
    BY DEF Init
  <2>2. todo["net"] = <<>> /\ todo["ui"] = <<>>
    BY <2>1 DEF Tasks
  <2> QED BY <2>1, <2>2, NothingPlanned, NothingOpen
          DEF Control, Plans, FlushesOnly, Guarding, Booting, Judging, Drafting, Opened, Closed,
              Dropping, Leading, Leaving, Arrived, At, Init
<1> QED BY <1>4, <1>5, <1>6 DEF Kept

LEMMA PowerCutKeeps == ASSUME Kept, PowerCut PROVE Kept'
<1>0. /\ CacheTyped /\ Bounds
      /\ cache' = ClosedCache /\ build' = 0 /\ ready' = FALSE /\ guard' = "none"
      /\ todo' = [w \in Tasks |-> <<>>] /\ draft' = [w \in Tasks |-> NoDraft]
      /\ mishaps' \subseteq Mishaps
    BY DEF Kept, PowerCut, Happens, CacheTyped
<1>1. /\ card' \in Cards /\ card'.idx = card.idx
      /\ synced' \in [Builds -> Files] /\ synced' = card'.blob
      /\ \A b \in Builds : Len(card'.blob[b]) = Len(synced[b])
    BY <1>0, PowerCutIs
<1>2. <<>> \in Lists
    BY EmptySeq DEF Lists
<1>3. CacheTyped'
    BY <1>0, <1>1, <1>2, NothingOpen DEF CacheTyped
<1>4. Bounds'
  <2>1. \A b \in Builds : Len(card'.blob[b]) =< MAX_CELLS /\ Len(synced'[b]) =< Len(card'.blob[b])
    <3> SUFFICES ASSUME NEW b \in Builds
                 PROVE Len(card'.blob[b]) =< MAX_CELLS /\ Len(card'.blob[b]) =< Len(card'.blob[b])
        BY <1>1
    <3>1. Len(synced[b]) \in Nat /\ Len(card.blob[b]) \in Nat
      BY <1>0, CardIs, FileIs DEF CacheTyped
    <3> QED BY <1>0, <1>1, <3>1, CacheAssumption DEF Bounds
  <2> QED BY <2>1, <1>0, <1>1, NothingOpen, NothingIndexed DEF Bounds
<1>5. Control'
  <2>1. \A w \in Tasks : todo'[w] = <<>> /\ draft'[w] = NoDraft
    BY <1>0
  <2>2. todo'["net"] = <<>> /\ todo'["ui"] = <<>>
    BY <2>1 DEF Tasks
  <2> QED BY <2>1, <2>2, <1>0, NothingPlanned, NothingOpen
          DEF Control, Plans, FlushesOnly, Guarding, Booting, Judging, Drafting, Opened, Closed,
              Dropping, Leading, Leaving, Arrived, At
<1> QED BY <1>3, <1>4, <1>5 DEF Kept

LEMMA NextKeeps == ASSUME Kept, [Next]_vars PROVE Kept'
<1>1. CASE Begin \/ Check \/ Begun \/ ManifestSave
    BY <1>1, BeginKeeps, CheckKeeps, BegunKeeps, ManifestSaveKeeps
<1>2. CASE \E found \in Builds : found >= build /\ Refresh(found)
    BY <1>2, RefreshKeeps
<1>3. CASE OpenBlob \/ OpenFails \/ LoadIndex \/ CloseBlob \/ DropBlob \/ DropIdx
    BY <1>3, OpenBlobKeeps, OpenFailsKeeps, LoadIndexKeeps, CloseBlobKeeps, DropBlobKeeps, DropIdxKeeps
<1>4. CASE \E t \in Tiles : Put(t) \/ PutFails(t)
    BY <1>4, PutKeeps, PutFailsKeeps
<1>5. CASE Flush
    BY <1>5, FlushKeeps
<1>6. CASE \E who \in Tasks : Sync(who) \/ SaveBegins(who) \/ SaveFails(who) \/ SaveEnds(who) \/ Release(who)
    BY <1>6, SyncKeeps, SaveBeginsKeeps, SaveFailsKeeps, SaveEndsKeeps, ReleaseKeeps
<1>7. CASE PowerCut
    BY <1>7, PowerCutKeeps
<1>8. CASE UNCHANGED vars
    BY <1>8 DEF vars, Kept, CacheTyped, Bounds, Control, Plans, FlushesOnly, Guarding, Booting, Judging,
                Drafting, Opened, Closed, Dropping, Leading, Leaving, Arrived, At
<1> QED BY <1>1, <1>2, <1>3, <1>4, <1>5, <1>6, <1>7, <1>8 DEF Next

(* The files, the index and the two tasks' steps keep their shapes; the     *)
(* index fits its array, and the program's count of an open blob never      *)
(* passes the file's end (tilecache.cpp:106, 298).                          *)
THEOREM CacheIsTyped == Spec => []TypeOK
<1>1. Init => Kept
    BY InitKept
<1>2. Kept /\ [Next]_vars => Kept'
    BY NextKeeps
<1>3. Kept => TypeOK
  <2> SUFFICES ASSUME Kept PROVE TypeOK
      OBVIOUS
  <2>1. CacheTyped /\ Bounds
    BY DEF Kept
  <2>2. todo \in [Tasks -> Seq(Steps)] /\ draft \in [Tasks -> [build : 0 .. BUILDS, idx : IdxFile]]
    BY <2>1 DEF CacheTyped, Lists, Drafts
  <2>3. /\ card.blob \in [Builds -> Seq(Cell)] /\ card.idx \in [Builds -> IdxFile]
        /\ card.manifest \in 0 .. BUILDS /\ synced \in [Builds -> Seq(Cell)]
    BY <2>1, CardIs DEF CacheTyped, Files
  <2>4. cache \in [open : BOOLEAN, build : 0 .. BUILDS, len : Nat, index : Index, pending : Nat]
    BY <2>1 DEF CacheTyped, Caches
  <2> QED BY <2>1, <2>2, <2>3, <2>4 DEF CacheTyped, Bounds, Fits, TypeOK
<1> QED BY <1>1, <1>2, <1>3, PTL DEF Spec

-----------------------------------------------------------------------------
(***************************************************************************)
(* What the blob holds                                                      *)
(***************************************************************************)

(* The first n cells of a file are whole records: there is a set of places  *)
(* where a record ends or the first begins, and it is closed under going    *)
(* from a header to the end of its payload.                                 *)
FormedBy(file, n, ends) ==
    /\ 0 \in ends /\ n \in ends
    /\ \A p \in ends : p < n =>
        /\ file[p + 1].part = 0 /\ RecordEnd(file, p) \in ends
        /\ \A i \in 1 .. PayloadSize[file[p + 1].tile] :
              file[p + 1 + i] = [tile |-> file[p + 1].tile, part |-> i]
Formed(file, n) == n =< Len(file) /\ \E ends \in SUBSET (0 .. n) : FormedBy(file, n, ends)

(* What an index says of a blob it was made for, if the blob is still as    *)
(* long.                                                                    *)
Claims(file, idx) ==
    \A t \in DOMAIN idx.entries :
        /\ idx.entries[t] + PayloadSize[t] =< idx.len
        /\ idx.len =< Len(file) => HoldsPayload(file, idx.entries[t], t)

LEMMA FormedNothing == ASSUME NEW file \in Files PROVE Formed(file, 0)
<1>1. 0 =< Len(file) /\ {0} \in SUBSET (0 .. 0)
    BY FileIs
<1>2. FormedBy(file, 0, {0})
  <2>1. \A p \in {0} : ~(p < 0)
    OBVIOUS
  <2> QED BY <2>1 DEF FormedBy
<1> QED BY <1>1, <1>2 DEF Formed

LEMMA FormedPlace ==
    ASSUME NEW file \in Files, NEW n \in Nat, n =< Len(file), NEW ends \in SUBSET (0 .. n),
           FormedBy(file, n, ends), NEW p \in ends, p < n
    PROVE  /\ p \in Nat /\ p + 1 \in 1 .. n /\ p + 1 \in 1 .. Len(file) /\ file[p + 1].tile \in Tiles
           /\ PayloadSize[file[p + 1].tile] \in Nat
           /\ RecordEnd(file, p) = p + 1 + PayloadSize[file[p + 1].tile]
           /\ RecordEnd(file, p) \in 0 .. n
           /\ \A i \in 1 .. PayloadSize[file[p + 1].tile] : p + 1 + i \in 1 .. n
           /\ RecordAt(file, p)
<1>1. p \in Nat /\ p + 1 \in 1 .. n /\ p + 1 \in 1 .. Len(file) /\ Len(file) \in Nat /\ p < Len(file)
    BY FileIs
<1>2. file[p + 1].tile \in Tiles
    BY <1>1, FileIs
<1>3. PayloadSize[file[p + 1].tile] \in Nat
    BY <1>2, SizeIs
<1>4. RecordEnd(file, p) = p + 1 + PayloadSize[file[p + 1].tile]
    BY DEF RecordEnd
<1>5. RecordEnd(file, p) \in 0 .. n /\ file[p + 1].part = 0
    BY DEF FormedBy
<1>6. \A i \in 1 .. PayloadSize[file[p + 1].tile] : p + 1 + i \in 1 .. n
    BY <1>1, <1>3, <1>4, <1>5
<1> QED BY <1>1, <1>2, <1>3, <1>4, <1>5, <1>6 DEF RecordAt

(* A file that begins the same.                                             *)
LEMMA FormedSame ==
    ASSUME NEW file \in Files, NEW n \in Nat, Formed(file, n), NEW g \in Files, n =< Len(g),
           \A i \in 1 .. n : g[i] = file[i]
    PROVE  Formed(g, n)
<1>1. PICK ends \in SUBSET (0 .. n) : FormedBy(file, n, ends)
    BY DEF Formed
<1>2. n =< Len(file)
    BY DEF Formed
<1>3. ASSUME NEW p \in ends, p < n
      PROVE  /\ g[p + 1].part = 0 /\ RecordEnd(g, p) \in ends
             /\ \A i \in 1 .. PayloadSize[g[p + 1].tile] :
                   g[p + 1 + i] = [tile |-> g[p + 1].tile, part |-> i]
  <2>1. /\ p + 1 \in 1 .. n
        /\ RecordEnd(file, p) = p + 1 + PayloadSize[file[p + 1].tile]
        /\ \A i \in 1 .. PayloadSize[file[p + 1].tile] : p + 1 + i \in 1 .. n
    BY <1>1, <1>2, <1>3, FormedPlace
  <2>2. g[p + 1] = file[p + 1]
    BY <2>1
  <2>3. RecordEnd(g, p) = RecordEnd(file, p)
    BY <2>2 DEF RecordEnd
  <2>4. /\ file[p + 1].part = 0 /\ RecordEnd(file, p) \in ends
        /\ \A i \in 1 .. PayloadSize[file[p + 1].tile] :
              file[p + 1 + i] = [tile |-> file[p + 1].tile, part |-> i]
    BY <1>1, <1>3 DEF FormedBy
  <2> QED BY <2>1, <2>2, <2>3, <2>4
<1>4. FormedBy(g, n, ends)
    BY <1>1, <1>3 DEF FormedBy
<1> QED BY <1>4 DEF Formed

(* A record appended to whole records.                                      *)
LEMMA FormedAppend ==
    ASSUME NEW file \in Files, NEW n \in Nat, Formed(file, n), NEW t \in Tiles
    PROVE  LET g == Overwrite(file, n, Record(t))
               m == n + Len(Record(t))
           IN  /\ g \in Files /\ m \in Nat /\ m =< Len(g) /\ Formed(g, m)
               /\ \A i \in 1 .. n : g[i] = file[i]
               /\ HoldsPayload(g, n + 1, t) /\ n + 1 + PayloadSize[t] = m
<1> DEFINE g == Overwrite(file, n, Record(t))
           size == PayloadSize[t]
           m == n + Len(Record(t))
<1>1. PICK ends \in SUBSET (0 .. n) : FormedBy(file, n, ends)
    BY DEF Formed
<1>2. n =< Len(file) /\ n \in 0 .. Len(file) /\ Len(file) \in Nat
    BY FileIs DEF Formed
<1>3. /\ Record(t) \in Files /\ Len(Record(t)) = size + 1 /\ size \in Nat
      /\ \A i \in 1 .. size + 1 : Record(t)[i] = [tile |-> t, part |-> i - 1]
    BY RecordIs
<1>4. /\ g \in Files
      /\ Len(g) = IF n + Len(Record(t)) > Len(file) THEN n + Len(Record(t)) ELSE Len(file)
      /\ \A i \in 1 .. Len(g) : g[i] =
             IF i \in n + 1 .. n + Len(Record(t)) THEN Record(t)[i - n] ELSE file[i]
    BY <1>2, <1>3, OverwriteIs
<1> HIDE DEF g, size
<1>5. m = n + 1 + size /\ m \in Nat /\ n < m /\ m =< Len(g) /\ n =< Len(g) /\ Len(g) \in Nat
    BY <1>2, <1>3, <1>4
<1>6. \A i \in 1 .. n : i \in 1 .. Len(g) /\ g[i] = file[i]
    BY <1>2, <1>4, <1>5
<1>7. \A i \in 0 .. size : /\ n + 1 + i \in 1 .. Len(g)
                           /\ g[n + 1 + i] = [tile |-> t, part |-> i]
  <2> SUFFICES ASSUME NEW i \in 0 .. size
               PROVE n + 1 + i \in 1 .. Len(g) /\ g[n + 1 + i] = [tile |-> t, part |-> i]
      OBVIOUS
  <2>1. /\ n + 1 + i \in 1 .. Len(g) /\ n + 1 + i \in n + 1 .. n + Len(Record(t))
        /\ (n + 1 + i) - n = i + 1 /\ i + 1 \in 1 .. size + 1 /\ (i + 1) - 1 = i
    BY <1>3, <1>5
  <2>2. g[n + 1 + i] = Record(t)[(n + 1 + i) - n]
    BY <1>4, <2>1
  <2>3. Record(t)[i + 1] = [tile |-> t, part |-> (i + 1) - 1]
    BY <1>3, <2>1
  <2> QED BY <2>1, <2>2, <2>3
<1>8. HoldsPayload(g, n + 1, t)
  <2>1. \A i \in 1 .. PayloadSize[t] : g[n + 1 + i] = [tile |-> t, part |-> i]
    BY <1>7, <1>3 DEF size
  <2> QED BY <2>1, <1>5 DEF HoldsPayload, size
<1>9. ASSUME NEW p \in ends \cup {m}, p < m
      PROVE  /\ g[p + 1].part = 0 /\ RecordEnd(g, p) \in ends \cup {m}
             /\ \A i \in 1 .. PayloadSize[g[p + 1].tile] :
                   g[p + 1 + i] = [tile |-> g[p + 1].tile, part |-> i]
  <2>1. p \in ends /\ p =< n /\ p \in Nat
    BY <1>9, <1>5
  <2>2. CASE p = n
    <3>1. 0 \in 0 .. size /\ n + 1 + 0 = n + 1
      BY <1>3
    <3>2. g[n + 1] = [tile |-> t, part |-> 0]
      BY <3>1, <1>7
    <3>3. RecordEnd(g, n) = m
      BY <3>2, <1>5 DEF RecordEnd, size
    <3> QED BY <2>2, <3>2, <3>3, <1>7, <1>3 DEF size
  <2>3. CASE p < n
    <3>1. /\ p + 1 \in 1 .. n
          /\ \A i \in 1 .. PayloadSize[file[p + 1].tile] : p + 1 + i \in 1 .. n
      BY <1>1, <1>2, <2>1, <2>3, FormedPlace
    <3>2. g[p + 1] = file[p + 1]
      BY <3>1, <1>6
    <3>3. RecordEnd(g, p) = RecordEnd(file, p)
      BY <3>2 DEF RecordEnd
    <3>4. /\ file[p + 1].part = 0 /\ RecordEnd(file, p) \in ends
          /\ \A i \in 1 .. PayloadSize[file[p + 1].tile] :
                file[p + 1 + i] = [tile |-> file[p + 1].tile, part |-> i]
      BY <1>1, <2>1, <2>3 DEF FormedBy
    <3> QED BY <3>1, <3>2, <3>3, <3>4, <1>6
  <2> QED BY <2>1, <2>2, <2>3
<1>10. FormedBy(g, m, ends \cup {m}) /\ ends \cup {m} \in SUBSET (0 .. m)
  <2>1. 0 \in ends
    BY <1>1 DEF FormedBy
  <2>2. \A p \in ends : p \in 0 .. m
    BY <1>5
  <2>3. m \in 0 .. m
    BY <1>5
  <2> QED BY <2>1, <2>2, <2>3, <1>9 DEF FormedBy
<1>11. Formed(g, m)
    BY <1>10, <1>5 DEF Formed
<1> QED BY <1>4, <1>5, <1>6, <1>8, <1>11 DEF g, size

(* Of whole records rescan makes an index that is right, and one of some    *)
(* entries if there are any.                                                *)
LEMMA RescanFaithful ==
    ASSUME NEW file \in Files, Formed(file, Len(file)), Len(file) =< MAX_CELLS
    PROVE  /\ \A t \in DOMAIN Rescan(file) : HoldsPayload(file, Rescan(file)[t], t)
           /\ Len(file) > 0 => Rescan(file) # NoEntries
<1> DEFINE n == Len(file)
           R == {r \in [tile : Tiles, off : Nat] : HoldsPayload(file, r.off, r.tile)}
<1>1. PICK ends \in SUBSET (0 .. n) : FormedBy(file, n, ends)
    BY DEF Formed
<1>2. n \in Nat /\ n =< Len(file)
    BY FileIs
<1>3. 0 \in ends /\ 0 \in 0 .. n
    BY <1>1, <1>2 DEF FormedBy
<1>4. ASSUME NEW q \in ends, RecordAt(file, q)
      PROVE  RecordOf(file, q) \in R /\ RecordEnd(file, q) \in ends
  <2>1. q < n /\ q \in 0 .. n
    BY <1>4 DEF RecordAt
  <2>2. /\ q + 1 \in Nat /\ file[q + 1].tile \in Tiles /\ PayloadSize[file[q + 1].tile] \in Nat
        /\ RecordEnd(file, q) = q + 1 + PayloadSize[file[q + 1].tile] /\ RecordEnd(file, q) \in 0 .. n
    BY <1>1, <1>2, <2>1, FormedPlace
  <2>3. /\ RecordEnd(file, q) \in ends
        /\ \A i \in 1 .. PayloadSize[file[q + 1].tile] :
              file[q + 1 + i] = [tile |-> file[q + 1].tile, part |-> i]
    BY <1>1, <2>1 DEF FormedBy
  <2>4. HoldsPayload(file, q + 1, file[q + 1].tile)
    BY <1>2, <2>2, <2>3 DEF HoldsPayload
  <2>5. RecordOf(file, q) = [tile |-> file[q + 1].tile, off |-> q + 1]
    BY DEF RecordOf
  <2> DEFINE x == file[q + 1].tile
  <2> HIDE DEF x
  <2>6. [tile |-> x, off |-> q + 1] \in R
    BY <2>2, <2>4 DEF x
  <2> HIDE DEF R
  <2> QED BY <2>3, <2>5, <2>6 DEF x
<1>5. Walk(file) \in Seq(R)
  <2> HIDE DEF R
  <2> QED BY <1>3, <1>4, RecordsAreIn DEF Walk
<1>6. Walk(file) \in Seq([tile : Tiles, off : Nat])
  <2>1. R \subseteq [tile : Tiles, off : Nat]
    OBVIOUS
  <2> HIDE DEF R
  <2> QED BY <1>5, <2>1, SeqMonotonic
<1>7. \A i \in 1 .. Len(Walk(file)) : HoldsPayload(file, Walk(file)[i].off, Walk(file)[i].tile)
  <2>1. ASSUME NEW i \in 1 .. Len(Walk(file)) PROVE Walk(file)[i] \in R
    <3> HIDE DEF R
    <3> QED BY <1>5, <2>1, ElementOfSeq
  <2> QED BY <2>1
<1>8. \A t \in DOMAIN Rescan(file) : HoldsPayload(file, Rescan(file)[t], t)
  <2> SUFFICES ASSUME NEW t \in DOMAIN Rescan(file) PROVE HoldsPayload(file, Rescan(file)[t], t)
      OBVIOUS
  <2>1. PICK i \in 1 .. Len(Walk(file)) : Walk(file)[i].tile = t /\ Rescan(file)[t] = Walk(file)[i].off
    BY <1>6, RescanIs
  <2> QED BY <2>1, <1>7
<1>9. ASSUME n > 0 PROVE Rescan(file) # NoEntries
  <2>1. RecordAt(file, 0)
    BY <1>1, <1>2, <1>3, <1>9, FormedPlace
  <2>2. Walk(file) = <<RecordOf(file, 0)>> \o RecordsFrom(file)[RecordEnd(file, 0)]
    BY <1>3, <2>1, RecordsDef DEF Walk
  <2>3. RecordEnd(file, 0) \in ends /\ RecordOf(file, 0) \in R
    BY <1>3, <1>4, <2>1
  <2> DEFINE r == RecordOf(file, 0)
             s == RecordsFrom(file)[RecordEnd(file, 0)]
  <2> HIDE DEF R, r
  <2>4. s \in Seq(R)
    BY <1>4, <2>3, RecordsAreIn DEF r
  <2> HIDE DEF s
  <2>5. <<r>> \in Seq(R) /\ Len(<<r>>) = 1
    BY <2>3 DEF r
  <2>6. Len(<<r>> \o s) = 1 + Len(s) /\ Len(s) \in Nat
    BY <2>4, <2>5, ConcatProperties, LenProperties
  <2>7. Walk(file) # <<>>
    BY <2>2, <2>6, EmptySeq DEF r, s
  <2> QED BY <2>7, <1>6, RescanIs
<1> QED BY <1>8, <1>9

(* What an index claims of a file, it claims of one that is the same as far *)
(* as the index goes.                                                       *)
LEMMA ClaimsSame ==
    ASSUME NEW file \in Files, NEW g \in Files, NEW idx \in IdxFile, Claims(file, idx),
           idx.entries # NoEntries /\ idx.len =< Len(g) =>
               idx.len =< Len(file) /\ \A i \in 1 .. idx.len : g[i] = file[i]
    PROVE  Claims(g, idx)
<1>1. idx.entries \in Index /\ idx.len \in Int
    BY DEF IdxFile
<1>2. ASSUME NEW t \in DOMAIN idx.entries, idx.len =< Len(g) PROVE HoldsPayload(g, idx.entries[t], t)
  <2> DEFINE off == idx.entries[t]
             size == PayloadSize[t]
  <2>1. t \in Tiles /\ off \in 0 .. MAX_CELLS /\ idx.entries # NoEntries
    BY <1>1, IndexIs, NothingIndexed DEF IndexMap
  <2>2. size \in Nat /\ off \in Nat
    BY <2>1, SizeIs, CacheAssumption
  <2>3. off + size =< idx.len /\ idx.len =< Len(file) /\ HoldsPayload(file, off, t)
    BY <1>2, <2>1 DEF Claims
  <2>4. Len(g) \in Nat /\ Len(file) \in Nat
    BY FileIs
  <2> HIDE DEF off, size
  <2>5. \A i \in 1 .. size : off + i \in 1 .. idx.len
    BY <1>1, <2>2, <2>3
  <2>6. \A i \in 1 .. size : g[off + i] = file[off + i]
    BY <1>2, <2>1, <2>5
  <2>7. \A i \in 1 .. size : file[off + i] = [tile |-> t, part |-> i]
    BY <2>3 DEF HoldsPayload, size
  <2>8. off + size =< Len(g)
    BY <1>1, <1>2, <2>2, <2>3, <2>4
  <2>9. off + PayloadSize[t] =< Len(g) /\ \A i \in 1 .. PayloadSize[t] : g[off + i] = [tile |-> t, part |-> i]
    BY <2>6, <2>7, <2>8 DEF size
  <2> QED BY <2>9 DEF HoldsPayload, off
<1> QED BY <1>2 DEF Claims

(* Nothing can be wrong about an empty file, or in an empty index.          *)
LEMMA ClaimsNothing ==
    /\ \A file, idx : idx.entries = NoEntries => Claims(file, idx)
    /\ \A file : Claims(file, NoIndex)
BY NothingIndexed DEF Claims

LEMMA ClaimsOfEmpty ==
    ASSUME NEW file \in Files, NEW idx \in IdxFile, Claims(file, idx)
    PROVE  Claims(<<>>, idx)
<1>1. <<>> \in Files /\ Len(<<>>) = 0
    BY EmptySeq DEF Files
<1>2. idx.len \in Int
    BY DEF IdxFile
<1>3. idx.len =< 0 => \A i \in 1 .. idx.len : FALSE
    BY <1>2
<1> QED BY <1>1, <1>2, <1>3, ClaimsSame, FileIs

-----------------------------------------------------------------------------
(***************************************************************************)
(* The invariant, as far as the content of the files goes                   *)
(***************************************************************************)

(* While no append has failed part way, every blob is whole records, so is  *)
(* what was flushed of it, and the program's count is the file's length.    *)
Untorn ==
    "torn" \notin mishaps =>
        /\ \A b \in Builds :
            /\ \A i \in 1 .. Len(synced[b]) : card.blob[b][i] = synced[b][i]
            /\ Formed(card.blob[b], Len(synced[b])) /\ Formed(card.blob[b], Len(card.blob[b]))
        /\ cache.open => cache.len = Len(card.blob[cache.build])

(* The blob that is open, or has just been closed to be removed, is the     *)
(* only one that may have a torn end.                                       *)
Torn ==
    \A b \in Builds :
        \/ Formed(card.blob[b], Len(card.blob[b]))
        \/ b = cache.build /\ (cache.open \/ At("net", "dropBlob"))

(* The index in memory is right about the blob that is open, and an index   *)
(* file, or one that is being written, is not of a longer one.              *)
Indexed ==
    cache.open =>
        /\ Formed(card.blob[cache.build], cache.len)
        /\ Claims(card.blob[cache.build], [len |-> cache.len, entries |-> cache.index])
        /\ ~At("net", "load") /\ ~At("net", "save") /\ card.idx[cache.build].entries # NoEntries
             => card.idx[cache.build].len =< cache.len
        /\ \A w \in Tasks : draft[w].build = cache.build /\ draft[w].idx.entries # NoEntries
             => draft[w].idx.len =< cache.len
        /\ At("net", "load") => cache.len = Len(card.blob[cache.build]) /\ cache.index = NoEntries

(* Index files, written and half written, claim nothing that is wrong; what *)
(* loop() is still writing was not made for a blob about to be opened.      *)
Written ==
    /\ \A b \in Builds : Claims(card.blob[b], card.idx[b])
    /\ \A w \in Tasks : draft[w].build # 0 => Claims(card.blob[draft[w].build], draft[w].idx)
    /\ draft["ui"].idx.entries # NoEntries =>
           \/ draft["ui"].build < build
           \/ draft["ui"].build = build /\ build = cache.build /\ cache.open

Right == Untorn /\ Torn /\ Indexed /\ Written
CacheInv == Kept /\ (Sound => Right)

LEMMA SoundBefore == ASSUME Sound', mishaps \subseteq mishaps' PROVE Sound
BY DEF Sound

(* A step that leaves files, index and drafts as they are.                  *)
LEMMA FilesKept ==
    ASSUME Kept, Kept', Right, card'.blob = card.blob, card'.idx = card.idx, UNCHANGED <<synced, cache, draft>>,
           mishaps \subseteq mishaps',
           build' >= build \/ draft["ui"] = NoDraft,
           \/ todo'["net"] = todo["net"]
           \/ /\ ~At("net", "dropBlob") /\ ~At("net", "load")
              /\ cache.open /\ At("net", "save") => card.idx[cache.build].len =< cache.len
              /\ todo'["net"] # <<>> => Head(todo'["net"]) # "load"
    PROVE  Right'
<1>1. Untorn'
    BY DEF Right, Untorn
<1>2. Torn'
    BY DEF Right, Torn, At
<1>3. Indexed'
  <2>1. CASE todo'["net"] = todo["net"]
    BY <2>1 DEF Right, Indexed, At
  <2>2. CASE todo'["net"] # todo["net"]
    BY <2>2 DEF Right, Indexed, At
  <2> QED BY <2>1, <2>2
<1>4. Written'
  <2>1. build \in Int /\ build' \in Int /\ draft["ui"].build \in Int
    BY CacheAssumption DEF Kept, CacheTyped, Drafts, Tasks
  <2>2. draft["ui"].idx.entries # NoEntries => draft["ui"] # NoDraft
    BY NothingIndexed
  <2>3. draft["ui"].idx.entries # NoEntries =>
            \/ draft["ui"].build < build'
            \/ draft["ui"].build = build' /\ build' = cache.build /\ cache.open
    BY <2>1, <2>2 DEF Right, Written
  <2> QED BY <2>3 DEF Right, Written
<1> QED BY <1>1, <1>2, <1>3, <1>4 DEF Right

LEMMA BeginRight == ASSUME Kept, Kept', Right, Begin PROVE Right'
<1>0. /\ card' = card /\ UNCHANGED <<synced, cache, draft>> /\ mishaps' = mishaps /\ ~ready /\ todo["net"] = <<>>
      /\ todo' = [todo EXCEPT !["net"] =
                    IF card.manifest = 0 THEN <<"begun">> ELSE <<"open", "load", "check", "begun">>]
    BY DEF Begin
<1>1. todo["ui"] = <<>> /\ draft["ui"] = NoDraft
    BY <1>0 DEF Kept, Control, Booting, Drafting, At, Tasks
<1>2. ~At("net", "dropBlob") /\ ~At("net", "load") /\ ~At("net", "save")
    BY <1>0 DEF At
<1>3. Head(todo'["net"]) # "load"
  <2>1. todo'["net"] = IF card.manifest = 0 THEN <<"begun">> ELSE <<"open", "load", "check", "begun">>
    BY <1>0 DEF Kept, CacheTyped, Tasks
  <2> QED BY <2>1
<1> QED BY <1>0, <1>1, <1>2, <1>3, FilesKept

LEMMA BuildStays == ASSUME Kept, UNCHANGED build PROVE build' >= build
BY DEF Kept, CacheTyped

LEMMA CheckRight == ASSUME Kept, Kept', Right, Check PROVE Right'
<1>0. /\ card' = card /\ UNCHANGED <<synced, cache, draft, build>> /\ mishaps' = mishaps /\ At("net", "check")
    BY DEF Check
<1>1. ~At("net", "dropBlob") /\ ~At("net", "load") /\ ~At("net", "save")
    BY <1>0 DEF At
<1>2. Head(todo'["net"]) # "load"
  <2>1. CASE Advance("net", <<>>)
    <3>1. Head(todo'["net"]) = "begun"
      BY <1>0, <2>1, Moves DEF Kept, Control, Tasks
    <3> QED BY <3>1
  <2>2. CASE cache.open /\ Advance("net", DropSteps \o <<"open", "load">>)
    <3> DEFINE b == Tail(todo["net"])
               p == (DropSteps \o <<"open", "load">>) \o b
    <3>1. Planned(b) /\ b # <<>> /\ Head(b) = "begun"
      BY <1>0, Onward DEF Kept, Control, Plans, At, Tasks
    <3> HIDE DEF b
    <3>2. Head(p) = "save"
      BY <2>2, <3>1, DropPlan
    <3>3. todo'["net"] = p
      BY <2>2 DEF Advance, b, Kept, CacheTyped, Tasks
    <3> QED BY <3>2, <3>3
  <2> QED BY <2>1, <2>2 DEF Check
<1> QED BY <1>0, <1>1, <1>2, BuildStays, FilesKept

LEMMA BegunRight == ASSUME Kept, Kept', Right, Begun PROVE Right'
<1>0. /\ card' = card /\ UNCHANGED <<synced, cache, draft, build>> /\ mishaps' = mishaps
      /\ At("net", "begun") /\ Advance("net", <<>>)
    BY DEF Begun
<1>1. ~At("net", "dropBlob") /\ ~At("net", "load") /\ ~At("net", "save")
    BY <1>0 DEF At
<1>2. todo'["net"] = <<>>
    BY <1>0, Moves DEF Kept, Control, Tasks
<1> QED BY <1>0, <1>1, <1>2, BuildStays, FilesKept

LEMMA ManifestSaveRight == ASSUME Kept, Kept', Right, ManifestSave PROVE Right'
<1>0. /\ UNCHANGED <<synced, cache, draft, build>> /\ mishaps' = mishaps
      /\ At("net", "manifest") /\ Advance("net", <<>>)
    BY DEF ManifestSave
<1>1. card'.blob = card.blob /\ card'.idx = card.idx
  <2>1. PICK m : card' = [card EXCEPT !.manifest = m]
    BY DEF ManifestSave
  <2> QED BY <2>1 DEF Kept, CacheTyped, Cards
<1>2. ~At("net", "dropBlob") /\ ~At("net", "load") /\ ~At("net", "save")
    BY <1>0 DEF At
<1>3. todo'["net"] = <<>>
    BY <1>0, Moves DEF Kept, Control, Tasks
<1> QED BY <1>0, <1>1, <1>2, <1>3, BuildStays, FilesKept

LEMMA RefreshRight ==
    ASSUME Kept, Kept', Right, NEW found \in Builds, found >= build, Refresh(found) PROVE Right'
<1> DEFINE p == (IF build \notin {0, found} THEN DropSteps ELSE <<>>)
                    \o (IF found = build /\ cache.open THEN <<>> ELSE <<"open", "load">>)
                    \o <<"manifest">>
<1>0. /\ card' = card /\ UNCHANGED <<synced, cache, draft>> /\ todo["net"] = <<>> /\ build' >= build
      /\ todo' = [todo EXCEPT !["net"] = p]
    BY DEF Refresh
<1>1. mishaps \subseteq mishaps'
    BY DEF Refresh, Happens
<1>2. found # 0
    BY BuildIs
<1>3. Head(p) # "load"
  <2> DEFINE drops == build # 0 /\ build # found
             opens == drops \/ build = 0 \/ ~cache.open
  <2>1. Head(p) = IF drops THEN IF cache.open THEN "save" ELSE "dropBlob"
                  ELSE IF opens THEN "open" ELSE "manifest"
    BY <1>2, RefreshPlan
  <2> HIDE DEF p, drops, opens
  <2> QED BY <2>1
<1> HIDE DEF p
<1>4. todo'["net"] = p
    BY <1>0 DEF Kept, CacheTyped, Tasks
<1>5. ~At("net", "dropBlob") /\ ~At("net", "load") /\ ~At("net", "save")
    BY <1>0 DEF At
<1> QED BY <1>0, <1>1, <1>3, <1>4, <1>5, FilesKept

LEMMA FlushRight == ASSUME Kept, Kept', Right, Flush PROVE Right'
<1>0. /\ card' = card /\ UNCHANGED <<synced, cache, draft, build>>
      /\ todo' = [todo EXCEPT !["ui"] = FlushSteps]
    BY DEF Flush
<1>1. mishaps \subseteq mishaps'
    BY DEF Flush, Happens
<1>2. todo'["net"] = todo["net"]
    BY <1>0 DEF Kept, CacheTyped, Tasks
<1> QED BY <1>0, <1>1, <1>2, BuildStays, FilesKept

LEMMA ReleaseRight == ASSUME Kept, Kept', Right, NEW who \in Tasks, Release(who) PROVE Right'
<1>0. /\ card' = card /\ UNCHANGED <<synced, cache, draft, build>> /\ mishaps' = mishaps
      /\ At(who, "release") /\ Advance(who, <<>>)
    BY DEF Release
<1>1. todo'[who] = <<>> /\ \A w \in Tasks : w # who => todo'[w] = todo[w]
    BY <1>0, Moves DEF Kept, Control
<1>2. \/ todo'["net"] = todo["net"]
      \/ ~At("net", "dropBlob") /\ ~At("net", "load") /\ ~At("net", "save") /\ todo'["net"] = <<>>
    BY <1>0, <1>1 DEF At, Tasks
<1> QED BY <1>0, <1>2, BuildStays, FilesKept

(* The index file of a longer blob that could not be replaced is what the   *)
(* word stale stands for.                                                   *)
LEMMA SaveFailsRight == ASSUME Kept, Kept', Sound', Right, NEW who \in Tasks, SaveFails(who) PROVE Right'
<1>0. /\ card' = card /\ UNCHANGED <<synced, cache, draft, build>>
      /\ At(who, "save") /\ Advance(who, <<>>)
    BY DEF SaveFails
<1>1. mishaps \subseteq mishaps'
    BY DEF SaveFails, Happens
<1>2. ~(card.idx[cache.build].len > cache.len)
    BY DEF SaveFails, Happens, Sound
<1>3. cache.open => card.idx[cache.build].len =< cache.len
  <2> SUFFICES ASSUME cache.open PROVE card.idx[cache.build].len =< cache.len
      OBVIOUS
  <2>1. cache.build \in Builds
    BY DEF Kept, Control, Opened
  <2>2. card.idx[cache.build].len \in Int /\ cache.len \in Int
    BY <2>1, CardIs, CacheIs DEF Kept, CacheTyped
  <2> QED BY <1>2, <2>2
<1>4. /\ \A w \in Tasks : w # who => todo'[w] = todo[w]
      /\ Head(todo'[who]) \in {"check", "begun", "manifest", "close", "release"}
    BY <1>0, Moves DEF Kept, Control
<1>5. \/ todo'["net"] = todo["net"]
      \/ ~At("net", "dropBlob") /\ ~At("net", "load") /\ Head(todo'["net"]) # "load"
    BY <1>0, <1>4 DEF At, Tasks
<1> QED BY <1>0, <1>1, <1>3, <1>5, BuildStays, FilesKept

LEMMA OpenBlobRight == ASSUME Kept, Kept', Right, OpenBlob PROVE Right'
<1> DEFINE file == card.blob[build]
<1>0. /\ At("net", "open") /\ Advance("net", <<>>) /\ "net" \in Tasks /\ "ui" \in Tasks
      /\ UNCHANGED <<card, synced, build, draft, mishaps>>
      /\ cache' = [cache EXCEPT !.open = TRUE, !.build = build, !.len = Len(file)]
    BY DEF OpenBlob, Tasks
<1>1. todo'["net"] # <<>> /\ Head(todo'["net"]) = "load"
    BY <1>0, Moves DEF Kept, Control
<1>2. build \in Builds /\ ~cache.open /\ cache.index = NoEntries /\ draft["net"] = NoDraft
  <2>1. Holds(todo["net"], "open")
    BY <1>0, Moves DEF Kept, Control
  <2> QED BY <1>0, <2>1 DEF Kept, Control, Leading, Opened, Closed, Drafting, At
<1>3. file \in Files /\ Len(file) \in Nat /\ Len(file) =< Len(file)
    BY <1>2, CardIs, FileIs DEF Kept, CacheTyped
<1>4. /\ cache'.open /\ cache'.build = build /\ cache'.len = Len(file) /\ cache'.index = NoEntries
    BY <1>0, <1>2 DEF Kept, CacheTyped, Caches
<1>5. \A b \in Builds : Formed(card.blob[b], Len(card.blob[b]))
    BY <1>0, <1>2 DEF Right, Torn, At
<1>6. Untorn'
    BY <1>0, <1>4 DEF Right, Untorn
<1>7. Torn'
    BY <1>0, <1>5 DEF Torn
<1>8. \A w \in Tasks : draft[w].build = build => draft[w].idx.entries = NoEntries
  <2>1. draft["net"].idx.entries = NoEntries
    BY <1>2, NothingIndexed
  <2>2. draft["ui"].build = build => draft["ui"].idx.entries = NoEntries
    <3>1. build \in Int
      BY DEF Kept, CacheTyped
    <3>2. draft["ui"].idx.entries # NoEntries => draft["ui"].build < build
      BY <1>2 DEF Right, Written
    <3> QED BY <3>1, <3>2
  <2> QED BY <2>1, <2>2 DEF Tasks
<1>9. Indexed'
  <2>1. Formed(file, Len(file))
    BY <1>2, <1>5
  <2>2. Claims(file, [len |-> Len(file), entries |-> NoEntries])
    BY ClaimsNothing
  <2>3. At("net", "load")'
    BY <1>1 DEF At
  <2> QED BY <1>0, <1>4, <1>8, <2>1, <2>2, <2>3 DEF Indexed
<1>10. Written'
    BY <1>0, <1>2, <1>4 DEF Right, Written
<1> QED BY <1>6, <1>7, <1>9, <1>10 DEF Right

LEMMA OpenFailsRight == ASSUME Kept, Kept', Right, OpenFails PROVE Right'
<1>0. /\ At("net", "open") /\ UNCHANGED <<card, synced, build, draft, mishaps>>
      /\ cache' = [cache EXCEPT !.build = build]
    BY DEF OpenFails
<1>1. ~cache.open /\ cache'.open = cache.open
    BY <1>0 DEF Kept, Control, Opened, CacheTyped, Caches
<1>2. \A b \in Builds : Formed(card.blob[b], Len(card.blob[b]))
    BY <1>0, <1>1 DEF Right, Torn, At
<1> QED BY <1>0, <1>1, <1>2 DEF Right, Untorn, Torn, Indexed, Written

(* The blob has just been found to be whole records, so that an index file  *)
(* of its length is right about it, and so is a rescan, which finds some.   *)
LEMMA LoadIndexRight == ASSUME Kept, Kept', Right, LoadIndex PROVE Right'
<1> DEFINE here == cache.build
           file == card.blob[here]
           idx == card.idx[here]
<1>0. /\ At("net", "load") /\ UNCHANGED <<card, synced, build, draft, mishaps>>
      /\ "net" \in Tasks /\ CacheTyped /\ Plans /\ cache \in Caches
    BY DEF LoadIndex, Tasks, Kept, Control, CacheTyped
<1>1. cache.open /\ here \in Builds
    BY <1>0 DEF Kept, Control, Closed, Opened
<1>2. /\ file \in Files /\ Len(file) \in Nat /\ Len(file) =< MAX_CELLS /\ idx \in IdxFile /\ cache.len \in Nat
  <2>1. file \in Files /\ idx \in IdxFile
    BY <1>0, <1>1, CardIs DEF CacheTyped
  <2>2. Len(file) =< MAX_CELLS
    BY <1>1 DEF Kept, Bounds
  <2>3. cache.len \in Nat
    BY <1>0, CacheIs
  <2> HIDE DEF file
  <2> QED BY <2>1, <2>2, <2>3, FileIs
<1>3. /\ Formed(file, cache.len) /\ cache.len = Len(file) /\ Claims(file, idx)
    BY <1>0, <1>1 DEF Right, Indexed, Written
<1>4. ~At("net", "dropBlob")
    BY <1>0 DEF At
<1>5. CASE IdxAccepted(idx, cache.len)
  <2>1. cache' = [cache EXCEPT !.index = idx.entries] /\ Advance("net", <<>>)
    BY <1>5 DEF LoadIndex
  <2>2. /\ cache'.open /\ cache'.build = here /\ cache'.len = cache.len /\ cache'.index = idx.entries
    BY <1>0, <1>1, <2>1 DEF Caches
  <2>3. Head(todo'["net"]) \in {"check", "begun", "manifest"}
    BY <1>0, <2>1, Moves
  <2>4. ~At("net", "load")' /\ ~At("net", "dropBlob")'
    BY <2>3 DEF At
  <2>5. idx.len = cache.len
    BY <1>5 DEF IdxAccepted
  <2>6. Claims(file, [len |-> cache.len, entries |-> idx.entries])
    BY <1>3, <2>5 DEF Claims
  <2>7. idx.len =< cache.len
    BY <1>2, <2>5
  <2>8. Untorn'
    BY <1>0, <1>1, <2>2 DEF Right, Untorn
  <2>9. Torn'
    BY <1>0, <1>1, <1>4, <2>2, <2>4 DEF Right, Torn
  <2>10. Indexed'
    BY <1>0, <1>1, <1>3, <2>2, <2>4, <2>6, <2>7 DEF Right, Indexed
  <2>11. Written'
    BY <1>0, <1>1, <2>2 DEF Right, Written
  <2> QED BY <2>8, <2>9, <2>10, <2>11 DEF Right
<1>6. CASE ~IdxAccepted(idx, cache.len)
  <2>1. /\ cache' = [cache EXCEPT !.index = Rescan(file)]
        /\ Advance("net", IF Rescan(file) = NoEntries /\ cache.len > 1 THEN <<>> ELSE <<"save">>)
    BY <1>6 DEF LoadIndex
  <2>2. /\ cache'.open /\ cache'.build = here /\ cache'.len = cache.len /\ cache'.index = Rescan(file)
    BY <1>0, <1>1, <2>1 DEF Caches
  <2>3. /\ \A t \in DOMAIN Rescan(file) : HoldsPayload(file, Rescan(file)[t], t)
        /\ Len(file) > 0 => Rescan(file) # NoEntries
    BY <1>2, <1>3, RescanFaithful
  <2>4. Advance("net", <<"save">>)
    BY <1>2, <1>3, <2>1, <2>3
  <2>5. todo'["net"] # <<>> /\ Head(todo'["net"]) = "save"
    BY <1>0, <2>4, MovesInto DEF Steps
  <2>6. ~At("net", "load")' /\ At("net", "save")' /\ ~At("net", "dropBlob")'
    BY <2>5 DEF At
  <2>7. Claims(file, [len |-> cache.len, entries |-> Rescan(file)])
    BY <1>3, <2>3 DEF Claims, HoldsPayload
  <2>8. Untorn'
    BY <1>0, <1>1, <2>2 DEF Right, Untorn
  <2>9. Torn'
    BY <1>0, <1>1, <1>4, <2>2, <2>6 DEF Right, Torn
  <2>10. Indexed'
    BY <1>0, <1>1, <1>3, <2>2, <2>6, <2>7 DEF Right, Indexed
  <2>11. Written'
    BY <1>0, <1>1, <2>2 DEF Right, Written
  <2> QED BY <2>8, <2>9, <2>10, <2>11 DEF Right
<1> QED BY <1>5, <1>6

LEMMA CloseBlobRight == ASSUME Kept, Kept', Right, CloseBlob PROVE Right'
<1>0. /\ At("net", "close") /\ Advance("net", <<>>) /\ "net" \in Tasks /\ "ui" \in Tasks
      /\ synced' = [synced EXCEPT ![cache.build] = card.blob[cache.build]]
      /\ cache' = [cache EXCEPT !.open = FALSE, !.index = NoEntries]
      /\ UNCHANGED <<card, build, draft, mishaps>>
    BY DEF CloseBlob, Tasks
<1>1. cache.open /\ cache.build \in Builds
    BY <1>0 DEF Kept, Control, Closed, Opened
<1>2. ~cache'.open /\ cache'.build = cache.build
    BY <1>0 DEF Kept, CacheTyped, Caches
<1>3. \A b \in Builds : synced'[b] = IF b = cache.build THEN card.blob[b] ELSE synced[b]
    BY <1>0 DEF Kept, CacheTyped
<1>4. At("net", "dropBlob")'
    BY <1>0, Moves DEF Kept, Control, At
<1>5. draft["ui"].idx.entries # NoEntries => draft["ui"].build < build
  <2>1. Holds(todo["net"], "close")
    BY <1>0, Moves DEF Kept, Control
  <2>2. CASE ready
    <3>1. cache.build < build /\ build \in Int /\ cache.build \in Int
      BY <2>1, <2>2, BuildIs DEF Kept, Control, Leaving, CacheTyped, Caches
    <3> QED BY <3>1 DEF Right, Written
  <2>3. CASE ~ready
    <3>1. draft["ui"] = NoDraft
      BY <1>0, <2>3 DEF Kept, Control, Booting, Drafting, At
    <3> QED BY <3>1, NothingIndexed
  <2> QED BY <2>2, <2>3
<1>6. Untorn'
    BY <1>0, <1>2, <1>3 DEF Right, Untorn
<1>7. Torn'
    BY <1>0, <1>2, <1>4 DEF Right, Torn
<1>8. Indexed'
    BY <1>2 DEF Indexed
<1>9. Written'
    BY <1>0, <1>5 DEF Right, Written
<1> QED BY <1>6, <1>7, <1>8, <1>9 DEF Right

LEMMA DropBlobRight == ASSUME Kept, Kept', Right, DropBlob PROVE Right'
<1>0. /\ At("net", "dropBlob") /\ Advance("net", <<>>) /\ "net" \in Tasks /\ "ui" \in Tasks
      /\ card' = [card EXCEPT !.blob[cache.build] = <<>>]
      /\ synced' = [synced EXCEPT ![cache.build] = <<>>]
      /\ UNCHANGED <<cache, build, draft, mishaps>>
    BY DEF DropBlob, Tasks
<1>1. ~cache.open /\ cache.build \in Builds
    BY <1>0 DEF Kept, Control, Opened, Dropping
<1>2. <<>> \in Files /\ Len(<<>>) = 0
    BY EmptySeq DEF Files
<1>3. /\ card'.idx = card.idx
      /\ \A b \in Builds : card'.blob[b] = IF b = cache.build THEN <<>> ELSE card.blob[b]
  <2>1. card \in Cards /\ card' = BlobSet(card, cache.build, <<>>)
    BY <1>0 DEF Kept, CacheTyped, BlobSet
  <2> QED BY <2>1, <1>2, BlobSetIs
<1>4. \A b \in Builds : synced'[b] = IF b = cache.build THEN <<>> ELSE synced[b]
    BY <1>0 DEF Kept, CacheTyped
<1>5. Formed(<<>>, 0)
    BY <1>2, FormedNothing
<1>6. Untorn'
  <2>1. \A i \in 1 .. Len(<<>>) : FALSE
    BY <1>2
  <2> QED BY <1>0, <1>1, <1>2, <1>3, <1>4, <1>5, <2>1 DEF Right, Untorn
<1>7. Torn'
    BY <1>0, <1>2, <1>3, <1>5 DEF Right, Torn
<1>8. Indexed'
    BY <1>0, <1>1 DEF Indexed
<1>9. Written'
  <2>1. ASSUME NEW b \in Builds PROVE Claims(card'.blob[b], card'.idx[b])
    <3>1. card.blob[b] \in Files /\ card.idx[b] \in IdxFile /\ Claims(card.blob[b], card.idx[b])
      BY CardIs DEF Kept, CacheTyped, Right, Written
    <3> QED BY <3>1, <1>3, ClaimsOfEmpty
  <2>2. ASSUME NEW w \in Tasks, draft[w].build # 0 PROVE Claims(card'.blob[draft[w].build], draft[w].idx)
    <3>1. draft[w].build \in Builds /\ draft[w].idx \in IdxFile
      BY <2>2, CacheAssumption DEF Kept, CacheTyped, Drafts, Builds
    <3>2. card.blob[draft[w].build] \in Files /\ Claims(card.blob[draft[w].build], draft[w].idx)
      BY <2>2, <3>1, CardIs DEF Kept, CacheTyped, Right, Written
    <3> QED BY <3>1, <3>2, <1>3, ClaimsOfEmpty
  <2> QED BY <1>0, <2>1, <2>2 DEF Right, Written
<1> QED BY <1>6, <1>7, <1>8, <1>9 DEF Right

LEMMA DropIdxRight == ASSUME Kept, Kept', Right, DropIdx PROVE Right'
<1>0. /\ At("net", "dropIdx") /\ card' = [card EXCEPT !.idx[cache.build] = NoIndex]
      /\ UNCHANGED <<synced, cache, build, draft, mishaps>>
    BY DEF DropIdx
<1>1. ~cache.open
    BY <1>0 DEF Kept, Control, Opened
<1>2. /\ card'.blob = card.blob
      /\ \A b \in Builds : card'.idx[b] = IF b = cache.build THEN NoIndex ELSE card.idx[b]
  <2>1. card \in Cards /\ NoIndex \in IdxFile /\ card' = IdxSet(card, cache.build, NoIndex)
    BY <1>0, NothingIndexed DEF Kept, CacheTyped, IdxSet
  <2> QED BY <2>1, IdxSetIs
<1>3. \A b \in Builds : Formed(card.blob[b], Len(card.blob[b]))
    BY <1>0, <1>1 DEF Right, Torn, At
<1> QED BY <1>0, <1>1, <1>2, <1>3, ClaimsNothing DEF Right, Untorn, Torn, Indexed, Written

(* The cells an index goes by are left alone by what is written after them. *)
LEMMA ClaimsAbove ==
    ASSUME NEW file \in Files, NEW g \in Files, NEW n \in Nat, n =< Len(file), n =< Len(g),
           \A i \in 1 .. n : g[i] = file[i],
           NEW idx \in IdxFile, Claims(file, idx), idx.entries # NoEntries => idx.len =< n
    PROVE  Claims(g, idx)
<1>1. idx.len \in Int /\ Len(file) \in Nat /\ Len(g) \in Nat
    BY FileIs DEF IdxFile
<1>2. ASSUME idx.entries # NoEntries
      PROVE  idx.len =< Len(file) /\ \A i \in 1 .. idx.len : g[i] = file[i]
  <2>1. idx.len =< n
    BY <1>2
  <2>2. \A i \in 1 .. idx.len : i \in 1 .. n
    BY <1>1, <2>1
  <2> QED BY <1>1, <2>1, <2>2
<1> QED BY <1>2, ClaimsSame

LEMMA PutRight == ASSUME Kept, Kept', Right, NEW t \in Tiles, Put(t) PROVE Right'
<1> DEFINE here == cache.build
           file == card.blob[here]
           g == Overwrite(file, cache.len, Record(t))
           m == cache.len + Len(Record(t))
           index == IdxInsert(cache.index, t, AppendOffset + 1)
<1>0. /\ CacheTyped /\ Bounds /\ Control /\ MayPut(t) /\ Appended(Record(t)) /\ cache \in Caches
      /\ todo["net"] = <<>> /\ guard = "none" /\ t \notin DOMAIN cache.index
      /\ UNCHANGED <<synced, build, ready, draft, mishaps>> /\ "net" \in Tasks
    BY DEF Kept, Put, MayPut, CacheTyped, Tasks
<1>1. \A w \in Tasks : draft[w] = NoDraft
  <2>1. todo["ui"] = <<>>
    BY <1>0 DEF Control, Guarding
  <2> QED BY <2>1, <1>0 DEF Control, Drafting, At, Tasks
<1>2. Record(t) \in Files /\ Len(Record(t)) \in Nat /\ Len(Record(t)) >= 1 /\ Len(Record(t)) =< Len(Record(t))
    BY RecordIs, FileIs
<1>3. /\ cache.open /\ here \in Builds /\ AppendOffset = cache.len /\ cache.len \in 0 .. Len(file)
      /\ file \in Files /\ m =< MAX_CELLS /\ card' \in Cards /\ card'.idx = card.idx
      /\ \A b \in Builds : b # here => card'.blob[b] = card.blob[b]
      /\ card'.blob[here] = g
    BY <1>0, <1>2, AppendedIs
<1>4. cache.len \in Nat /\ cache.len =< Len(file) /\ Len(file) \in Nat
    BY <1>3, FileIs
<1>5. Formed(file, cache.len) /\ Claims(file, [len |-> cache.len, entries |-> cache.index])
    BY <1>3 DEF Right, Indexed
<1>6. /\ g \in Files /\ m \in Nat /\ m =< Len(g) /\ Formed(g, m)
      /\ \A i \in 1 .. cache.len : g[i] = file[i]
      /\ HoldsPayload(g, cache.len + 1, t) /\ cache.len + 1 + PayloadSize[t] = m
  <2> HIDE DEF file
  <2> QED BY <1>3, <1>4, <1>5, FormedAppend
<1>7. Len(g) = IF m > Len(file) THEN m ELSE Len(file)
  <2> HIDE DEF file
  <2> QED BY <1>2, <1>3, OverwriteIs
<1>8. cache.len =< m /\ cache.len < m /\ cache.len =< Len(g) /\ Len(g) \in Nat
    BY <1>2, <1>4, <1>7
<1>9. /\ cache'.open /\ cache'.build = here /\ cache'.len = m
      /\ \A u \in DOMAIN cache'.index :
            IF u = t THEN cache'.index[u] = cache.len + 1
            ELSE u \in DOMAIN cache.index /\ cache'.index[u] = cache.index[u]
  <2>1. AppendOffset + 1 \in 0 .. MAX_CELLS /\ cache.index \in Index /\ Fits(cache.index)
    BY <1>0, <1>2, <1>3, <1>4, CacheIs, CacheAssumption DEF Bounds
  <2>2. \A u \in DOMAIN index : IF u = t THEN index[u] = AppendOffset + 1
                                ELSE u \in DOMAIN cache.index /\ index[u] = cache.index[u]
    BY <1>0, <2>1, InsertIs
  <2>3. CASE t \in DOMAIN index
    <3> HIDE DEF g, file, index
    <3>1. cache' = [cache EXCEPT !.len = m, !.index = index, !.pending = @ + 1]
      BY <2>3, <1>3 DEF Put, index
    <3>2. cache' = [open |-> cache.open, build |-> cache.build, len |-> m, index |-> index,
                    pending |-> cache.pending + 1]
      BY <3>1, <1>0 DEF Caches
    <3> QED BY <3>2, <2>2, <1>3
  <2>4. CASE t \notin DOMAIN index
    <3> HIDE DEF g, file, index
    <3>1. cache' = [cache EXCEPT !.len = m]
      BY <2>4, <1>3 DEF Put, index
    <3>2. cache' = [open |-> cache.open, build |-> cache.build, len |-> m, index |-> cache.index,
                    pending |-> cache.pending]
      BY <3>1, <1>0 DEF Caches
    <3> QED BY <3>2, <1>0, <1>3
  <2> QED BY <2>3, <2>4
<1>10. ~At("net", "dropBlob")' /\ ~At("net", "load")' /\ ~At("net", "load") /\ ~At("net", "save")
  <2>1. todo'["net"] = <<>> \/ Head(todo'["net"]) = "sync"
    <3>1. CASE todo' = [todo EXCEPT !["net"] = FlushSteps]
      <4>1. todo'["net"] = FlushSteps
        BY <1>0, <3>1 DEF CacheTyped
      <4> QED BY <4>1, FlushPlan
    <3>2. CASE todo' = todo
      BY <1>0, <3>2
    <3> QED BY <3>1, <3>2 DEF Put
  <2> QED BY <2>1, <1>0 DEF At
<1>11. Untorn'
  <2>0. synced' = synced
    BY <1>0
  <2> SUFFICES ASSUME "torn" \notin mishaps' PROVE Untorn'
      BY DEF Untorn
  <2>1. /\ \A b \in Builds :
            /\ \A i \in 1 .. Len(synced[b]) : card.blob[b][i] = synced[b][i]
            /\ Formed(card.blob[b], Len(synced[b])) /\ Formed(card.blob[b], Len(card.blob[b]))
        /\ cache.len = Len(file)
    BY <1>0, <1>3 DEF Right, Untorn
  <2>2. Len(g) = m
    BY <1>7, <1>8, <2>1
  <2>3. Len(synced[here]) \in Nat /\ Len(synced[here]) =< cache.len
    BY <1>0, <1>3, <2>1, FileIs DEF CacheTyped, Bounds
  <2>4. \A i \in 1 .. Len(synced[here]) : i \in 1 .. cache.len
    BY <2>3, <1>4
  <2>5. \A i \in 1 .. Len(synced[here]) : g[i] = file[i] /\ g[i] = synced[here][i]
    BY <2>1, <2>4, <1>3, <1>6
  <2>6. Formed(g, Len(synced[here]))
    <3>1. Len(synced[here]) =< Len(g) /\ Formed(file, Len(synced[here]))
      BY <2>1, <2>3, <1>3, <1>4, <1>8
    <3> HIDE DEF g, file
    <3> QED BY <3>1, <2>3, <2>5, <1>3, <1>6, FormedSame
  <2>7. Formed(g, Len(g))
    BY <2>2, <1>6
  <2>8. ASSUME NEW b \in Builds
        PROVE  /\ \A i \in 1 .. Len(synced[b]) : card'.blob[b][i] = synced[b][i]
               /\ Formed(card'.blob[b], Len(synced[b])) /\ Formed(card'.blob[b], Len(card'.blob[b]))
    <3>1. CASE b = here
      <4>1. card'.blob[b] = g
        BY <3>1, <1>3
      <4> HIDE DEF g, file
      <4> QED BY <3>1, <4>1, <2>5, <2>6, <2>7
    <3>2. CASE b # here
      <4>1. card'.blob[b] = card.blob[b]
        BY <3>2, <1>3
      <4> QED BY <4>1, <2>1
    <3> QED BY <3>1, <3>2
  <2>9. cache'.len = Len(card'.blob[cache'.build])
    <3> HIDE DEF g, file, m
    <3> QED BY <2>2, <1>3, <1>9
  <2> HIDE DEF g, file, m, here
  <2> QED BY <2>0, <2>8, <2>9 DEF Untorn
<1>12. Torn'
  <2> HIDE DEF g, file, m
  <2> QED BY <1>3, <1>9 DEF Right, Torn
<1>13. Indexed'
  <2> DEFINE old == [len |-> cache.len, entries |-> cache.index]
             new == [len |-> m, entries |-> cache'.index]
  <2>1. old \in IdxFile /\ old.len = cache.len /\ old.entries = cache.index
    BY <1>0, CacheIs DEF IdxFile
  <2>2. Claims(g, old)
    <3> HIDE DEF g, file, old
    <3> QED BY <2>1, <1>3, <1>4, <1>5, <1>6, <1>8, ClaimsAbove DEF old
  <2>3. ASSUME NEW u \in DOMAIN cache'.index
        PROVE  cache'.index[u] + PayloadSize[u] =< m /\ HoldsPayload(g, cache'.index[u], u)
    <3>1. CASE u = t
      BY <3>1, <1>6, <1>9
    <3>2. CASE u # t
      <4>1. u \in DOMAIN cache.index /\ cache'.index[u] = cache.index[u]
        BY <3>2, <1>9
      <4>2. cache.index[u] + PayloadSize[u] =< cache.len /\ HoldsPayload(g, cache.index[u], u)
        BY <4>1, <2>1, <2>2, <1>8 DEF Claims
      <4>3. cache.index[u] \in Nat /\ PayloadSize[u] \in Nat
        BY <4>1, <1>0, CacheIs, IndexIs, SizeIs, CacheAssumption DEF IndexMap
      <4> QED BY <4>1, <4>2, <4>3, <1>4, <1>6, <1>8
    <3> QED BY <3>1, <3>2
  <2>4. Claims(g, new)
    <3> HIDE DEF g, m
    <3> QED BY <2>3 DEF Claims
  <2>5. card.idx[here].entries # NoEntries => card.idx[here].len =< m
    <3>1. card.idx[here].entries # NoEntries => card.idx[here].len =< cache.len
      BY <1>3, <1>10 DEF Right, Indexed
    <3>2. card.idx[here].len \in Int
      BY <1>0, <1>3, CardIs DEF CacheTyped
    <3> QED BY <3>1, <3>2, <1>4, <1>6, <1>8
  <2>6. \A w \in Tasks : draft'[w].idx.entries = NoEntries
    BY <1>0, <1>1, NothingIndexed
  <2> HIDE DEF g, m, file, old
  <2> QED BY <2>4, <2>5, <2>6, <1>3, <1>6, <1>9, <1>10 DEF Indexed
<1>14. Written'
  <2>1. ASSUME NEW b \in Builds PROVE Claims(card'.blob[b], card.idx[b])
    <3>1. CASE b # here
      BY <3>1, <1>3 DEF Right, Written
    <3>2. CASE b = here
      <4>1. card.idx[here] \in IdxFile /\ Claims(file, card.idx[here])
        BY <1>0, <1>3, CardIs DEF CacheTyped, Right, Written
      <4>2. card.idx[here].entries # NoEntries => card.idx[here].len =< cache.len
        BY <1>3, <1>10 DEF Right, Indexed
      <4> HIDE DEF g, file
      <4> QED BY <3>2, <4>1, <4>2, <1>3, <1>4, <1>6, <1>8, ClaimsAbove
    <3> QED BY <3>1, <3>2
  <2>2. \A w \in Tasks : draft'[w].build = 0 /\ draft'[w].idx.entries = NoEntries
    BY <1>0, <1>1, NothingIndexed
  <2>3. "ui" \in Tasks
    BY DEF Tasks
  <2> QED BY <2>1, <2>2, <2>3, <1>3 DEF Written
<1> QED BY <1>11, <1>12, <1>13, <1>14 DEF Right

(* A record cut short lies past the program's count, and the blob it lies   *)
(* in is open.                                                              *)
LEMMA PutFailsRight == ASSUME Kept, Kept', Right, NEW t \in Tiles, PutFails(t) PROVE Right'
<1> DEFINE here == cache.build
           file == card.blob[here]
           g == card'.blob[here]
<1>0. /\ CacheTyped /\ Bounds /\ Control /\ MayPut(t) /\ cache \in Caches /\ todo["net"] = <<>>
      /\ UNCHANGED <<synced, cache, build, ready, todo, draft, guard>>
      /\ "torn" \in mishaps'
    BY DEF Kept, PutFails, Happens, CacheTyped, MayPut
<1>1. PICK n \in 1 .. PayloadSize[t] : Appended(SubSeq(Record(t), 1, n))
    BY DEF PutFails
<1>2. /\ cache.open /\ here \in Builds /\ cache.len \in 0 .. Len(file)
      /\ file \in Files /\ card' \in Cards /\ card'.idx = card.idx
      /\ \A b \in Builds : b # here => card'.blob[b] = card.blob[b]
      /\ g \in Files /\ cache.len =< Len(g)
      /\ \A i \in 1 .. cache.len : g[i] = file[i]
  <2> DEFINE cells == SubSeq(Record(t), 1, n)
  <2>1. cells \in Files /\ Len(cells) =< Len(Record(t)) /\ Appended(cells) /\ Len(cells) \in Nat
    <3>1. /\ SubSeq(Record(t), 1, n) \in Files /\ Len(SubSeq(Record(t), 1, n)) = n
          /\ n \in Nat /\ n =< Len(Record(t))
      BY PieceIs, RecordIs
    <3> QED BY <1>1, <3>1
  <2> HIDE DEF cells
  <2>2. /\ cache.open /\ here \in Builds /\ cache.len \in 0 .. Len(file)
        /\ file \in Files /\ card' \in Cards /\ card'.idx = card.idx
        /\ \A b \in Builds : b # here => card'.blob[b] = card.blob[b]
        /\ g = Overwrite(file, cache.len, cells)
    BY <1>0, <2>1, AppendedIs
  <2> HIDE DEF file, g
  <2>3. /\ g \in Files
        /\ Len(g) = IF cache.len + Len(cells) > Len(file) THEN cache.len + Len(cells) ELSE Len(file)
        /\ \A i \in 1 .. Len(g) : g[i] =
               IF i \in cache.len + 1 .. cache.len + Len(cells) THEN cells[i - cache.len] ELSE file[i]
    BY <2>1, <2>2, OverwriteIs
  <2>4. Len(file) \in Nat /\ cache.len \in Nat /\ cache.len =< Len(g) /\ Len(g) \in Nat
    BY <2>1, <2>2, <2>3, FileIs
  <2>5. \A i \in 1 .. cache.len : g[i] = file[i]
    BY <2>3, <2>4
  <2> QED BY <2>2, <2>3, <2>4, <2>5
<1>3. cache.len \in Nat /\ cache.len =< Len(file)
    BY <1>2, FileIs
<1>4. ~At("net", "load") /\ ~At("net", "save")
    BY <1>0 DEF At
<1> HIDE DEF g, file
<1>5. \A b \in Builds : card'.blob[b] = IF b = here THEN g ELSE card.blob[b]
    BY <1>2 DEF g
<1>6. ASSUME NEW idx \in IdxFile, Claims(file, idx), idx.entries # NoEntries => idx.len =< cache.len
      PROVE  Claims(g, idx)
    BY <1>2, <1>3, <1>6, ClaimsAbove
<1>7. Formed(g, cache.len)
  <2>1. Formed(file, cache.len)
    BY <1>2 DEF Right, Indexed, file
  <2> QED BY <2>1, <1>2, <1>3, FormedSame
<1>8. Untorn' /\ Torn'
  <2>1. Untorn'
    BY <1>0 DEF Untorn
  <2>2. Torn'
    BY <1>0, <1>2, <1>5 DEF Right, Torn
  <2> QED BY <2>1, <2>2
<1>9. Indexed'
  <2> DEFINE old == [len |-> cache.len, entries |-> cache.index]
  <2>1. old \in IdxFile /\ old.len = cache.len /\ Claims(file, old)
    BY <1>0, <1>2, CacheIs DEF IdxFile, Right, Indexed, file
  <2> HIDE DEF old
  <2>2. old.entries # NoEntries => old.len =< cache.len
    BY <2>1, <1>3
  <2>3. Claims(g, old)
    BY <2>1, <2>2, <1>6
  <2>4. card'.blob[here] = g
    BY DEF g
  <2> QED BY <2>3, <2>4, <1>0, <1>2, <1>4, <1>7 DEF Right, Indexed, old, At
<1>10. Written'
  <2>1. ASSUME NEW b \in Builds PROVE Claims(card'.blob[b], card.idx[b])
    <3>1. CASE b # here
      BY <3>1, <1>5 DEF Right, Written
    <3>2. CASE b = here
      <4>1. card.idx[here] \in IdxFile /\ Claims(file, card.idx[here])
        BY <1>0, <1>2, CardIs DEF CacheTyped, Right, Written, file
      <4>2. card.idx[here].entries # NoEntries => card.idx[here].len =< cache.len
        BY <1>2, <1>4 DEF Right, Indexed
      <4> QED BY <3>2, <4>1, <4>2, <1>5, <1>6
    <3> QED BY <3>1, <3>2
  <2>2. ASSUME NEW w \in Tasks, draft[w].build # 0
        PROVE  Claims(card'.blob[draft[w].build], draft[w].idx)
    <3>1. draft[w].build \in Builds /\ draft[w].idx \in IdxFile
      BY <1>0, <2>2, CacheAssumption DEF CacheTyped, Drafts, Builds
    <3>2. Claims(card.blob[draft[w].build], draft[w].idx)
      BY <2>2 DEF Right, Written
    <3>3. CASE draft[w].build # here
      BY <3>1, <3>2, <3>3, <1>5
    <3>4. CASE draft[w].build = here
      <4>1. draft[w].idx.entries # NoEntries => draft[w].idx.len =< cache.len
        BY <3>4, <1>2 DEF Right, Indexed
      <4>2. Claims(file, draft[w].idx)
        BY <3>2, <3>4 DEF file
      <4>3. Claims(g, draft[w].idx)
        BY <3>1, <4>1, <4>2, <1>6
      <4> QED BY <3>4, <4>3, <1>2, <1>5
    <3> QED BY <3>3, <3>4
  <2> QED BY <2>1, <2>2, <1>0, <1>2 DEF Right, Written
<1> QED BY <1>8, <1>9, <1>10 DEF Right

LEMMA SyncRight == ASSUME Kept, Kept', Right, NEW who \in Tasks, Sync(who) PROVE Right'
<1>0. /\ CacheTyped /\ Control /\ At(who, "sync") /\ Advance(who, <<>>) /\ Plans
      /\ UNCHANGED <<card, cache, build, ready, draft, guard, mishaps>>
    BY DEF Kept, Sync, Control
<1>1. \A b \in Builds : synced'[b] = card.blob[b] \/ synced'[b] = synced[b]
    BY <1>0 DEF Sync, CacheTyped
<1>2. /\ \A w \in Tasks : w # who => todo'[w] = todo[w]
      /\ Head(todo'[who]) = "save"
    BY <1>0, Moves
<1>3. \/ todo'["net"] = todo["net"]
      \/ ~At("net", "dropBlob") /\ ~At("net", "load") /\ ~At("net", "save") /\ Head(todo'["net"]) = "save"
    BY <1>0, <1>2 DEF At, Tasks
<1>4. Untorn'
    BY <1>0, <1>1 DEF Right, Untorn
<1>5. Torn'
    BY <1>0, <1>3 DEF Right, Torn, At
<1>6. Indexed'
  <2>1. CASE todo'["net"] = todo["net"]
    BY <1>0, <2>1 DEF Right, Indexed, At
  <2>2. CASE todo'["net"] # todo["net"]
    BY <1>0, <1>3, <2>2 DEF Right, Indexed, At
  <2> QED BY <2>1, <2>2
<1>7. Written'
    BY <1>0 DEF Right, Written
<1> QED BY <1>4, <1>5, <1>6, <1>7 DEF Right

LEMMA SaveBeginsRight == ASSUME Kept, Kept', Right, NEW who \in Tasks, SaveBegins(who) PROVE Right'
<1> DEFINE here == cache.build
           d == [build |-> here, idx |-> [len |-> cache.len, entries |-> cache.index]]
<1>0. /\ CacheTyped /\ Control /\ Plans /\ At(who, "save") /\ Advance(who, <<"write">>)
      /\ draft' = [draft EXCEPT ![who] = d]
      /\ UNCHANGED <<synced, cache, build, ready, guard, mishaps>>
    BY DEF Kept, SaveBegins, Control
<1>1. /\ card'.blob = card.blob
      /\ \A b \in Builds : card'.idx[b] = IF b = here THEN NoIndex ELSE card.idx[b]
  <2>1. card \in Cards /\ NoIndex \in IdxFile /\ card' = IdxSet(card, here, NoIndex)
    BY <1>0, NothingIndexed DEF CacheTyped, IdxSet, SaveBegins
  <2> QED BY <2>1, IdxSetIs
<1>2. d \in Drafts /\ d.idx.entries = cache.index /\ d.idx.len = cache.len /\ d.build = here
      /\ cache.len \in Nat /\ d.idx = [len |-> cache.len, entries |-> cache.index]
    BY <1>0, CacheIs DEF CacheTyped, Drafts, IdxFile
<1> HIDE DEF d
<1>3. draft'[who] = d /\ \A w \in Tasks : w # who => draft'[w] = draft[w]
    BY <1>0, <1>2, DraftSetIs DEF CacheTyped
<1>4. /\ \A w \in Tasks : w # who => todo'[w] = todo[w]
      /\ Head(todo'[who]) = "write"
    BY <1>0, MovesInto DEF Steps
<1>5. \/ todo'["net"] = todo["net"] /\ who = "ui"
      \/ ~At("net", "dropBlob") /\ ~At("net", "load") /\ Head(todo'["net"]) = "write"
    BY <1>0, <1>4 DEF At, Tasks
<1>6. Untorn'
    BY <1>0, <1>1 DEF Right, Untorn
<1>7. Torn'
    BY <1>0, <1>1, <1>5 DEF Right, Torn, At
<1>8. ~cache.open => cache.index = NoEntries
    BY <1>0 DEF Control, Closed
<1>9. Indexed'
  <2> SUFFICES ASSUME cache.open PROVE Indexed'
      BY <1>0 DEF Indexed
  <2>1. /\ Formed(card.blob[here], cache.len)
        /\ Claims(card.blob[here], [len |-> cache.len, entries |-> cache.index])
    BY DEF Right, Indexed
  <2>2. card'.idx[here].entries = NoEntries
    BY <1>0, <1>1, NothingIndexed DEF Control, Opened
  <2>3. \A w \in Tasks : draft'[w].build = here /\ draft'[w].idx.entries # NoEntries
                            => draft'[w].idx.len =< cache.len
    BY <1>2, <1>3 DEF Right, Indexed
  <2>4. At("net", "load")' => cache.len = Len(card.blob[here]) /\ cache.index = NoEntries
    BY <1>5 DEF At, Right, Indexed
  <2> QED BY <2>1, <2>2, <2>3, <2>4, <1>0, <1>1 DEF Indexed
<1>10. Written'
  <2>1. \A b \in Builds : Claims(card'.blob[b], card'.idx[b])
    BY <1>1, ClaimsNothing DEF Right, Written
  <2>2. Claims(card.blob[here], d.idx)
    <3>1. CASE cache.open
      BY <3>1, <1>2 DEF Right, Indexed
    <3>2. CASE ~cache.open
      BY <3>2, <1>2, <1>8, ClaimsNothing
    <3> QED BY <3>1, <3>2
  <2>3. \A w \in Tasks : draft'[w].build # 0 => Claims(card'.blob[draft'[w].build], draft'[w].idx)
    BY <2>2, <1>1, <1>2, <1>3 DEF Right, Written
  <2>4. draft'["ui"].idx.entries # NoEntries =>
             \/ draft'["ui"].build < build
             \/ draft'["ui"].build = build /\ build = here /\ cache.open
    <3>1. CASE who # "ui"
      BY <3>1, <1>3 DEF Right, Written, Tasks
    <3>2. CASE who = "ui"
      <4>1. draft'["ui"] = d
        BY <3>2, <1>3
      <4>2. ASSUME cache.open PROVE here < build \/ here = build
        BY <1>0, <4>2, BuildIs DEF Control, Opened, CacheTyped
      <4> QED BY <4>1, <4>2, <1>2, <1>8
    <3> QED BY <3>1, <3>2
  <2> QED BY <2>1, <2>3, <2>4, <1>0 DEF Written
<1> QED BY <1>6, <1>7, <1>9, <1>10 DEF Right

(* What is written was promised of the blob when the save began.            *)
LEMMA SaveEndsRight == ASSUME Kept, Kept', Right, NEW who \in Tasks, SaveEnds(who) PROVE Right'
<1> DEFINE b0 == draft[who].build
<1>0. /\ CacheTyped /\ Control /\ Plans /\ At(who, "write") /\ Advance(who, <<>>)
      /\ cache' = [cache EXCEPT !.pending = 0]
      /\ draft' = [draft EXCEPT ![who] = NoDraft]
      /\ UNCHANGED <<synced, build, ready, guard, mishaps>>
    BY DEF Kept, SaveEnds, Control
<1>1. draft[who] \in Drafts /\ draft[who].idx \in IdxFile
    BY <1>0 DEF CacheTyped, Drafts
<1>2. PICK idx \in {draft[who].idx, NoIndex} : card' = [card EXCEPT !.idx[b0] = idx]
    BY DEF SaveEnds
<1>3. idx \in IdxFile
    BY <1>1, <1>2, NothingIndexed
<1>4. /\ card'.blob = card.blob
      /\ \A b \in Builds : card'.idx[b] = IF b = b0 THEN idx ELSE card.idx[b]
  <2>1. card \in Cards /\ card' = IdxSet(card, b0, idx)
    BY <1>0, <1>2 DEF CacheTyped, IdxSet
  <2> QED BY <2>1, <1>3, IdxSetIs
<1>5. draft'[who] = NoDraft /\ \A w \in Tasks : w # who => draft'[w] = draft[w]
  <2>1. NoDraft \in Drafts
    BY NothingOpen
  <2> QED BY <1>0, <2>1, DraftSetIs DEF CacheTyped
<1>6. cache'.open = cache.open /\ cache'.build = cache.build /\ cache'.len = cache.len /\ cache'.index = cache.index
    BY <1>0 DEF CacheTyped, Caches
<1>7. /\ \A w \in Tasks : w # who => todo'[w] = todo[w]
      /\ Head(todo'[who]) \in {"check", "begun", "manifest", "close", "release"}
    BY <1>0, Moves
<1>8. \/ todo'["net"] = todo["net"]
      \/ /\ ~At("net", "dropBlob") /\ ~At("net", "load") /\ ~At("net", "save")
         /\ Head(todo'["net"]) \in {"check", "begun", "manifest", "close", "release"}
    BY <1>0, <1>7 DEF At, Tasks
<1>9. Untorn'
    BY <1>0, <1>4, <1>6 DEF Right, Untorn
<1>10. Torn'
    BY <1>4, <1>6, <1>8 DEF Right, Torn, At
<1>11. Indexed'
  <2> SUFFICES ASSUME cache.open PROVE Indexed'
      BY <1>6 DEF Indexed
  <2>1. cache.build \in Builds
    BY <1>0 DEF Control, Opened
  <2>2. /\ Formed(card.blob[cache.build], cache.len)
        /\ Claims(card.blob[cache.build], [len |-> cache.len, entries |-> cache.index])
    BY DEF Right, Indexed
  <2>3. ~At("net", "load")' /\ ~At("net", "save")' /\ card'.idx[cache.build].entries # NoEntries
             => card'.idx[cache.build].len =< cache.len
    <3>1. CASE cache.build = b0 /\ idx.entries # NoEntries
      BY <3>1, <2>1, <1>2, <1>4, NothingIndexed DEF Right, Indexed
    <3>2. CASE cache.build = b0 /\ idx.entries = NoEntries
      BY <3>2, <2>1, <1>4
    <3>3. CASE cache.build # b0
      <4>1. card'.idx[cache.build] = card.idx[cache.build]
        BY <3>3, <2>1, <1>4
      <4>2. ~At("net", "load")' /\ ~At("net", "save")' => ~At("net", "load") /\ ~At("net", "save")
        BY <1>8 DEF At
      <4> QED BY <4>1, <4>2 DEF Right, Indexed
    <3> QED BY <3>1, <3>2, <3>3
  <2>4. \A w \in Tasks : draft'[w].build = cache.build /\ draft'[w].idx.entries # NoEntries
                            => draft'[w].idx.len =< cache.len
    BY <1>5, NothingIndexed DEF Right, Indexed
  <2>5. At("net", "load")' => cache.len = Len(card.blob[cache.build]) /\ cache.index = NoEntries
    BY <1>8 DEF At, Right, Indexed
  <2> QED BY <2>2, <2>3, <2>4, <2>5, <1>4, <1>6 DEF Indexed
<1>12. Written'
  <2>1. ASSUME NEW b \in Builds PROVE Claims(card'.blob[b], card'.idx[b])
    <3>1. CASE b # b0
      BY <3>1, <1>4 DEF Right, Written
    <3>2. CASE b = b0
      <4>1. Claims(card.blob[b0], idx)
        BY <3>2, <1>2, BuildIs, ClaimsNothing DEF Right, Written
      <4> QED BY <3>2, <4>1, <1>4
    <3> QED BY <3>1, <3>2
  <2>2. \A w \in Tasks : draft'[w].build # 0 => Claims(card'.blob[draft'[w].build], draft'[w].idx)
    BY <1>4, <1>5, NothingIndexed DEF Right, Written
  <2>3. draft'["ui"].idx.entries # NoEntries =>
             \/ draft'["ui"].build < build'
             \/ draft'["ui"].build = build' /\ build' = cache'.build /\ cache'.open
    BY <1>0, <1>5, <1>6, NothingIndexed DEF Right, Written, Tasks
  <2> QED BY <2>1, <2>2, <2>3 DEF Written
<1> QED BY <1>9, <1>10, <1>11, <1>12 DEF Right

(* No append was cut short: what was flushed of a blob is how the blob      *)
(* still begins.                                                            *)
LEMMA PowerCutRight == ASSUME Kept, Kept', Sound', Right, PowerCut PROVE Right'
<1>0. /\ CacheTyped /\ Bounds /\ ~cache'.open
      /\ \A w \in Tasks : draft'[w] = NoDraft
    BY NothingOpen DEF Kept, PowerCut
<1>1. "torn" \notin mishaps
    BY DEF PowerCut, Happens, Sound
<1>2. /\ card' \in Cards /\ card'.idx = card.idx /\ synced' = card'.blob
      /\ \A b \in Builds :
            /\ Len(card'.blob[b]) = Len(synced[b])
            /\ \A i \in 1 .. Len(synced[b]) :
                  card'.blob[b][i] = card.blob[b][i] \/ card'.blob[b][i] = synced[b][i]
    BY <1>0, PowerCutIs
<1>3. \A b \in Builds :
            /\ \A i \in 1 .. Len(synced[b]) : card.blob[b][i] = synced[b][i]
            /\ Formed(card.blob[b], Len(synced[b]))
    BY <1>1 DEF Right, Untorn
<1>4. ASSUME NEW b \in Builds
      PROVE  Formed(card'.blob[b], Len(card'.blob[b])) /\ Claims(card'.blob[b], card'.idx[b])
  <2> DEFINE file == card.blob[b]
             g == card'.blob[b]
             n == Len(synced[b])
             idx == card.idx[b]
  <2>1. file \in Files /\ g \in Files /\ idx \in IdxFile /\ synced[b] \in Files
    BY <1>0, <1>2, CardIs DEF CacheTyped
  <2>2. n \in Nat /\ Len(g) = n /\ n =< Len(file) /\ Len(file) \in Nat /\ idx.len \in Int
    <3>1. idx.len \in Int
      BY <2>1 DEF IdxFile
    <3>2. Len(synced[b]) =< Len(card.blob[b]) /\ Len(card'.blob[b]) = Len(synced[b])
      BY <1>0, <1>2 DEF Bounds
    <3> QED BY <2>1, <3>1, <3>2, FileIs
  <2>3. \A i \in 1 .. n : g[i] = file[i]
    BY <1>2, <1>3
  <2>4. Formed(file, n) /\ Claims(file, idx)
    BY <1>3 DEF Right, Written
  <2>5. card'.idx[b] = idx
    BY <1>2
  <2> HIDE DEF file, n, idx
  <2>6. Formed(g, n)
    <3> HIDE DEF g
    <3> QED BY <2>1, <2>2, <2>3, <2>4, FormedSame
  <2>7. ASSUME idx.len =< Len(g) PROVE idx.len =< Len(file) /\ \A i \in 1 .. idx.len : g[i] = file[i]
    <3>1. \A i \in 1 .. idx.len : i \in 1 .. n
      BY <2>2, <2>7
    <3> QED BY <2>2, <2>3, <2>7, <3>1
  <2>8. Claims(g, idx)
    <3> HIDE DEF g
    <3> QED BY <2>1, <2>4, <2>7, ClaimsSame
  <2> QED BY <2>2, <2>5, <2>6, <2>8
<1>5. Untorn'
    BY <1>0, <1>2, <1>4 DEF Untorn
<1>6. Torn'
    BY <1>4 DEF Torn
<1>7. Indexed'
    BY <1>0 DEF Indexed
<1>8. Written'
    BY <1>0, <1>4, NothingIndexed DEF Written, Tasks
<1> QED BY <1>5, <1>6, <1>7, <1>8 DEF Right

LEMMA InitRight == ASSUME Init PROVE Right
<1>1. <<>> \in Files /\ Len(<<>>) = 0
    BY EmptySeq DEF Files
<1>2. Formed(<<>>, 0)
    BY <1>1, FormedNothing
<1>3. \A b \in Builds : card.blob[b] = <<>> /\ card.idx[b] = NoIndex /\ synced[b] = <<>>
    BY DEF Init
<1>4. ~cache.open /\ \A w \in Tasks : draft[w] = NoDraft
    BY NothingOpen DEF Init
<1>5. \A i \in 1 .. Len(<<>>) : FALSE
    BY <1>1
<1>6. Untorn
    BY <1>1, <1>2, <1>3, <1>4, <1>5 DEF Untorn
<1>7. Torn
    BY <1>1, <1>2, <1>3 DEF Torn
<1>8. Indexed
    BY <1>4 DEF Indexed
<1>9. Written
    BY <1>3, <1>4, NothingIndexed, ClaimsNothing DEF Written, Tasks
<1> QED BY <1>6, <1>7, <1>8, <1>9 DEF Right

(* What has happened stays known.                                           *)
LEMMA MishapsKnown == ASSUME Next PROVE mishaps \subseteq mishaps'
BY DEF Next, Begin, Check, Begun, Refresh, OpenBlob, OpenFails, LoadIndex, CloseBlob, DropBlob, DropIdx,
       ManifestSave, Put, PutFails, Flush, Sync, SaveBegins, SaveFails, SaveEnds, Release, PowerCut, Happens

LEMMA NextRight == ASSUME Kept, Kept', Sound', Right, [Next]_vars PROVE Right'
<1>1. CASE Begin \/ Check \/ Begun \/ ManifestSave
    BY <1>1, BeginRight, CheckRight, BegunRight, ManifestSaveRight
<1>2. CASE \E found \in Builds : found >= build /\ Refresh(found)
    BY <1>2, RefreshRight
<1>3. CASE OpenBlob \/ OpenFails \/ LoadIndex \/ CloseBlob \/ DropBlob \/ DropIdx
    BY <1>3, OpenBlobRight, OpenFailsRight, LoadIndexRight, CloseBlobRight, DropBlobRight, DropIdxRight
<1>4. CASE \E t \in Tiles : Put(t) \/ PutFails(t)
    BY <1>4, PutRight, PutFailsRight
<1>5. CASE Flush
    BY <1>5, FlushRight
<1>6. CASE \E who \in Tasks : Sync(who) \/ SaveBegins(who) \/ SaveFails(who) \/ SaveEnds(who) \/ Release(who)
    BY <1>6, SyncRight, SaveBeginsRight, SaveFailsRight, SaveEndsRight, ReleaseRight
<1>7. CASE PowerCut
    BY <1>7, PowerCutRight
<1>8. CASE UNCHANGED vars
    BY <1>8 DEF vars, Right, Untorn, Torn, Indexed, Written, At
<1> QED BY <1>1, <1>2, <1>3, <1>4, <1>5, <1>6, <1>7, <1>8 DEF Next

LEMMA CacheInvFaithful == ASSUME CacheInv PROVE GetFaithful
<1> SUFFICES ASSUME Sound, cache.open, NEW t \in DOMAIN cache.index
             PROVE HoldsPayload(card.blob[cache.build], cache.index[t], t)
    BY DEF GetFaithful
<1>1. Claims(card.blob[cache.build], [len |-> cache.len, entries |-> cache.index])
    BY DEF CacheInv, Right, Indexed
<1>2. cache.len =< Len(card.blob[cache.build])
    BY DEF CacheInv, Kept, Bounds
<1> QED BY <1>1, <1>2 DEF Claims

(* As long as no cut short append was followed by a power cut and no index   *)
(* of a longer blob was left in place, what tilecache_get reads at an       *)
(* indexed offset is the payload of the tile asked for (tilecache.cpp:273): *)
(* across appends, flushes, index saves that fail or are cut off, power     *)
(* cuts, wipes and changes of build.                                        *)
THEOREM GetIsFaithful == Spec => []GetFaithful
<1>1. Init => CacheInv
    BY InitKept, InitRight DEF CacheInv
<1>2. CacheInv /\ [Next]_vars => CacheInv'
  <2> SUFFICES ASSUME CacheInv, [Next]_vars PROVE CacheInv'
      OBVIOUS
  <2>1. Kept /\ Kept'
    BY NextKeeps DEF CacheInv
  <2>2. ASSUME Sound' PROVE Right'
    <3>1. mishaps \subseteq mishaps'
      BY MishapsKnown DEF vars
    <3>2. Sound
      BY <2>2, <3>1, SoundBefore
    <3> QED BY <2>1, <2>2, <3>2, NextRight DEF CacheInv
  <2> QED BY <2>1, <2>2 DEF CacheInv
<1>3. CacheInv => GetFaithful
    BY CacheInvFaithful
<1> QED BY <1>1, <1>2, <1>3, PTL DEF Spec

=============================================================================
