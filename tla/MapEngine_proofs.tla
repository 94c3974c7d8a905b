--------------------------- MODULE MapEngine_proofs -------------------------
(***************************************************************************)
(* Type correctness and buffer ownership of the tile pipeline, for every   *)
(* window size, queue length and set of operations.  They rest on lemmas   *)
(* about the window of tiles alone: ranks in a total order, the orders     *)
(* used here, the jobs a layout emits, and what a shift does to buffers.   *)
(***************************************************************************)
EXTENDS MapEngine, FiniteSetTheorems, SequenceTheorems, TLAPS

-----------------------------------------------------------------------------
(* Ranks. *)

TotalOn(S, order) ==
    /\ \A a \in S : <<a, a>> \notin order
    /\ \A a, b \in S : a # b => <<a, b>> \in order \/ <<b, a>> \in order
    /\ \A a, b, c \in S :
        <<a, b>> \in order /\ <<b, c>> \in order => <<a, c>> \in order

(* A total order stays one on a subset. *)
LEMMA TotalOnSubset ==
    ASSUME NEW S, NEW order, TotalOn(S, order), NEW T \in SUBSET S
    PROVE  TotalOn(T, order)
BY DEF TotalOn

(* The elements below another one are a proper part of the set. *)
LEMMA BelowProper ==
    ASSUME NEW S, IsFiniteSet(S), NEW order, TotalOn(S, order), NEW a \in S
    PROVE  RankIn(S, order, a) \in 0 .. Cardinality(S) - 1
<1> DEFINE below == {t \in S : <<t, a>> \in order}
<1>1. below \in SUBSET S /\ below # S
    BY DEF TotalOn
<1>2. IsFiniteSet(below) /\ Cardinality(below) <= Cardinality(S)
    BY <1>1, FS_Subset
<1>3. Cardinality(S) # Cardinality(below)
    BY <1>1, FS_Subset
<1>4. Cardinality(S) \in Nat /\ Cardinality(below) \in Nat
    BY <1>2, FS_CardinalityType
<1>5. RankIn(S, order, a) = Cardinality(below)
    BY DEF RankIn
<1> QED
    BY <1>2, <1>3, <1>4, <1>5

(* Smaller elements have smaller ranks. *)
LEMMA RankMonotone ==
    ASSUME NEW S, IsFiniteSet(S), NEW order, TotalOn(S, order),
           NEW a \in S, NEW b \in S, <<a, b>> \in order
    PROVE  RankIn(S, order, a) < RankIn(S, order, b)
<1> DEFINE belowA == {t \in S : <<t, a>> \in order}
           belowB == {t \in S : <<t, b>> \in order}
<1>1. belowA \in SUBSET belowB
    BY DEF TotalOn
<1>2. belowA # belowB
    BY DEF TotalOn
<1>3. IsFiniteSet(belowB)
    BY FS_Subset, belowB \in SUBSET S
<1>4. /\ IsFiniteSet(belowA)
      /\ Cardinality(belowA) <= Cardinality(belowB)
      /\ Cardinality(belowA) # Cardinality(belowB)
    BY <1>1, <1>2, <1>3, FS_Subset
<1>5. Cardinality(belowA) \in Nat /\ Cardinality(belowB) \in Nat
    BY <1>3, <1>4, FS_CardinalityType
<1>6. /\ RankIn(S, order, a) = Cardinality(belowA)
      /\ RankIn(S, order, b) = Cardinality(belowB)
    BY DEF RankIn
<1> QED
    BY <1>4, <1>5, <1>6

(* Two elements never share a rank. *)
LEMMA RankInjective ==
    ASSUME NEW S, IsFiniteSet(S), NEW order, TotalOn(S, order),
           NEW a \in S, NEW b \in S, a # b
    PROVE  RankIn(S, order, a) # RankIn(S, order, b)
<1>1. <<a, b>> \in order \/ <<b, a>> \in order
    BY DEF TotalOn
<1>2. /\ RankIn(S, order, a) \in Int
      /\ RankIn(S, order, b) \in Int
    BY BelowProper, FS_CardinalityType
<1>3. CASE <<a, b>> \in order
    <2>1. RankIn(S, order, a) < RankIn(S, order, b)
        BY <1>3, RankMonotone
    <2> QED
        BY <2>1, <1>2
<1>4. CASE <<b, a>> \in order
    <2>1. RankIn(S, order, b) < RankIn(S, order, a)
        BY <1>4, RankMonotone
    <2> QED
        BY <2>1, <1>2
<1> QED
    BY <1>1, <1>3, <1>4

(* Every rank below the size of the set is taken, by the Nth element. *)
LEMMA NthExists ==
    ASSUME NEW S, IsFiniteSet(S), NEW order, TotalOn(S, order),
           NEW n \in 0 .. Cardinality(S) - 1
    PROVE  /\ Nth(S, order, n) \in S
           /\ RankIn(S, order, Nth(S, order, n)) = n
<1> DEFINE R == 0 .. Cardinality(S) - 1
           f == [s \in S |-> RankIn(S, order, s)]
<1>1. Cardinality(S) \in Nat
    BY FS_CardinalityType
<1>2. f \in [S -> R]
    BY BelowProper
<1>3. \A a, b \in S : f[a] = f[b] => a = b
    BY RankInjective
<1>4. f \in Injection(S, R)
    BY <1>2, <1>3 DEF Injection, IsInjective
<1>5. IsFiniteSet(R) /\ Cardinality(R) = Cardinality(S)
    BY <1>1, FS_Interval
<1>6. f \in Surjection(S, R)
    BY <1>4, <1>5, FS_Injection
<1>7. \E s \in S : f[s] = n
    BY <1>6 DEF Surjection
<1>8. \E s \in S : RankIn(S, order, s) = n
    BY <1>7
<1> QED
    BY <1>8 DEF Nth

-----------------------------------------------------------------------------
(* The slots and their orders. *)

LEMMA SlotsFinite == IsFiniteSet(Slots)
<1>1. IsFiniteSet(0 .. GRID_N - 1)
    BY GridAssumption, FS_Interval
<1> QED
    BY <1>1, FS_Product DEF Slots

(* Scanning by index is a total order: the code's loops over slots[i]. *)
LEMMA RowMajorTotal == TotalOn(Slots, RowMajor)
<1>1. \A a \in Slots : a = <<a[1], a[2]>> /\ a[1] \in Int /\ a[2] \in Int
    BY GridAssumption DEF Slots
<1>2. ASSUME NEW a \in Slots, NEW b \in Slots
      PROVE  <<a, b>> \in RowMajor <=> EarlierIndex(a, b)
    BY DEF RowMajor
<1>3. \A a \in Slots : ~EarlierIndex(a, a)
    BY <1>1 DEF EarlierIndex
<1>4. ASSUME NEW a \in Slots, NEW b \in Slots, a # b
      PROVE  EarlierIndex(a, b) \/ EarlierIndex(b, a)
    <2>1. a[1] # b[1] \/ a[2] # b[2]
        BY <1>1, <1>4
    <2> QED
        BY <1>1, <2>1 DEF EarlierIndex
<1>5. \A a, b, c \in Slots :
        EarlierIndex(a, b) /\ EarlierIndex(b, c) => EarlierIndex(a, c)
    BY <1>1 DEF EarlierIndex
<1> QED
    BY <1>2, <1>3, <1>4, <1>5 DEF TotalOn

LEMMA SlotRankInt == \A s \in Slots : SlotRank(s) \in Int
BY GridAssumption DEF Slots, SlotRank

(* slot_rank with ties broken by index is a total order, whatever GRID_N:  *)
(* no two slots have the same place in the queue.                          *)
LEMMA CentreFirstTotal == TotalOn(Slots, CentreFirst)
<1>1. \A a \in Slots : ~EarlierIndex(a, a)
    BY RowMajorTotal DEF TotalOn, RowMajor
<1>2. \A a, b \in Slots : a # b => EarlierIndex(a, b) \/ EarlierIndex(b, a)
    BY RowMajorTotal DEF TotalOn, RowMajor
<1>3. \A a, b, c \in Slots :
        EarlierIndex(a, b) /\ EarlierIndex(b, c) => EarlierIndex(a, c)
    BY RowMajorTotal DEF TotalOn, RowMajor
<1>4. \A a, b \in Slots : <<a, b>> \in CentreFirst <=> NearerCentre(a, b)
    BY DEF CentreFirst
<1>5. \A a \in Slots : ~NearerCentre(a, a)
    BY <1>1, SlotRankInt DEF NearerCentre
<1>6. \A a, b \in Slots : a # b => NearerCentre(a, b) \/ NearerCentre(b, a)
    BY <1>2, SlotRankInt DEF NearerCentre
<1>7. \A a, b, c \in Slots :
        NearerCentre(a, b) /\ NearerCentre(b, c) => NearerCentre(a, c)
    BY <1>3, SlotRankInt DEF NearerCentre
<1> QED
    BY <1>4, <1>5, <1>6, <1>7 DEF TotalOn

-----------------------------------------------------------------------------
(* What a layout produces is well typed. *)

LEMMA TileAtType ==
    ASSUME NEW origin \in TileId, NEW r \in Int, NEW c \in Int
    PROVE  TileAt(origin, r, c) \in TileId
BY GridAssumption DEF TileAt, TileId

LEMMA SlotCoordinates == \A s \in Slots : s[1] \in Int /\ s[2] \in Int
BY GridAssumption DEF Slots

LEMMA FreshStateType == \A id : FreshState(id) \in TileStates
BY DEF FreshState, TileStates

LEMMA GridInitType ==
    ASSUME NEW B, NEW held \in [Slots -> B], NEW origin \in TileId
    PROVE  GridInit(held, origin) \in Grid(B)
BY TileAtType, SlotCoordinates, FreshStateType DEF GridInit, Grid, Slot

LEMMA RezonedGridType ==
    ASSUME NEW B, NEW g \in Grid(B), NEW origin \in TileId
    PROVE  RezonedGrid(g, origin) \in Grid(B)
BY TileAtType, SlotCoordinates, FreshStateType DEF RezonedGrid, Grid, Slot

(* emit_jobs fills its output with one well-formed job per slot. *)
LEMMA EmitJobsType ==
    ASSUME NEW B, NEW g \in Grid(B), NEW needs \in SUBSET Slots
    PROVE  EmitJobs(g, needs) \in Seq(Job)
<1>1. IsFiniteSet(needs) /\ TotalOn(needs, CentreFirst)
    BY SlotsFinite, FS_Subset, CentreFirstTotal, TotalOnSubset
<1>2. Cardinality(needs) \in Nat
    BY <1>1, FS_CardinalityType
<1>3. ASSUME NEW k \in 1 .. Cardinality(needs)
      PROVE  Nth(needs, CentreFirst, k - 1) \in Slots
    <2>1. k - 1 \in 0 .. Cardinality(needs) - 1
        BY <1>2
    <2> QED
        BY <1>1, <2>1, NthExists
<1>4. ASSUME NEW k \in 1 .. Cardinality(needs)
      PROVE  EmitJobs(g, needs)[k] \in Job
    BY <1>3 DEF EmitJobs, Job, Grid, Slot
<1>5. EmitJobs(g, needs) = [k \in 1 .. Cardinality(needs) |->
                                EmitJobs(g, needs)[k]]
    BY DEF EmitJobs
<1>6. EmitJobs(g, needs) \in [1 .. Cardinality(needs) -> Job]
    BY <1>4, <1>5
<1> QED
    BY <1>2, <1>6, SeqDef

-----------------------------------------------------------------------------
(* grid_shift.  The slots that need a tile and the buffers that no carried *)
(* slot kept are equally many, so pairing them by rank is one to one.      *)

Needs(g, dx, dy)  == Slots \ Carried(g, dx, dy)
Kept(g, dx, dy)   == {Source(s, dx, dy) : s \in Carried(g, dx, dy)}
Donors(g, dx, dy) == Slots \ Kept(g, dx, dy)

(* The old slot whose buffer a slot of the shifted window gets. *)
Giver(g, dx, dy, s) ==
    IF s \in Carried(g, dx, dy) THEN Source(s, dx, dy)
    ELSE Nth(Donors(g, dx, dy), RowMajor,
             RankIn(Needs(g, dx, dy), RowMajor, s))

LEMMA CarriedSlots ==
    ASSUME NEW g, NEW dx \in Int, NEW dy \in Int
    PROVE  /\ Carried(g, dx, dy) \in SUBSET Slots
           /\ Kept(g, dx, dy) \in SUBSET Slots
BY DEF Carried, Kept

LEMMA CancelAddend ==
    ASSUME NEW a \in Int, NEW b \in Int, NEW d \in Int, a + d = b + d
    PROVE  a = b
OBVIOUS

LEMMA SourceInjective ==
    ASSUME NEW dx \in Int, NEW dy \in Int, NEW s \in Slots, NEW t \in Slots,
           Source(s, dx, dy) = Source(t, dx, dy)
    PROVE  s = t
<1>1. s = <<s[1], s[2]>> /\ t = <<t[1], t[2]>>
    BY DEF Slots
<1>2. s[1] + dy = t[1] + dy /\ s[2] + dx = t[2] + dx
    BY DEF Source
<1>3. s[1] = t[1] /\ s[2] = t[2]
    BY <1>2, SlotCoordinates, CancelAddend
<1>4. <<s[1], s[2]>> = <<t[1], t[2]>>
    BY <1>3
<1> QED
    BY <1>1, <1>4

(* As many donors as needs. *)
LEMMA DonorsMatchNeeds ==
    ASSUME NEW g, NEW dx \in Int, NEW dy \in Int
    PROVE  /\ IsFiniteSet(Needs(g, dx, dy)) /\ IsFiniteSet(Donors(g, dx, dy))
           /\ Cardinality(Needs(g, dx, dy)) = Cardinality(Donors(g, dx, dy))
<1> DEFINE C == Carried(g, dx, dy)
           K == Kept(g, dx, dy)
           f == [s \in C |-> Source(s, dx, dy)]
<1>1. C \in SUBSET Slots /\ K \in SUBSET Slots
    BY CarriedSlots
<1>2. IsFiniteSet(C) /\ IsFiniteSet(K)
    BY <1>1, SlotsFinite, FS_Subset
<1>3. f \in [C -> K] /\ \A k \in K : \E s \in C : f[s] = k
    BY DEF Kept
<1>4. f \in Surjection(C, K)
    BY <1>3 DEF Surjection
<1>5. \A s, t \in C : f[s] = f[t] => s = t
    BY <1>1, SourceInjective
<1>6. f \in Injection(C, K)
    BY <1>3, <1>5 DEF Injection, IsInjective
<1>7. Cardinality(K) = Cardinality(C)
    BY <1>2, <1>4, <1>6, FS_Surjection
<1>8. Slots \cap C = C /\ Slots \cap K = K
    BY <1>1
<1>9. /\ IsFiniteSet(Slots \ C)
      /\ Cardinality(Slots \ C) = Cardinality(Slots) - Cardinality(C)
    BY <1>8, SlotsFinite, FS_Difference
<1>10. /\ IsFiniteSet(Slots \ K)
       /\ Cardinality(Slots \ K) = Cardinality(Slots) - Cardinality(K)
    BY <1>8, SlotsFinite, FS_Difference
<1> QED
    BY <1>7, <1>9, <1>10 DEF Needs, Donors

(* No two slots of the shifted window get the same old slot's buffer. *)
LEMMA GiverInjective ==
    ASSUME NEW g, NEW dx \in Int, NEW dy \in Int
    PROVE  /\ \A s \in Slots : Giver(g, dx, dy, s) \in Slots
           /\ \A s, t \in Slots :
                s # t => Giver(g, dx, dy, s) # Giver(g, dx, dy, t)
<1> DEFINE C == Carried(g, dx, dy)
           N == Needs(g, dx, dy)
           D == Donors(g, dx, dy)
           Rank(s) == RankIn(N, RowMajor, s)
           Donor(s) == Nth(D, RowMajor, Rank(s))
<1>1. C \in SUBSET Slots /\ N \in SUBSET Slots /\ D \in SUBSET Slots
    BY CarriedSlots DEF Needs, Donors
<1>2. /\ IsFiniteSet(N) /\ IsFiniteSet(D)
      /\ Cardinality(N) = Cardinality(D)
    BY DonorsMatchNeeds
<1>3. TotalOn(N, RowMajor) /\ TotalOn(D, RowMajor)
    BY <1>1, RowMajorTotal, TotalOnSubset
<1>4. ASSUME NEW s \in N
      PROVE  Donor(s) \in D /\ RankIn(D, RowMajor, Donor(s)) = Rank(s)
    <2>1. Rank(s) \in 0 .. Cardinality(D) - 1
        BY <1>2, <1>3, BelowProper
    <2> QED
        BY <1>2, <1>3, <2>1, NthExists
<1>5. ASSUME NEW s \in N, NEW t \in N, s # t
      PROVE  Donor(s) # Donor(t)
    <2>1. Rank(s) # Rank(t)
        BY <1>2, <1>3, <1>5, RankInjective
    <2> QED
        BY <1>4, <2>1
<1>6. \A s \in C : Source(s, dx, dy) \in Slots \ D
    BY CarriedSlots DEF Donors, Kept
<1>7. ASSUME NEW s \in C, NEW t \in C, s # t
      PROVE  Source(s, dx, dy) # Source(t, dx, dy)
    BY <1>1, <1>7, SourceInjective
<1>8. \A s \in Slots : s \in C \/ s \in N
    BY DEF Needs
<1>9. \A s \in C : Giver(g, dx, dy, s) = Source(s, dx, dy)
    BY DEF Giver
<1>10. \A s \in N : Giver(g, dx, dy, s) = Donor(s)
    BY DEF Giver, Needs
<1> HIDE DEF C, N, D, Rank, Donor
<1>11. \A s \in Slots : Giver(g, dx, dy, s) \in Slots
    BY <1>1, <1>4, <1>6, <1>8, <1>9, <1>10
<1>12. ASSUME NEW s \in Slots, NEW t \in Slots, s # t
       PROVE  Giver(g, dx, dy, s) # Giver(g, dx, dy, t)
    <2>1. CASE s \in C /\ t \in C
        BY <2>1, <1>7, <1>9, <1>12
    <2>2. CASE s \in N /\ t \in N
        BY <2>2, <1>5, <1>10, <1>12
    <2>3. CASE s \in C /\ t \in N
        BY <2>3, <1>4, <1>6, <1>9, <1>10
    <2>4. CASE s \in N /\ t \in C
        BY <2>4, <1>4, <1>6, <1>9, <1>10
    <2> QED
        BY <1>8, <2>1, <2>2, <2>3, <2>4
<1> QED
    BY <1>11, <1>12

(* The shifted window's buffers are the old ones, given in that way. *)
LEMMA ShiftedPixels ==
    ASSUME NEW B, NEW g \in Grid(B), NEW dx \in Int, NEW dy \in Int,
           NEW s \in Slots
    PROVE  ShiftedGrid(g, dx, dy).slots[s].pixels
                = g.slots[Giver(g, dx, dy, s)].pixels
<1>1. CASE s \in Carried(g, dx, dy)
    BY <1>1 DEF ShiftedGrid, Giver
<1>2. CASE s \notin Carried(g, dx, dy)
    BY <1>2 DEF ShiftedGrid, Giver, Needs, Donors, Kept
<1> QED
    BY <1>1, <1>2

LEMMA ShiftedGridType ==
    ASSUME NEW B, NEW g \in Grid(B), NEW dx \in Int, NEW dy \in Int
    PROVE  ShiftedGrid(g, dx, dy) \in Grid(B)
<1> DEFINE new == ShiftedGrid(g, dx, dy)
           origin == TileAt(g.origin, dy, dx)
<1>1. origin \in TileId /\ g.generation + 1 \in Nat
    BY TileAtType DEF Grid
<1>2. ASSUME NEW s \in Slots
      PROVE  new.slots[s] \in Slot(B)
    <2>1. CASE s \in Carried(g, dx, dy)
        <3>1. Source(s, dx, dy) \in Slots
            BY <2>1 DEF Carried
        <3>2. new.slots[s] = g.slots[Source(s, dx, dy)]
            BY <2>1 DEF ShiftedGrid
        <3> QED
            BY <3>1, <3>2 DEF Grid
    <2>2. CASE s \notin Carried(g, dx, dy)
        <3>1. g.slots[Giver(g, dx, dy, s)].pixels \in B
            BY GiverInjective DEF Grid, Slot
        <3>2. new.slots[s].pixels \in B
            BY <3>1, ShiftedPixels
        <3>3. new.slots[s] =
                [id |-> TileAt(origin, s[1], s[2]),
                 state |-> FreshState(TileAt(origin, s[1], s[2])),
                 pixels |-> new.slots[s].pixels,
                 generation |-> g.generation + 1]
            BY <2>2 DEF ShiftedGrid
        <3>4. TileAt(origin, s[1], s[2]) \in TileId
            BY <1>1, SlotCoordinates, TileAtType
        <3> HIDE DEF new, origin
        <3> QED
            BY <1>1, <3>2, <3>3, <3>4, FreshStateType DEF Slot
    <2> QED
        BY <2>1, <2>2
<1>3. /\ new = [origin |-> origin, generation |-> g.generation + 1,
                slots |-> [s \in Slots |-> new.slots[s]]]
    BY DEF ShiftedGrid
<1> QED
    BY <1>1, <1>2, <1>3 DEF Grid

(* Invariant 2 of tile_grid.h across a shift. *)
LEMMA ShiftedIds ==
    ASSUME NEW B, NEW g \in Grid(B), NEW dx \in Int, NEW dy \in Int,
           NEW s \in Slots
    PROVE  ShiftedGrid(g, dx, dy).slots[s].id
                = TileAt(ShiftedGrid(g, dx, dy).origin, s[1], s[2])
<1>1. CASE s \in Carried(g, dx, dy)
    BY <1>1 DEF ShiftedGrid, Carried
<1>2. CASE s \notin Carried(g, dx, dy)
    BY <1>2 DEF ShiftedGrid
<1> QED
    BY <1>1, <1>2

LEMMA ShiftJobsType ==
    ASSUME NEW B, NEW g \in Grid(B), NEW dx \in Int, NEW dy \in Int
    PROVE  ShiftJobs(g, dx, dy) \in Seq(Job)
BY ShiftedGridType, EmitJobsType DEF ShiftJobs

LEMMA RezoneJobsType ==
    ASSUME NEW B, NEW g \in Grid(B), NEW origin \in TileId
    PROVE  RezoneJobs(g, origin) \in Seq(Job)
BY RezonedGridType, EmitJobsType DEF RezoneJobs

(* What a commit can do to the grid. *)
LEMMA CommitSwapType ==
    ASSUME NEW B, NEW g \in Grid(B), NEW job, NEW result \in TileStates,
           NEW b \in B
    PROVE  /\ CommitSwap(g, job, result, b) \in Grid(B)
           /\ Recycled(g, job, b) \in B
<1>1. CASE Accepts(g, job)
    <2>1. job.slot \in Slots
        BY <1>1 DEF Accepts
    <2> DEFINE old == g.slots[job.slot]
               new == [old EXCEPT !.pixels = b, !.state = result]
    <2>2. old \in Slot(B)
        BY <2>1 DEF Grid
    <2>3. new \in Slot(B) /\ old.pixels \in B
        BY <2>2 DEF Slot
    <2>4. CommitSwap(g, job, result, b) =
            [g EXCEPT !.slots = [g.slots EXCEPT ![job.slot] = new]]
        BY <1>1 DEF CommitSwap
    <2>5. [g.slots EXCEPT ![job.slot] = new] \in [Slots -> Slot(B)]
        BY <2>3 DEF Grid
    <2>6. Recycled(g, job, b) = old.pixels
        BY <1>1 DEF Recycled
    <2> HIDE DEF new, old
    <2> QED
        BY <2>3, <2>4, <2>5, <2>6 DEF Grid
<1>2. CASE ~Accepts(g, job)
    BY <1>2 DEF CommitSwap, Recycled
<1> QED
    BY <1>1, <1>2

(* Marking one slot with a state leaves a grid. *)
LEMMA MarkedType ==
    ASSUME NEW B, NEW g \in Grid(B), NEW s \in Slots, NEW state \in TileStates
    PROVE  [g EXCEPT !.slots[s].state = state] \in Grid(B)
<1> DEFINE new == [g.slots[s] EXCEPT !.state = state]
<1>1. new \in Slot(B)
    BY DEF Grid, Slot
<1>2. [g EXCEPT !.slots[s].state = state] =
        [g EXCEPT !.slots = [g.slots EXCEPT ![s] = new]]
    OBVIOUS
<1>3. [g.slots EXCEPT ![s] = new] \in [Slots -> Slot(B)]
    BY <1>1 DEF Grid
<1> HIDE DEF new
<1> QED
    BY <1>2, <1>3 DEF Grid

LEMMA CommitType ==
    ASSUME NEW B, NEW g \in Grid(B), NEW job, NEW result \in TileStates
    PROVE  Commit(g, job, result) \in Grid(B)
<1>1. CASE Accepts(g, job)
    <2>1. job.slot \in Slots
        BY <1>1 DEF Accepts
    <2> QED
        BY <1>1, <2>1, MarkedType DEF Commit
<1>2. CASE ~Accepts(g, job)
    BY <1>2 DEF Commit
<1> QED
    BY <1>1, <1>2

(* Marking a slot leaves every slot's buffer and tile, and the window.     *)
LEMMA MarkedKeeps ==
    ASSUME NEW B, NEW g \in Grid(B), NEW t \in Slots, NEW state
    PROVE  LET new == [g EXCEPT !.slots[t].state = state]
           IN  /\ \A s \in Slots :
                    /\ new.slots[s].pixels = g.slots[s].pixels
                    /\ new.slots[s].id = g.slots[s].id
               /\ new.origin = g.origin
               /\ new.generation = g.generation
BY DEF Grid, Slot

LEMMA CommitKeeps ==
    ASSUME NEW B, NEW g \in Grid(B), NEW job, NEW result
    PROVE  LET new == Commit(g, job, result)
           IN  /\ \A s \in Slots :
                    /\ new.slots[s].pixels = g.slots[s].pixels
                    /\ new.slots[s].id = g.slots[s].id
               /\ new.origin = g.origin
               /\ new.generation = g.generation
<1>1. CASE Accepts(g, job)
    <2>1. job.slot \in Slots
        BY <1>1 DEF Accepts
    <2> QED
        BY <1>1, <2>1, MarkedKeeps DEF Commit
<1>2. CASE ~Accepts(g, job)
    BY <1>2 DEF Commit
<1> QED
    BY <1>1, <1>2

(* grid_commit_swap gives the slot the fresh buffer, and only that slot.   *)
LEMMA CommitSwapKeeps ==
    ASSUME NEW B, NEW g \in Grid(B), NEW job, NEW result, NEW b
    PROVE  LET new == CommitSwap(g, job, result, b)
           IN  /\ \A s \in Slots :
                    /\ new.slots[s].pixels =
                        IF Accepts(g, job) /\ s = job.slot
                        THEN b ELSE g.slots[s].pixels
                    /\ new.slots[s].id = g.slots[s].id
               /\ new.origin = g.origin
               /\ new.generation = g.generation
BY DEF CommitSwap, Accepts, Grid, Slot

-----------------------------------------------------------------------------
(* Columns wrap round the world.  Two columns that lie less than a world   *)
(* apart and show the same tile are the same column.                       *)

LEMMA DivMod ==
    ASSUME NEW u \in Int, NEW w \in Nat \ {0}
    PROVE  /\ u % w \in 0 .. w - 1 /\ u \div w \in Int
           /\ u = w * (u \div w) + (u % w)
OBVIOUS

LEMMA MultipleGrows ==
    ASSUME NEW w \in Nat \ {0}, NEW k \in Int, k >= 1
    PROVE  w * k >= w
OBVIOUS

LEMMA SmallMultiple ==
    ASSUME NEW w \in Nat \ {0}, NEW k \in Int, NEW d \in Int,
           d = w * k, d < w, -d < w
    PROVE  k = 0
<1>1. CASE k >= 1
    BY <1>1, MultipleGrows
<1>2. CASE k <= -1
    <2>1. w * (-k) >= w
        BY <1>2, MultipleGrows
    <2>2. w * (-k) = -d
        OBVIOUS
    <2> QED
        BY <2>1, <2>2
<1> QED
    BY <1>1, <1>2

LEMMA ModNear ==
    ASSUME NEW u \in Int, NEW v \in Int, NEW w \in Nat \ {0},
           u % w = v % w, u - v < w, v - u < w
    PROVE  u = v
<1> DEFINE p == u \div w
           q == v \div w
<1>1. /\ u = w * p + (u % w) /\ p \in Int /\ u % w \in Int
      /\ v = w * q + (v % w) /\ q \in Int
    BY DivMod
<1> HIDE DEF p, q
<1>2. u - v = w * (p - q)
    BY <1>1
<1>3. p - q = 0
    BY <1>1, <1>2, SmallMultiple
<1> QED
    BY <1>1, <1>3

LEMMA ModShift ==
    ASSUME NEW u \in Int, NEW b \in Int, NEW w \in Nat \ {0}
    PROVE  ((u % w) + b) % w = (u + b) % w
<1> DEFINE r == u % w
           q == u \div w
           r1 == (r + b) % w
           q1 == (r + b) \div w
           r2 == (u + b) % w
           q2 == (u + b) \div w
<1>1. r \in 0 .. w - 1 /\ q \in Int /\ u = w * q + r
    BY DivMod
<1>2. r1 \in 0 .. w - 1 /\ q1 \in Int /\ r + b = w * q1 + r1
    BY <1>1, DivMod
<1>3. r2 \in 0 .. w - 1 /\ q2 \in Int /\ u + b = w * q2 + r2
    BY DivMod
<1> HIDE DEF r, q, r1, q1, r2, q2
<1>4. w * q \in Int /\ w * q1 \in Int /\ w * q2 \in Int
    BY <1>1, <1>2, <1>3
<1>5. r1 - r2 = w * q2 - w * q1 - w * q
    BY <1>1, <1>2, <1>3, <1>4
<1>6. w * q2 - w * q1 - w * q = w * (q2 - q1 - q)
    BY <1>1, <1>2, <1>3
<1>7. /\ r1 - r2 < w /\ -(r1 - r2) < w
      /\ r1 - r2 \in Int /\ q2 - q1 - q \in Int
    BY <1>1, <1>2, <1>3
<1>8. q2 - q1 - q = 0
    BY <1>5, <1>6, <1>7, SmallMultiple
<1>9. r1 - r2 = 0
    BY <1>5, <1>6, <1>8
<1> QED
    BY <1>2, <1>3, <1>9 DEF r, r1, r2

(* grid_shift, as long as the window is narrower than the world: a tile    *)
(* that stays in the window is carried, by the one slot that shows it.     *)
LEMMA ShiftCarries ==
    ASSUME GRID_N < WORLD, NEW B, NEW g \in Grid(B),
           \A s \in Slots : g.slots[s].id = TileAt(g.origin, s[1], s[2]),
           NEW dx \in -1 .. 1, NEW dy \in -1 .. 1,
           NEW s \in Slots, NEW t \in Slots,
           ShiftedGrid(g, dx, dy).slots[t].id = g.slots[s].id
    PROVE  ShiftedGrid(g, dx, dy).slots[t] = g.slots[s]
<1> DEFINE x == g.origin.x
           y == g.origin.y
           origin == TileAt(g.origin, dy, dx)
<1>1. /\ x \in Int /\ y \in Int /\ dx \in Int /\ dy \in Int
      /\ s = <<s[1], s[2]>> /\ t = <<t[1], t[2]>>
      /\ s[2] \in 0 .. GRID_N - 1 /\ t[2] \in 0 .. GRID_N - 1
      /\ s[1] \in Int /\ t[1] \in Int
      /\ WORLD \in Nat \ {0} /\ GRID_N \in Nat
    BY GridAssumption DEF Grid, TileId, Slots
<1>2. origin.x = (x + dx) % WORLD /\ origin.y = y + dy
    BY DEF TileAt
<1>3. TileAt(origin, t[1], t[2]) = TileAt(g.origin, s[1], s[2])
    <2>1. ShiftedGrid(g, dx, dy).origin = origin
        BY DEF ShiftedGrid
    <2> QED
        BY <1>1, <2>1, ShiftedIds
<1>4. /\ (origin.x + t[2]) % WORLD = (x + s[2]) % WORLD
      /\ origin.y + t[1] = y + s[1]
    BY <1>3 DEF TileAt
<1>5. t[1] + dy = s[1]
    BY <1>1, <1>2, <1>4
<1>6. t[2] + dx = s[2]
    <2>1. (x + dx + t[2]) % WORLD = (x + s[2]) % WORLD
        <3>1. x + dx \in Int /\ t[2] \in Int
            BY <1>1
        <3>2. (((x + dx) % WORLD) + t[2]) % WORLD = (x + dx + t[2]) % WORLD
            BY <1>1, <3>1, ModShift
        <3> QED
            BY <1>2, <1>4, <3>2
    <2>2. /\ x + dx + t[2] \in Int /\ x + s[2] \in Int
          /\ (x + dx + t[2]) - (x + s[2]) < WORLD
          /\ (x + s[2]) - (x + dx + t[2]) < WORLD
        BY <1>1
    <2>3. x + dx + t[2] = x + s[2]
        BY <1>1, <2>1, <2>2, ModNear
    <2> QED
        BY <1>1, <2>3
<1>7. Source(t, dx, dy) = s
    BY <1>1, <1>5, <1>6 DEF Source
<1>8. t \in Carried(g, dx, dy)
    BY <1>3, <1>7 DEF Carried
<1> QED
    BY <1>7, <1>8 DEF ShiftedGrid

-----------------------------------------------------------------------------
(***************************************************************************)
(* The pipeline                                                            *)
(***************************************************************************)
(* The UI task has a job in hand while it sends, and the retry timer is    *)
(* armed only for an overview that has a name.                             *)
Sendable   == ui.pc \in {"sending", "draining"} => ui.jobs # <<>>
RetryNamed == coarse.retry => coarse.want \in TileId

TypeInv == TypeOK /\ Sendable /\ RetryNamed

-----------------------------------------------------------------------------
(* The values the actions assign. *)

LEMMA BufferFacts ==
    /\ Slots \subseteq Buffers /\ SpareName \in Buffers
    /\ <<0, 0>> \in Slots
    /\ Slots \subseteq JobSlots
    /\ OVERVIEW_SLOT \in JobSlots /\ PLACE_SLOT \in JobSlots
BY GridAssumption DEF Slots, Buffers, JobSlots

LEMMA ContentFacts ==
    /\ Blank \in Content /\ Writing \in Content /\ Mixed \in Content
    /\ \A id \in TileId, p \in BOOLEAN :
        /\ Painted("map", id, p) \in Content
        /\ Painted("overview", id, p) \in Content
BY DEF Blank, Writing, Mixed, Painted, Content

LEMMA NoIdType == NoId \in TileId
BY DEF NoId, TileId

LEMMA IdleTypes ==
    /\ UiIdle \in [pc : UiStates, op : UiOps \cup {"none", "wake"},
                   jobs : Seq(Job), slot : Slots, was : TileStates,
                   buffer : Buffers]
    /\ UiIdle.pc = "idle"
    /\ WkIdle \in [pc : WkStates, job : QueuedJob,
                   result : {"READY", "NODATA", "ERROR"}]
<1>1. <<>> \in Seq(Job)
    BY EmptySeq
<1>2. NoJob \in QueuedJob
    BY BufferFacts, NoIdType DEF NoJob, QueuedJob
<1> QED
    BY <1>1, <1>2, BufferFacts
    DEF UiIdle, WkIdle, UiStates, WkStates, TileStates

LEMMA CoarseOfType ==
    ASSUME NEW origin \in TileId
    PROVE  CoarseOf(origin) \in TileId
<1>1. GRID_N \div 2 \in Int
    BY GridAssumption
<1>2. \A n \in Int : n \div COARSE_SPAN \in Int
    BY EngineAssumption
<1>3. origin.x + GRID_N \div 2 \in Int /\ origin.y + GRID_N \div 2 \in Int
    BY <1>1 DEF TileId
<1> QED
    BY <1>2, <1>3 DEF CoarseOf, TileId

LEMMA OverviewJobType ==
    ASSUME NEW id \in TileId
    PROVE  OverviewJob(id) \in QueuedJob
BY BufferFacts DEF OverviewJob, QueuedJob

LEMMA JobIsQueued == Job \subseteq QueuedJob
BY BufferFacts DEF Job, QueuedJob

LEMMA RingInt == \A s \in Slots : Ring(s) \in Int
<1>1. GRID_N \div 2 \in Int
    BY GridAssumption
<1> QED
    BY <1>1, SlotCoordinates DEF Ring

LEMMA WakeOrderTotal == TotalOn(Slots, WakeOrder)
<1>1. \A a \in Slots : ~EarlierIndex(a, a)
    BY RowMajorTotal DEF TotalOn, RowMajor
<1>2. \A a, b \in Slots : a # b => EarlierIndex(a, b) \/ EarlierIndex(b, a)
    BY RowMajorTotal DEF TotalOn, RowMajor
<1>3. \A a, b, c \in Slots :
        EarlierIndex(a, b) /\ EarlierIndex(b, c) => EarlierIndex(a, c)
    BY RowMajorTotal DEF TotalOn, RowMajor
<1>4. \A a, b \in Slots : <<a, b>> \in WakeOrder <=> WakesEarlier(a, b)
    BY DEF WakeOrder
<1>5. \A a \in Slots : ~WakesEarlier(a, a)
    BY <1>1, RingInt DEF WakesEarlier
<1>6. \A a, b \in Slots : a # b => WakesEarlier(a, b) \/ WakesEarlier(b, a)
    BY <1>2, RingInt DEF WakesEarlier
<1>7. \A a, b, c \in Slots :
        WakesEarlier(a, b) /\ WakesEarlier(b, c) => WakesEarlier(a, c)
    BY <1>3, RingInt DEF WakesEarlier
<1> QED
    BY <1>4, <1>5, <1>6, <1>7 DEF TotalOn

(* A sorted set of slots is a sequence of its members. *)
LEMMA SortedType ==
    ASSUME NEW order, TotalOn(Slots, order), NEW S \in SUBSET Slots
    PROVE  /\ Cardinality(S) \in Nat
           /\ DOMAIN Sorted(S, order) = 1 .. Cardinality(S)
           /\ \A k \in 1 .. Cardinality(S) : Sorted(S, order)[k] \in S
<1>1. IsFiniteSet(S) /\ TotalOn(S, order)
    BY SlotsFinite, FS_Subset, TotalOnSubset
<1>2. Cardinality(S) \in Nat
    BY <1>1, FS_CardinalityType
<1>3. ASSUME NEW k \in 1 .. Cardinality(S)
      PROVE  Sorted(S, order)[k] \in S
    <2>1. k - 1 \in 0 .. Cardinality(S) - 1
        BY <1>2
    <2> QED
        BY <1>1, <2>1, NthExists DEF Sorted
<1> QED
    BY <1>2, <1>3 DEF Sorted

(* The first slot of a set that has one. *)
LEMMA FirstSlot ==
    ASSUME NEW S \in SUBSET Slots, S # {}
    PROVE  Nth(S, RowMajor, 0) \in S
<1>1. IsFiniteSet(S) /\ TotalOn(S, RowMajor)
    BY SlotsFinite, FS_Subset, RowMajorTotal, TotalOnSubset
<1>2. Cardinality(S) \in Nat /\ Cardinality(S) # 0
    BY <1>1, FS_CardinalityType, FS_EmptySet
<1>3. 0 \in 0 .. Cardinality(S) - 1
    BY <1>2
<1> QED
    BY <1>1, <1>3, NthExists

(* Sending to the queue keeps it a bounded queue of jobs. *)
LEMMA SendType ==
    ASSUME jobs \in Seq(QueuedJob), Len(jobs) <= QUEUE_LEN,
           NEW job \in QueuedJob,
           SendFront(job) \/ SendBack(job)
    PROVE  jobs' \in Seq(QueuedJob) /\ Len(jobs') <= QUEUE_LEN
<1>1. Len(jobs) \in Nat /\ QUEUE_LEN \in Nat
    BY LenProperties, EngineAssumption
<1>2. /\ <<job>> \o jobs \in Seq(QueuedJob)
      /\ Len(<<job>> \o jobs) = 1 + Len(jobs)
    <2>1. <<job>> \in Seq(QueuedJob) /\ Len(<<job>>) = 1
        OBVIOUS
    <2> QED
        BY <2>1, ConcatProperties
<1>3. /\ Append(jobs, job) \in Seq(QueuedJob)
      /\ Len(Append(jobs, job)) = Len(jobs) + 1
    BY AppendProperties
<1>4. \/ jobs' = jobs
      \/ Len(jobs) < QUEUE_LEN /\ jobs' = <<job>> \o jobs
      \/ Len(jobs) < QUEUE_LEN /\ jobs' = Append(jobs, job)
    BY DEF SendFront, SendBack, Room
<1>5. CASE jobs' = jobs
    BY <1>5
<1>6. CASE Len(jobs) < QUEUE_LEN /\ jobs' = <<job>> \o jobs
    BY <1>1, <1>2, <1>6
<1>7. CASE Len(jobs) < QUEUE_LEN /\ jobs' = Append(jobs, job)
    BY <1>1, <1>3, <1>7
<1> QED
    BY <1>4, <1>5, <1>6, <1>7

-----------------------------------------------------------------------------
(* Type correctness. *)

LEMMA TypeInit == Init => TypeInv
<1> SUFFICES ASSUME Init PROVE TypeInv
    OBVIOUS
<1> USE DEF Init
<1>1. grid \in Grid(Buffers)
    <2>1. [s \in Slots |-> s] \in [Slots -> Buffers]
        BY BufferFacts
    <2> QED
        BY <2>1, NoIdType, GridInitType
<1>2. jobs \in Seq(QueuedJob) /\ Len(jobs) <= QUEUE_LEN
    BY EmptySeq, EngineAssumption
<1>3. /\ spare \in Buffers /\ wLabels \in Buffers
      /\ labels \in [Slots -> Buffers]
      /\ pixels \in [Buffers -> Content]
      /\ names \in [Buffers -> TileId \cup {NoTile}]
      /\ overview \in Content
    BY BufferFacts, ContentFacts
<1>4. /\ coarse \in [ok : BOOLEAN, id : TileId \cup {NoTile},
                     want : TileId \cup {NoTile}, retry : BOOLEAN]
      /\ visible \in BOOLEAN /\ dark \in BOOLEAN /\ centred \in BOOLEAN
      /\ wakes \in Nat
    OBVIOUS
<1> QED
    BY <1>1, <1>2, <1>3, <1>4, IdleTypes
    DEF TypeInv, TypeOK, Sendable, RetryNamed

LEMMA TypeRelayout ==
    ASSUME TypeInv,
           \/ \E origin \in Origins : Recentre(origin)
           \/ \E d \in Shifts : Shift(d[1], d[2])
           \/ Restyle \/ RestyleGrid \/ InvalidateCoarse
    PROVE  TypeInv'
<1> USE DEF TypeInv, TypeOK, Sendable, RetryNamed
<1>1. ASSUME NEW origin \in Origins, Recentre(origin)
      PROVE  TypeInv'
    <2>1. /\ RezonedGrid(grid, origin) \in Grid(Buffers)
          /\ RezoneJobs(grid, origin) \in Seq(Job)
        BY EngineAssumption, RezonedGridType, RezoneJobsType
    <2> QED
        BY <1>1, <2>1, IdleTypes
        DEF Recentre, Relayout, UiStates, UiOps, labelVars, overVars, modeVars
<1>2. ASSUME NEW d \in Shifts, Shift(d[1], d[2])
      PROVE  TypeInv'
    <2>1. d[1] \in Int /\ d[2] \in Int
        BY EngineAssumption
    <2>2. /\ ShiftedGrid(grid, d[1], d[2]) \in Grid(Buffers)
          /\ ShiftJobs(grid, d[1], d[2]) \in Seq(Job)
        BY <2>1, ShiftedGridType, ShiftJobsType
    <2> QED
        BY <1>2, <2>2, IdleTypes
        DEF Shift, Relayout, UiStates, UiOps, labelVars, overVars, modeVars
<1>3. ASSUME Restyle
      PROVE  TypeInv'
    BY <1>3, IdleTypes, ContentFacts
    DEF Restyle, UiStates, UiOps, labelVars
<1>4. ASSUME RestyleGrid
      PROVE  TypeInv'
    <2>1. grid.origin \in TileId
        BY DEF Grid
    <2>2. /\ RezonedGrid(grid, grid.origin) \in Grid(Buffers)
          /\ RezoneJobs(grid, grid.origin) \in Seq(Job)
        BY <2>1, RezonedGridType, RezoneJobsType
    <2> QED
        BY <1>4, <2>2, IdleTypes
        DEF RestyleGrid, Relayout, UiStates, UiOps, labelVars, overVars,
            modeVars
<1>5. ASSUME InvalidateCoarse
      PROVE  TypeInv'
    BY <1>5, IdleTypes
    DEF InvalidateCoarse, UiStates, gridVars, labelVars, modeVars
<1> QED
    BY <1>1, <1>2, <1>3, <1>4, <1>5

LEMMA GoOnType ==
    ASSUME TypeInv, NEW rest \in Seq(Job), GoOn(rest)
    PROVE  /\ ui' \in [pc : UiStates, op : UiOps \cup {"none", "wake"},
                       jobs : Seq(Job), slot : Slots, was : TileStates,
                       buffer : Buffers]
           /\ Sendable'
           /\ centred' \in BOOLEAN
<1> USE DEF TypeInv, TypeOK
<1>1. CASE rest = <<>>
    BY <1>1, IdleTypes DEF GoOn, Finish, Sendable
<1>2. CASE rest # <<>>
    BY <1>2 DEF GoOn, Sendable, UiStates
<1> QED
    BY <1>1, <1>2

LEMMA TypeScreen ==
    ASSUME TypeInv, ScreenOff \/ ScreenOn \/ RequeueUndrawn
    PROVE  TypeInv'
<1> USE DEF TypeInv, TypeOK, Sendable, RetryNamed
<1>1. ASSUME ScreenOff
      PROVE  TypeInv'
    BY <1>1 DEF ScreenOff, gridVars, labelVars, overVars
<1>2. ASSUME ScreenOn
      PROVE  TypeInv'
    <2>1. /\ ui' \in [pc : UiStates, op : UiOps \cup {"none", "wake"},
                      jobs : Seq(Job), slot : Slots, was : TileStates,
                      buffer : Buffers]
          /\ ui'.pc = "waking"
        BY <1>2, IdleTypes DEF ScreenOn, UiStates
    <2>2. visible' \in BOOLEAN /\ wakes' \in Nat
        BY <1>2 DEF ScreenOn
    <2>3. UNCHANGED <<gridVars, jobs, labelVars, overVars, dark, centred, wk>>
        BY <1>2 DEF ScreenOn
    <2> QED
        BY <2>1, <2>2, <2>3 DEF gridVars, labelVars, overVars
<1>3. ASSUME RequeueUndrawn
      PROVE  TypeInv'
    <2> DEFINE undrawn == {s \in Slots : ~Drawable(grid.slots[s].state)}
               order == Sorted(undrawn, WakeOrder)
               JobOf(s) == [id |-> grid.slots[s].id, slot |-> s,
                            generation |-> grid.slots[s].generation]
               again == [k \in DOMAIN order |-> JobOf(order[k])]
    <2>1. \A s \in Slots : JobOf(s) \in Job
        BY DEF Job, Grid, Slot
    <2>2. /\ Cardinality(undrawn) \in Nat
          /\ DOMAIN order = 1 .. Cardinality(undrawn)
          /\ \A k \in DOMAIN order : order[k] \in Slots
        BY WakeOrderTotal, SortedType
    <2>3. again \in [1 .. Cardinality(undrawn) -> Job]
        BY <2>1, <2>2
    <2>4. \/ ui' = UiIdle
          \/ ui' = [ui EXCEPT !.pc = "overview", !.jobs = again]
        BY <1>3 DEF RequeueUndrawn
    <2>5. UNCHANGED <<gridVars, jobs, labelVars, overVars, modeVars, wk>>
        BY <1>3 DEF RequeueUndrawn
    <2> DEFINE count == Cardinality(undrawn)
    <2>6. count \in Nat /\ again \in [1 .. count -> Job]
        BY <2>2, <2>3
    <2> HIDE DEF again, count
    <2>7. again \in Seq(Job)
        BY <2>6, SeqDef
    <2> QED
        BY <2>4, <2>5, <2>7, IdleTypes
        DEF UiStates, gridVars, labelVars, overVars, modeVars
<1> QED
    BY <1>1, <1>2, <1>3

LEMMA TypeSend ==
    ASSUME TypeInv,
           EnsureCoarse \/ Enqueue \/ DrainAndRetry \/ RequestPlaces
             \/ RetryOverview
    PROVE  TypeInv'
<1> USE DEF TypeInv, TypeOK, RetryNamed
<1>1. ASSUME EnsureCoarse
      PROVE  TypeInv'
    <2> DEFINE want == CoarseOf(grid.origin)
    <2>1. want \in TileId /\ OverviewJob(want) \in QueuedJob
        BY CoarseOfType, OverviewJobType DEF Grid
    <2>2. \/ UNCHANGED <<jobs, coarse>>
          \/ /\ coarse' = [coarse EXCEPT !.want = want, !.retry = FALSE]
             /\ SendFront(OverviewJob(want)) \/ SendBack(OverviewJob(want))
        BY <1>1 DEF EnsureCoarse
    <2> HIDE DEF want
    <2>3. jobs' \in Seq(QueuedJob) /\ Len(jobs') <= QUEUE_LEN
        BY <2>1, <2>2, SendType
    <2>4. /\ coarse' \in [ok : BOOLEAN, id : TileId \cup {NoTile},
                          want : TileId \cup {NoTile}, retry : BOOLEAN]
          /\ RetryNamed'
        BY <2>1, <2>2
    <2>5. GoOn(ui.jobs) /\ ui.jobs \in Seq(Job)
        BY <1>1 DEF EnsureCoarse
    <2>6. UNCHANGED <<gridVars, labelVars, overview, visible, dark, wakes, wk>>
        BY <1>1 DEF EnsureCoarse
    <2> QED
        BY <2>3, <2>4, <2>5, <2>6, GoOnType DEF gridVars, labelVars
<1>2. ASSUME Enqueue
      PROVE  TypeInv'
    <2>1. UNCHANGED <<gridVars, labelVars, overVars, visible, dark, wakes, wk>>
        BY <1>2 DEF Enqueue
    <2>2. /\ Head(ui.jobs) \in QueuedJob /\ Tail(ui.jobs) \in Seq(Job)
        BY <1>2, HeadTailProperties, JobIsQueued DEF Enqueue, Sendable
    <2>3. CASE Room
        <3>1. SendBack(Head(ui.jobs)) /\ GoOn(Tail(ui.jobs))
            BY <1>2, <2>3 DEF Enqueue, SendBack
        <3>2. jobs' \in Seq(QueuedJob) /\ Len(jobs') <= QUEUE_LEN
            BY <2>2, <3>1, SendType
        <3> QED
            BY <2>1, <2>2, <3>1, <3>2, GoOnType
            DEF gridVars, labelVars, overVars
    <2>4. CASE ~Room
        BY <1>2, <2>1, <2>4
        DEF Enqueue, Sendable, UiStates, gridVars, labelVars, overVars
    <2> QED
        BY <2>3, <2>4
<1>3. ASSUME DrainAndRetry
      PROVE  TypeInv'
    <2>1. UNCHANGED <<gridVars, labelVars, overVars, visible, dark, wakes, wk>>
        BY <1>3 DEF DrainAndRetry
    <2>2. /\ Head(ui.jobs) \in QueuedJob /\ Tail(ui.jobs) \in Seq(Job)
        BY <1>3, HeadTailProperties, JobIsQueued DEF DrainAndRetry, Sendable
    <2>3. jobs' \in Seq(QueuedJob) /\ Len(jobs') <= QUEUE_LEN
        <3>1. CASE jobs = <<>>
            BY <1>3, <3>1 DEF DrainAndRetry
        <3>2. CASE jobs # <<>>
            <4>1. /\ Tail(jobs) \in Seq(QueuedJob)
                  /\ Len(Tail(jobs)) = Len(jobs) - 1
                BY <3>2, HeadTailProperties
            <4>2. jobs' = Append(Tail(jobs), Head(ui.jobs))
                BY <1>3, <3>2 DEF DrainAndRetry
            <4>3. /\ jobs' \in Seq(QueuedJob)
                  /\ Len(jobs') = Len(Tail(jobs)) + 1
                BY <2>2, <4>1, <4>2, AppendProperties
            <4>4. Len(jobs) \in Nat
                BY LenProperties
            <4> QED
                BY <4>1, <4>3, <4>4
        <3> QED
            BY <3>1, <3>2
    <2>4. GoOn(Tail(ui.jobs))
        BY <1>3 DEF DrainAndRetry
    <2> QED
        BY <2>1, <2>2, <2>3, <2>4, GoOnType DEF gridVars, labelVars, overVars
<1>4. ASSUME RequestPlaces
      PROVE  TypeInv'
    <2> DEFINE job == [id |-> NoId, slot |-> PLACE_SLOT, generation |-> 0]
    <2>1. job \in QueuedJob
        BY BufferFacts, NoIdType DEF QueuedJob
    <2>2. SendBack(job)
        BY <1>4 DEF RequestPlaces
    <2>3. jobs' \in Seq(QueuedJob) /\ Len(jobs') <= QUEUE_LEN
        BY <2>1, <2>2, SendType
    <2>4. UNCHANGED <<gridVars, labelVars, overVars, modeVars, ui, wk>>
        BY <1>4 DEF RequestPlaces
    <2> QED
        BY <2>3, <2>4 DEF Sendable, gridVars, labelVars, overVars, modeVars
<1>5. ASSUME RetryOverview
      PROVE  TypeInv'
    <2>1. coarse.want \in TileId
        BY <1>5 DEF RetryOverview
    <2>2. OverviewJob(coarse.want) \in QueuedJob
        BY <2>1, OverviewJobType
    <2>3. SendFront(OverviewJob(coarse.want))
        BY <1>5 DEF RetryOverview
    <2>4. jobs' \in Seq(QueuedJob) /\ Len(jobs') <= QUEUE_LEN
        BY <2>2, <2>3, SendType
    <2> QED
        BY <1>5, <2>4
        DEF RetryOverview, Sendable, gridVars, labelVars, modeVars
<1> QED
    BY <1>1, <1>2, <1>3, <1>4, <1>5

LEMMA TypeFill ==
    ASSUME TypeInv,
           \/ PickUnpainted \/ BeginFill \/ EndFill \/ GiveUpFill
           \/ \E s \in Slots : CheckReady(s)
           \/ BeginLabels \/ EndLabels
    PROVE  TypeInv'
<1> USE DEF TypeInv, TypeOK, Sendable, RetryNamed
<1>1. ASSUME PickUnpainted
      PROVE  TypeInv'
    <2> DEFINE wanting == {s \in Slots : WantsFill(grid.slots[s].state)}
               first == Nth(wanting, RowMajor, 0)
    <2>1. first \in Slots
        <3>1. wanting # {} /\ wanting \in SUBSET Slots
            BY <1>1 DEF PickUnpainted
        <3> QED
            BY <3>1, FirstSlot
    <2>2. ui' = [UiIdle EXCEPT !.pc = "picked", !.op = "fill", !.slot = first,
                               !.was = grid.slots[first].state,
                               !.buffer = grid.slots[first].pixels]
        BY <1>1 DEF PickUnpainted
    <2>3. UNCHANGED <<gridVars, jobs, labelVars, overVars, modeVars, wk>>
        BY <1>1 DEF PickUnpainted
    <2> HIDE DEF first
    <2>4. grid.slots[first].state \in TileStates
            /\ grid.slots[first].pixels \in Buffers
        BY <2>1 DEF Grid, Slot
    <2>5. /\ ui' \in [pc : UiStates, op : UiOps \cup {"none", "wake"},
                      jobs : Seq(Job), slot : Slots, was : TileStates,
                      buffer : Buffers]
          /\ ui'.pc = "picked"
        BY <2>1, <2>2, <2>4, IdleTypes DEF UiStates, UiOps
    <2> QED
        BY <2>3, <2>5 DEF gridVars, labelVars, overVars, modeVars
<1>2. ASSUME BeginFill
      PROVE  TypeInv'
    <2>1. pixels' \in [Buffers -> Content]
        BY <1>2, ContentFacts DEF BeginFill
    <2> QED
        BY <1>2, <2>1
        DEF BeginFill, UiStates, labelVars, overVars, modeVars
<1>3. ASSUME EndFill
      PROVE  TypeInv'
    <2>1. grid.slots[ui.slot].id \in TileId
        BY DEF Grid, Slot
    <2>2. pixels' \in [Buffers -> Content]
        BY <1>3, <2>1, ContentFacts DEF EndFill, Content
    <2>3. grid' \in Grid(Buffers)
        BY <1>3, MarkedType DEF EndFill, TileStates
    <2> QED
        BY <1>3, <2>2, <2>3, IdleTypes
        DEF EndFill, labelVars, overVars, modeVars
<1>4. ASSUME GiveUpFill
      PROVE  TypeInv'
    <2>1. grid' \in Grid(Buffers)
        BY <1>4, MarkedType DEF GiveUpFill, TileStates
    <2> QED
        BY <1>4, <2>1, IdleTypes
        DEF GiveUpFill, labelVars, overVars, modeVars
<1>5. ASSUME NEW s \in Slots, CheckReady(s)
      PROVE  TypeInv'
    BY <1>5, IdleTypes
    DEF CheckReady, UiStates, UiOps, gridVars, labelVars, overVars, modeVars
<1>6. ASSUME BeginLabels \/ EndLabels
      PROVE  TypeInv'
    BY <1>6, IdleTypes
    DEF BeginLabels, EndLabels, UiStates, gridVars, labelVars, overVars,
        modeVars
<1> QED
    BY <1>1, <1>2, <1>3, <1>4, <1>5, <1>6

LEMMA TypeWorkerJob ==
    ASSUME TypeInv, TakeJob \/ TakeOverview \/ EndOverview \/ DropStale
    PROVE  TypeInv'
<1> USE DEF TypeInv, TypeOK, Sendable, RetryNamed
<1>1. ASSUME jobs # <<>>
      PROVE  /\ Head(jobs) \in QueuedJob
             /\ Tail(jobs) \in Seq(QueuedJob)
             /\ Len(Tail(jobs)) <= QUEUE_LEN
    <2>1. /\ Head(jobs) \in QueuedJob /\ Tail(jobs) \in Seq(QueuedJob)
          /\ Len(Tail(jobs)) = Len(jobs) - 1
        BY <1>1, HeadTailProperties
    <2>2. Len(jobs) \in Nat /\ QUEUE_LEN \in Nat
        BY LenProperties, EngineAssumption
    <2> QED
        BY <2>1, <2>2
<1>2. ASSUME TakeJob
      PROVE  TypeInv'
    <2>1. jobs # <<>> /\ jobs' = Tail(jobs)
        BY <1>2 DEF TakeJob
    <2>2. wk' \in [pc : WkStates, job : QueuedJob,
                   result : {"READY", "NODATA", "ERROR"}]
        BY <1>1, <1>2, <2>1, IdleTypes DEF TakeJob, WkStates
    <2> QED
        BY <1>1, <1>2, <2>1, <2>2
        DEF TakeJob, gridVars, labelVars, overVars, modeVars
<1>3. ASSUME TakeOverview
      PROVE  TypeInv'
    <2>1. jobs # <<>> /\ jobs' = Tail(jobs)
        BY <1>3 DEF TakeOverview
    <2>2. wk' \in [pc : WkStates, job : QueuedJob,
                   result : {"READY", "NODATA", "ERROR"}]
        BY <1>1, <1>3, <2>1, EngineAssumption DEF TakeOverview, WkStates
    <2>3. overview' \in Content /\ pixels' \in [Buffers -> Content]
        BY <1>3, ContentFacts DEF TakeOverview
    <2>4. /\ coarse' \in [ok : BOOLEAN, id : TileId \cup {NoTile},
                          want : TileId \cup {NoTile}, retry : BOOLEAN]
          /\ RetryNamed'
        BY <1>3 DEF TakeOverview
    <2> QED
        BY <1>1, <1>3, <2>1, <2>2, <2>3, <2>4
        DEF TakeOverview, labelVars, modeVars
<1>4. ASSUME EndOverview
      PROVE  TypeInv'
    <2>1. wk.job.id \in TileId
        BY DEF QueuedJob
    <2>2. overview' \in Content
        BY <1>4, <2>1, ContentFacts DEF EndOverview
    <2>3. /\ coarse' \in [ok : BOOLEAN, id : TileId \cup {NoTile},
                          want : TileId \cup {NoTile}, retry : BOOLEAN]
          /\ RetryNamed'
        BY <1>4, <2>1 DEF EndOverview
    <2> QED
        BY <1>4, <2>2, <2>3, IdleTypes
        DEF EndOverview, gridVars, labelVars, modeVars
<1>5. ASSUME DropStale
      PROVE  TypeInv'
    BY <1>5, IdleTypes DEF DropStale, gridVars, labelVars, overVars, modeVars
<1> QED
    BY <1>2, <1>3, <1>4, <1>5

LEMMA TypeWorkerTile ==
    ASSUME TypeInv,
           StartFetch \/ EndFetch \/ StartRender \/ CommitRender
             \/ CommitFailure
    PROVE  TypeInv'
<1> USE DEF TypeInv, TypeOK, Sendable, RetryNamed
<1>1. ASSUME StartFetch
      PROVE  TypeInv'
    BY <1>1 DEF StartFetch, WkStates, gridVars, labelVars, overVars, modeVars
<1>2. ASSUME EndFetch
      PROVE  TypeInv'
    <2>1. grid' \in Grid(Buffers)
        BY <1>2, CommitType DEF EndFetch, TileStates
    <2> QED
        BY <1>2, <2>1, IdleTypes DEF EndFetch, labelVars, overVars, modeVars
<1>3. ASSUME StartRender
      PROVE  TypeInv'
    <2>1. PICK result \in Results :
            IF result = "READY"
            THEN /\ wk' = [wk EXCEPT !.pc = "render", !.result = result]
                 /\ pixels' = [pixels EXCEPT ![spare] =
                                    IF Filling(spare) THEN Mixed ELSE Writing]
                 /\ names' = [names EXCEPT ![wLabels] = NoTile]
            ELSE /\ wk' = [wk EXCEPT !.pc = "commit", !.result = result]
                 /\ UNCHANGED <<pixels, names>>
        BY <1>3 DEF StartRender
    <2>2. result \in {"READY", "NODATA", "ERROR"}
        BY EngineAssumption
    <2>3. pixels' \in [Buffers -> Content]
        BY <2>1, ContentFacts
    <2>4. names' \in [Buffers -> TileId \cup {NoTile}]
        BY <2>1
    <2>5. wk' \in [pc : WkStates, job : QueuedJob,
                   result : {"READY", "NODATA", "ERROR"}]
        BY <2>1, <2>2 DEF WkStates
    <2> QED
        BY <1>3, <2>3, <2>4, <2>5 DEF StartRender, overVars, modeVars
<1>4. ASSUME CommitRender
      PROVE  TypeInv'
    <2>1. wk.job.id \in TileId
        BY DEF QueuedJob
    <2>2. /\ grid' \in Grid(Buffers)
          /\ spare' \in Buffers
        BY <1>4, CommitSwapType DEF CommitRender, TileStates
    <2>3. /\ pixels' \in [Buffers -> Content]
          /\ names' \in [Buffers -> TileId \cup {NoTile}]
        BY <1>4, <2>1, ContentFacts DEF CommitRender
    <2>4. labels' \in [Slots -> Buffers] /\ wLabels' \in Buffers
        BY <1>4 DEF CommitRender, Accepts
    <2> QED
        BY <1>4, <2>2, <2>3, <2>4, IdleTypes
        DEF CommitRender, overVars, modeVars
<1>5. ASSUME CommitFailure
      PROVE  TypeInv'
    <2>1. wk.result \in TileStates
        BY DEF TileStates
    <2>2. grid' \in Grid(Buffers)
        BY <1>5, <2>1, CommitType DEF CommitFailure
    <2>3. names' \in [Buffers -> TileId \cup {NoTile}]
        BY <1>5 DEF CommitFailure
    <2> QED
        BY <1>5, <2>2, <2>3, IdleTypes DEF CommitFailure, overVars, modeVars
<1> QED
    BY <1>1, <1>2, <1>3, <1>4, <1>5

LEMMA TypeStep == TypeInv /\ [Next]_vars => TypeInv'
<1> SUFFICES ASSUME TypeInv, [Next]_vars PROVE TypeInv'
    OBVIOUS
<1>1. CASE UiStarts
    BY <1>1, TypeRelayout, TypeScreen, TypeSend, TypeFill DEF UiStarts
<1>2. CASE UiContinues
    BY <1>2, TypeRelayout, TypeScreen, TypeSend, TypeFill DEF UiContinues
<1>3. CASE Worker
    BY <1>3, TypeWorkerJob, TypeWorkerTile DEF Worker
<1>4. CASE UNCHANGED vars
    BY <1>4
    DEF vars, TypeInv, TypeOK, Sendable, RetryNamed, gridVars, labelVars,
        overVars, modeVars
<1> QED
    BY <1>1, <1>2, <1>3, <1>4 DEF Next

(* Whatever the two tasks do, every variable keeps to its values: no job   *)
(* names a slot that is not there, no hand-over loses a buffer, and the    *)
(* queue never exceeds its capacity (mapengine.cpp, worker_task and the    *)
(* operations of the UI task).                                             *)
THEOREM TypeCorrect == Spec => []TypeOK
<1>1. TypeInv => TypeOK
    BY DEF TypeInv
<1> QED
    BY <1>1, TypeInit, TypeStep, PTL DEF Spec

-----------------------------------------------------------------------------
(* Buffers: every step of the pipeline is a step of the pool, or none. *)

PixelProof == INSTANCE BufferPool_proofs
    WITH Holder <- Slots, Buffer <- Buffers, mine <- spare,
         held <- [s \in Slots |-> grid.slots[s].pixels]

NameProof == INSTANCE BufferPool_proofs
    WITH Holder <- Slots, Buffer <- Buffers, mine <- wLabels, held <- labels

Held == [s \in Slots |-> grid.slots[s].pixels]

(* A shift is a rotation: each slot takes the buffer of its giver.         *)
LEMMA ShiftRotates ==
    ASSUME TypeInv, PixelPool!Apart,
           NEW d \in Shifts, Shift(d[1], d[2])
    PROVE  PixelPool!Rotate
<1> DEFINE From(s) == Giver(grid, d[1], d[2], s)
<1>1. d[1] \in Int /\ d[2] \in Int
    BY EngineAssumption
<1>2. grid \in Grid(Buffers)
    BY DEF TypeInv, TypeOK
<1>3. \A s \in Slots : grid'.slots[s].pixels = grid.slots[From(s)].pixels
    <2>1. grid' = ShiftedGrid(grid, d[1], d[2])
        BY DEF Shift, Relayout
    <2> QED
        BY <1>1, <1>2, <2>1, ShiftedPixels
<1>4. \A s \in Slots : From(s) \in Slots
    BY <1>1, GiverInjective
<1>5. \A s, t \in Slots : s # t => From(s) # From(t)
    BY <1>1, GiverInjective
<1>6. \A s, t \in Slots : s # t => grid.slots[s].pixels # grid.slots[t].pixels
    BY DEF PixelPool!Apart
<1> HIDE DEF From
<1>7. spare' = spare
    BY DEF Shift
<1> QED
    BY <1>3, <1>4, <1>5, <1>6, <1>7
    DEF PixelPool!Rotate, PixelPool!HeldBySlots

LEMMA PixelStep ==
    ASSUME TypeInv, PixelPool!Apart, [Next]_vars
    PROVE  [PixelPool!Next]_(PixelPool!vars)
<1> SUFFICES ASSUME ~(Held' = Held /\ spare' = spare)
             PROVE  PixelPool!Next
    BY DEF PixelPool!vars, Held
<1>1. grid \in Grid(Buffers) /\ ui.slot \in Slots
    BY DEF TypeInv, TypeOK
<1>2. CASE UNCHANGED <<grid, spare>>
    BY <1>2 DEF Held
<1>3. CASE \E origin \in TileId : grid' = RezonedGrid(grid, origin)
                                    /\ spare' = spare
    BY <1>3 DEF Held, RezonedGrid
<1>4. ASSUME NEW d \in Shifts, Shift(d[1], d[2])
      PROVE  PixelPool!Next
    BY <1>4, ShiftRotates DEF PixelPool!Next
<1>5. CASE EndFill \/ GiveUpFill
    <2>1. /\ \/ grid' = grid
             \/ grid' = [grid EXCEPT !.slots[ui.slot].state = "COARSE"]
             \/ grid' = [grid EXCEPT !.slots[ui.slot].state = "EMPTY"]
          /\ spare' = spare
        BY <1>5 DEF EndFill, GiveUpFill
    <2>2. \A s \in Slots : grid'.slots[s].pixels = grid.slots[s].pixels
        BY <1>1, <2>1 DEF Grid, Slot
    <2> QED
        BY <2>1, <2>2 DEF Held
<1>6. CASE EndFetch \/ CommitFailure
    BY <1>1, <1>6, CommitKeeps DEF Held, EndFetch, CommitFailure
<1>7. CASE CommitRender
    <2>1. /\ grid' = CommitSwap(grid, wk.job, "READY", spare)
          /\ spare' = Recycled(grid, wk.job, spare)
        BY <1>7 DEF CommitRender
    <2>2. \A s \in Slots :
            grid'.slots[s].pixels =
                IF Accepts(grid, wk.job) /\ s = wk.job.slot
                THEN spare ELSE grid.slots[s].pixels
        BY <1>1, <2>1, CommitSwapKeeps
    <2>3. CASE Accepts(grid, wk.job)
        <3>1. wk.job.slot \in Slots
            BY <2>3 DEF Accepts
        <3>2. PixelPool!Exchange(wk.job.slot)
            BY <2>1, <2>2, <2>3, <3>1 DEF PixelPool!Exchange, Recycled
        <3>3. \E s \in Slots : PixelPool!Exchange(s)
            BY <3>1, <3>2 DEF PixelPool!Exchange
        <3> QED
            BY <3>3 DEF PixelPool!Next
    <2>4. CASE ~Accepts(grid, wk.job)
        BY <2>1, <2>2, <2>4 DEF Held, Recycled
    <2> QED
        BY <2>3, <2>4
<1>8. CASE UiStarts
    <2>1. ASSUME NEW origin \in Origins, Recentre(origin)
          PROVE  PixelPool!Next
        BY <1>3, <2>1, EngineAssumption DEF Recentre, Relayout
    <2> QED
        BY <1>2, <1>4, <1>8, <2>1
        DEF UiStarts, Restyle, ScreenOff, ScreenOn, RequestPlaces,
            RetryOverview, PickUnpainted, CheckReady, gridVars
<1>9. CASE UiContinues
    <2>1. ASSUME RestyleGrid
          PROVE  PixelPool!Next
        BY <1>1, <1>3, <2>1 DEF RestyleGrid, Relayout, Grid
    <2> QED
        BY <1>2, <1>5, <1>9, <2>1
        DEF UiContinues, InvalidateCoarse, RequeueUndrawn, EnsureCoarse,
            Enqueue, DrainAndRetry, BeginFill, BeginLabels, EndLabels,
            gridVars
<1>10. CASE Worker
    BY <1>2, <1>6, <1>7, <1>10
    DEF Worker, TakeJob, TakeOverview, EndOverview, DropStale, StartFetch,
        StartRender, gridVars
<1>11. CASE UNCHANGED vars
    BY <1>2, <1>11 DEF vars, gridVars
<1> QED
    BY <1>8, <1>9, <1>10, <1>11 DEF Next

LEMMA NameStep ==
    ASSUME TypeInv, [Next]_vars
    PROVE  [NamePool!Next]_(NamePool!vars)
<1>1. CASE UNCHANGED <<labels, wLabels>>
    BY <1>1 DEF NamePool!vars
<1>2. CASE CommitRender
    <2>1. CASE Accepts(grid, wk.job)
        BY <1>2, <2>1
        DEF CommitRender, Accepts, NamePool!Next, NamePool!Exchange
    <2>2. CASE ~Accepts(grid, wk.job)
        BY <1>1, <1>2, <2>2 DEF CommitRender
    <2> QED
        BY <2>1, <2>2
<1>3. CASE UiStarts
    BY <1>1, <1>3
    DEF UiStarts, Recentre, Shift, Restyle, ScreenOff, ScreenOn,
        RequestPlaces, RetryOverview, PickUnpainted, CheckReady, labelVars
<1>4. CASE UiContinues
    BY <1>1, <1>4
    DEF UiContinues, RestyleGrid, InvalidateCoarse, RequeueUndrawn,
        EnsureCoarse, Enqueue, DrainAndRetry, BeginFill, EndFill, GiveUpFill,
        BeginLabels, EndLabels, labelVars
<1>5. CASE Worker
    BY <1>1, <1>2, <1>5
    DEF Worker, TakeJob, TakeOverview, EndOverview, DropStale, StartFetch,
        EndFetch, StartRender, CommitFailure, labelVars
<1>6. CASE UNCHANGED vars
    BY <1>1, <1>6 DEF vars, labelVars
<1> QED
    BY <1>3, <1>4, <1>5, <1>6 DEF Next

LEMMA PoolsInit ==
    Init => PixelPool!Init /\ NamePool!Init
BY BufferFacts, GridAssumption
DEF Init, GridInit, PixelPool!Init, PixelPool!Apart, PixelPool!HeldBySlots,
    NamePool!Init, NamePool!Apart, NamePool!HeldBySlots, SpareName, Slots

(* The strengthening: both pools are well formed, so that a shift, which   *)
(* rotates the buffers the slots have, is known to rotate distinct ones.   *)
OwnershipInv == TypeInv /\ BufferOwnership

LEMMA OwnershipStep == OwnershipInv /\ [Next]_vars => OwnershipInv'
<1> SUFFICES ASSUME OwnershipInv, [Next]_vars PROVE OwnershipInv'
    OBVIOUS
<1>1. TypeInv /\ PixelPool!Apart /\ NamePool!Apart
    BY DEF OwnershipInv, BufferOwnership
<1>2. TypeInv'
    BY <1>1, TypeStep
<1>3. PixelPool!Apart'
    <2>1. PixelProof!PoolInv
        BY <1>1
        DEF TypeInv, TypeOK, Grid, Slot, PixelProof!PoolInv,
            PixelProof!Typed, PixelProof!Apart, PixelProof!HeldBySlots,
            PixelPool!Apart, PixelPool!HeldBySlots
    <2>2. [PixelProof!Next]_(PixelProof!vars)
        BY <1>1, PixelStep
        DEF PixelProof!Next, PixelProof!Rotate, PixelProof!Exchange,
            PixelProof!HeldBySlots, PixelProof!vars, PixelPool!Next,
            PixelPool!Rotate, PixelPool!Exchange, PixelPool!HeldBySlots,
            PixelPool!vars
    <2>3. PixelProof!PoolInv'
        BY <2>1, <2>2, PixelProof!PoolStep
    <2> QED
        BY <2>3
        DEF PixelProof!PoolInv, PixelProof!Apart, PixelProof!HeldBySlots,
            PixelPool!Apart, PixelPool!HeldBySlots
<1>4. NamePool!Apart'
    <2>1. NameProof!PoolInv
        BY <1>1
        DEF TypeInv, TypeOK, NameProof!PoolInv, NameProof!Typed,
            NameProof!Apart, NameProof!HeldBySlots, NamePool!Apart,
            NamePool!HeldBySlots
    <2>2. [NameProof!Next]_(NameProof!vars)
        BY <1>1, NameStep
        DEF NameProof!Next, NameProof!Rotate, NameProof!Exchange,
            NameProof!HeldBySlots, NameProof!vars, NamePool!Next,
            NamePool!Rotate, NamePool!Exchange, NamePool!HeldBySlots,
            NamePool!vars
    <2>3. NameProof!PoolInv'
        BY <2>1, <2>2, NameProof!PoolStep
    <2> QED
        BY <2>3
        DEF NameProof!PoolInv, NameProof!Apart, NameProof!HeldBySlots,
            NamePool!Apart, NamePool!HeldBySlots
<1> QED
    BY <1>2, <1>3, <1>4 DEF OwnershipInv, BufferOwnership

LEMMA OwnershipInit == Init => OwnershipInv
BY TypeInit, PoolsInit
DEF OwnershipInv, BufferOwnership, PixelPool!Init, NamePool!Init

(* tile_grid.h, invariant 1, with the spare of mapengine.cpp: no pixel     *)
(* buffer and no label set ever has two holders, for any window size and   *)
(* any order of shifts, re-requests, fills and commits.                    *)
THEOREM BuffersOwned == Spec => []BufferOwnership
<1>1. OwnershipInv => BufferOwnership
    BY DEF OwnershipInv
<1> QED
    BY <1>1, OwnershipInit, OwnershipStep, PTL DEF Spec

(* grid_shift and grid_commit_swap hand pixel buffers over as BufferPool   *)
(* promises: only rotations among the slots and exchanges with the worker. *)
THEOREM PixelsImplementPool == Spec => PixelsHandedOver
<1>1. OwnershipInv /\ [Next]_vars => [PixelPool!Next]_(PixelPool!vars)
    BY PixelStep DEF OwnershipInv, BufferOwnership
<1>2. Init => PixelPool!Init
    BY PoolsInit
<1> QED
    BY <1>1, <1>2, OwnershipInit, OwnershipStep, PTL
    DEF Spec, PixelsHandedOver, PixelPool!Spec

(* The worker's label exchange after a commit does so for label sets.      *)
THEOREM NamesImplementPool == Spec => NamesHandedOver
<1>1. OwnershipInv /\ [Next]_vars => [NamePool!Next]_(NamePool!vars)
    BY NameStep DEF OwnershipInv
<1>2. Init => NamePool!Init
    BY PoolsInit
<1> QED
    BY <1>1, <1>2, OwnershipInit, OwnershipStep, PTL
    DEF Spec, NamesHandedOver, NamePool!Spec

-----------------------------------------------------------------------------
(* Tiles: the slots follow the window. *)

LEMMA IdsStep == TypeInv /\ IdsFollowOrigin /\ [Next]_vars => IdsFollowOrigin'
<1> SUFFICES ASSUME TypeInv, IdsFollowOrigin, [Next]_vars
             PROVE  IdsFollowOrigin'
    OBVIOUS
<1>1. grid \in Grid(Buffers) /\ ui.slot \in Slots
    BY DEF TypeInv, TypeOK
<1>2. CASE UNCHANGED grid
    BY <1>2 DEF IdsFollowOrigin
<1>3. CASE \E origin \in TileId : grid' = RezonedGrid(grid, origin)
    BY <1>3 DEF IdsFollowOrigin, RezonedGrid
<1>4. ASSUME NEW d \in Shifts, Shift(d[1], d[2])
      PROVE  IdsFollowOrigin'
    <2>1. d[1] \in Int /\ d[2] \in Int
        BY EngineAssumption
    <2>2. grid' = ShiftedGrid(grid, d[1], d[2])
        BY <1>4 DEF Shift, Relayout
    <2> QED
        BY <1>1, <2>1, <2>2, ShiftedIds DEF IdsFollowOrigin
<1>5. CASE EndFill \/ GiveUpFill
    <2>1. \/ grid' = grid
          \/ grid' = [grid EXCEPT !.slots[ui.slot].state = "COARSE"]
          \/ grid' = [grid EXCEPT !.slots[ui.slot].state = "EMPTY"]
        BY <1>5 DEF EndFill, GiveUpFill
    <2>2. /\ \A s \in Slots : grid'.slots[s].id = grid.slots[s].id
          /\ grid'.origin = grid.origin
        BY <1>1, <2>1 DEF Grid, Slot
    <2> QED
        BY <2>2 DEF IdsFollowOrigin
<1>6. CASE EndFetch \/ CommitFailure
    <2>1. \E result : grid' = Commit(grid, wk.job, result)
        BY <1>6 DEF EndFetch, CommitFailure
    <2> QED
        BY <1>1, <2>1, CommitKeeps DEF IdsFollowOrigin
<1>7. CASE CommitRender
    <2>1. grid' = CommitSwap(grid, wk.job, "READY", spare)
        BY <1>7 DEF CommitRender
    <2> QED
        BY <1>1, <2>1, CommitSwapKeeps DEF IdsFollowOrigin
<1>8. CASE UiStarts
    <2>1. ASSUME NEW origin \in Origins, Recentre(origin)
          PROVE  IdsFollowOrigin'
        BY <1>3, <2>1, EngineAssumption DEF Recentre, Relayout
    <2> QED
        BY <1>2, <1>4, <1>8, <2>1
        DEF UiStarts, Restyle, ScreenOff, ScreenOn, RequestPlaces,
            RetryOverview, PickUnpainted, CheckReady, gridVars
<1>9. CASE UiContinues
    <2>1. ASSUME RestyleGrid
          PROVE  IdsFollowOrigin'
        BY <1>1, <1>3, <2>1 DEF RestyleGrid, Relayout, Grid
    <2> QED
        BY <1>2, <1>5, <1>9, <2>1
        DEF UiContinues, InvalidateCoarse, RequeueUndrawn, EnsureCoarse,
            Enqueue, DrainAndRetry, BeginFill, BeginLabels, EndLabels,
            gridVars
<1>10. CASE Worker
    BY <1>2, <1>6, <1>7, <1>10
    DEF Worker, TakeJob, TakeOverview, EndOverview, DropStale, StartFetch,
        StartRender, gridVars
<1>11. CASE UNCHANGED vars
    BY <1>2, <1>11 DEF vars, gridVars
<1> QED
    BY <1>8, <1>9, <1>10, <1>11 DEF Next

(* tile_grid.h, invariant 2: after any sequence of shifts, re-requests and *)
(* commits, each slot shows the tile its place in the window calls for.    *)
THEOREM SlotsFollowOrigin == Spec => []IdsFollowOrigin
<1>1. Init => IdsFollowOrigin
    BY DEF Init, GridInit, IdsFollowOrigin
<1> QED
    BY <1>1, TypeInit, TypeStep, IdsStep, PTL DEF Spec
=============================================================================
