----------------------- MODULE MapEngine_jobs_proofs ------------------------
(***************************************************************************)
(* What the slots show.  The proofs rest on the jobs: as long as the       *)
(* screen stays on, a slot has at most one job that the worker would still *)
(* commit, and only while the slot waits for its tile.                     *)
(***************************************************************************)
EXTENDS MapEngine_proofs

-----------------------------------------------------------------------------
(* The elements of a queue that was added to or taken from. *)

LEMMA TailElements ==
    ASSUME NEW S, NEW q \in Seq(S), q # <<>>
    PROVE  /\ DOMAIN Tail(q) = 1 .. Len(q) - 1
           /\ \A k \in DOMAIN Tail(q) :
                /\ k + 1 \in DOMAIN q /\ k + 1 # 1
                /\ Tail(q)[k] = q[k + 1]
           /\ 1 \in DOMAIN q /\ Head(q) = q[1]
<1>1. /\ Len(q) \in Nat \ {0} /\ DOMAIN q = 1 .. Len(q)
    BY LenProperties, EmptySeq
<1>2. /\ Tail(q) \in Seq(S) /\ Len(Tail(q)) = Len(q) - 1
      /\ \A k \in 1 .. Len(Tail(q)) : Tail(q)[k] = q[k + 1]
    BY HeadTailProperties
<1>3. DOMAIN Tail(q) = 1 .. Len(Tail(q))
    BY <1>2, LenProperties
<1> QED
    BY <1>1, <1>2, <1>3

LEMMA AppendElements ==
    ASSUME NEW S, NEW q \in Seq(S), NEW e \in S
    PROVE  \A k \in DOMAIN Append(q, e) :
                \/ k \in DOMAIN q /\ Append(q, e)[k] = q[k]
                \/ k \notin DOMAIN q /\ k = Len(q) + 1 /\ Append(q, e)[k] = e
<1>1. /\ Append(q, e) \in Seq(S) /\ Len(Append(q, e)) = Len(q) + 1
      /\ \A k \in 1 .. Len(q) : Append(q, e)[k] = q[k]
      /\ Append(q, e)[Len(q) + 1] = e
    BY AppendProperties
<1>2. /\ Len(q) \in Nat /\ DOMAIN q = 1 .. Len(q)
      /\ DOMAIN Append(q, e) = 1 .. Len(q) + 1
    BY <1>1, LenProperties
<1> QED
    BY <1>1, <1>2

LEMMA PrependElements ==
    ASSUME NEW S, NEW q \in Seq(S), NEW e \in S
    PROVE  \A k \in DOMAIN (<<e>> \o q) :
                \/ k = 1 /\ (<<e>> \o q)[k] = e
                \/ /\ k # 1 /\ k - 1 \in DOMAIN q
                   /\ (<<e>> \o q)[k] = q[k - 1]
<1>1. <<e>> \in Seq(S) /\ Len(<<e>>) = 1 /\ <<e>>[1] = e
    OBVIOUS
<1>2. /\ <<e>> \o q \in Seq(S) /\ Len(<<e>> \o q) = 1 + Len(q)
      /\ \A k \in 1 .. 1 + Len(q) :
            (<<e>> \o q)[k] = IF k <= 1 THEN <<e>>[k] ELSE q[k - 1]
    BY <1>1, ConcatProperties
<1>3. /\ Len(q) \in Nat /\ DOMAIN q = 1 .. Len(q)
      /\ DOMAIN (<<e>> \o q) = 1 .. 1 + Len(q)
    BY <1>2, LenProperties
<1> QED
    BY <1>1, <1>2, <1>3

-----------------------------------------------------------------------------
(* Jobs that the worker will not drop as stale.  While a slot has one, it  *)
(* waits for the tile, or shows a placeholder painted over the wait.       *)
Live(g, job) == job.slot \in Slots /\ job.generation = g.generation

Clash(g, a, b) == Live(g, a) /\ Live(g, b) /\ a.slot = b.slot

Waiting == IF FillPending THEN {"PENDING", "COARSE"} ELSE {"PENDING"}

Owed(g, job) ==
    /\ job.generation <= g.generation
    /\ Live(g, job) => g.slots[job.slot].state \in Waiting

Distinct(g, q) == \A i, k \in DOMAIN q : i # k => ~Clash(g, q[i], q[k])

Disjoint(g, q, r) ==
    \A i \in DOMAIN q, k \in DOMAIN r : ~Clash(g, q[i], r[k])

AllOwed(g, q) == \A k \in DOMAIN q : Owed(g, q[k])

(* The queue, the jobs still to be sent, and the one in the worker's hands.*)
Sound(g, q, r, h) ==
    /\ Distinct(g, q) /\ Distinct(g, r)
    /\ Disjoint(g, q, r) /\ Disjoint(g, q, h) /\ Disjoint(g, r, h)
    /\ AllOwed(g, q) /\ AllOwed(g, r) /\ AllOwed(g, h)

InHand == IF wk.pc = "idle" THEN <<>> ELSE <<wk.job>>

(* A slot is picked for a placeholder while it wants one. *)
PickedInv == ui.pc \in {"picked", "filling", "unfilled"} => WantsFill(ui.was)

JobsInv ==
    /\ Sound(grid, jobs, ui.jobs, InHand)
    /\ PickedInv
    /\ ui.pc # "waking"

(* One job in a sequence of its own. *)
LEMMA Single == \A e : DOMAIN <<e>> = {1} /\ <<e>>[1] = e
OBVIOUS

LEMMA HandEmptied ==
    ASSUME NEW g, NEW q, NEW r, NEW h, Sound(g, q, r, h)
    PROVE  Sound(g, q, r, <<>>) /\ Sound(g, q, <<>>, h)
BY DEF Sound, Distinct, Disjoint, AllOwed

(* worker_task takes the front job, or enqueue drains it. *)
LEMMA SoundTaken ==
    ASSUME NEW g, NEW q \in Seq(QueuedJob), q # <<>>, NEW r, NEW h,
           Sound(g, q, r, h)
    PROVE  /\ Sound(g, Tail(q), r, h)
           /\ Sound(g, Tail(q), r, <<Head(q)>>)
<1>1. /\ \A k \in DOMAIN Tail(q) :
            /\ k + 1 \in DOMAIN q /\ k + 1 # 1
            /\ Tail(q)[k] = q[k + 1]
      /\ \A k \in DOMAIN Tail(q) : k \in Int
      /\ 1 \in DOMAIN q /\ Head(q) = q[1]
    <2>1. Len(q) \in Nat
        BY LenProperties
    <2> QED
        BY <2>1, TailElements
<1>2. /\ Distinct(g, Tail(q)) /\ AllOwed(g, Tail(q))
      /\ Disjoint(g, Tail(q), r) /\ Disjoint(g, Tail(q), h)
    <2>1. \A i, k \in DOMAIN Tail(q) : i # k => i + 1 # k + 1
        BY <1>1
    <2> QED
        BY <1>1, <2>1 DEF Sound, Distinct, Disjoint, AllOwed
<1>3. /\ Disjoint(g, Tail(q), <<Head(q)>>) /\ AllOwed(g, <<Head(q)>>)
    BY <1>1, Single DEF Sound, Distinct, Disjoint, AllOwed
<1>4. Disjoint(g, r, <<Head(q)>>)
    BY <1>1, Single DEF Sound, Disjoint, Clash
<1> QED
    BY <1>2, <1>3, <1>4 DEF Sound

(* enqueue sends the next job of the layout. *)
LEMMA SoundSent ==
    ASSUME NEW g, NEW q \in Seq(QueuedJob), NEW r \in Seq(QueuedJob),
           r # <<>>, NEW h, Sound(g, q, r, h)
    PROVE  /\ Sound(g, Append(q, Head(r)), Tail(r), h)
           /\ Sound(g, q, Tail(r), h)
<1>1. /\ \A k \in DOMAIN Tail(r) :
            /\ k + 1 \in DOMAIN r /\ k + 1 # 1
            /\ Tail(r)[k] = r[k + 1]
      /\ \A k \in DOMAIN Tail(r) : k \in Int
      /\ 1 \in DOMAIN r /\ Head(r) = r[1] /\ Head(r) \in QueuedJob
    <2>1. Len(r) \in Nat
        BY LenProperties
    <2> QED
        BY <2>1, TailElements, HeadTailProperties
<1>2. \A k \in DOMAIN Append(q, Head(r)) :
            \/ k \in DOMAIN q /\ Append(q, Head(r))[k] = q[k]
            \/ k = Len(q) + 1 /\ Append(q, Head(r))[k] = r[1]
    BY <1>1, AppendElements
<1>3. /\ Distinct(g, Tail(r)) /\ AllOwed(g, Tail(r))
      /\ Disjoint(g, q, Tail(r)) /\ Disjoint(g, Tail(r), h)
    <2>1. \A i, k \in DOMAIN Tail(r) : i # k => i + 1 # k + 1
        BY <1>1
    <2> QED
        BY <1>1, <2>1 DEF Sound, Distinct, Disjoint, AllOwed
<1> DEFINE longer == Append(q, Head(r))
<1>4. Distinct(g, longer)
    BY <1>1, <1>2 DEF Sound, Distinct, Disjoint, Clash
<1>5. Disjoint(g, longer, Tail(r))
    BY <1>1, <1>2 DEF Sound, Distinct, Disjoint
<1>6. Disjoint(g, longer, h) /\ AllOwed(g, longer)
    BY <1>1, <1>2 DEF Sound, Disjoint, AllOwed
<1> QED
    BY <1>3, <1>4, <1>5, <1>6 DEF Sound

(* ensure_coarse and ensure_place_blocks send jobs that name no slot. *)
LEMMA SoundBeside ==
    ASSUME NEW g, g.generation \in Nat, NEW q \in Seq(QueuedJob),
           NEW r, NEW h, Sound(g, q, r, h),
           NEW e \in QueuedJob, e.slot \notin Slots, e.generation = 0
    PROVE  /\ Sound(g, Append(q, e), r, h)
           /\ Sound(g, <<e>> \o q, r, h)
<1>1. Owed(g, e) /\ \A f : ~Clash(g, e, f) /\ ~Clash(g, f, e)
    BY DEF Owed, Live, Clash
<1>2. \A k \in DOMAIN Append(q, e) :
            \/ k \in DOMAIN q /\ Append(q, e)[k] = q[k]
            \/ Append(q, e)[k] = e
    BY AppendElements
<1>3. \A k \in DOMAIN (<<e>> \o q) :
            \/ /\ k - 1 \in DOMAIN q
               /\ (<<e>> \o q)[k] = q[k - 1]
            \/ (<<e>> \o q)[k] = e
    BY PrependElements
<1>4. \A i, k \in DOMAIN (<<e>> \o q) : i # k => i - 1 # k - 1
    <2>1. DOMAIN (<<e>> \o q) \subseteq Int
        <3>1. <<e>> \in Seq(QueuedJob)
            OBVIOUS
        <3>2. <<e>> \o q \in Seq(QueuedJob)
            BY <3>1, ConcatProperties
        <3> QED
            BY <3>2, LenProperties
    <2> QED
        BY <2>1
<1>5. Sound(g, Append(q, e), r, h)
    BY <1>1, <1>2 DEF Sound, Distinct, Disjoint, AllOwed
<1>6. Sound(g, <<e>> \o q, r, h)
    BY <1>1, <1>3, <1>4 DEF Sound, Distinct, Disjoint, AllOwed
<1> QED
    BY <1>5, <1>6

(* emit_jobs gives each slot that needs a tile one job of the layout. *)
LEMMA EmittedJobs ==
    ASSUME NEW g, NEW needs \in SUBSET Slots
    PROVE  LET q == EmitJobs(g, needs)
           IN  /\ \A k \in DOMAIN q : /\ q[k].slot \in needs
                                      /\ q[k].generation = g.generation
               /\ \A i, k \in DOMAIN q : i # k => q[i].slot # q[k].slot
<1> DEFINE n == Cardinality(needs)
           At(k) == Nth(needs, CentreFirst, k - 1)
<1>1. IsFiniteSet(needs) /\ TotalOn(needs, CentreFirst) /\ n \in Nat
    BY SlotsFinite, FS_Subset, CentreFirstTotal, TotalOnSubset,
       FS_CardinalityType
<1>2. ASSUME NEW k \in 1 .. n
      PROVE  At(k) \in needs /\ RankIn(needs, CentreFirst, At(k)) = k - 1
    <2>1. k - 1 \in 0 .. n - 1
        BY <1>1
    <2> QED
        BY <1>1, <2>1, NthExists
<1>3. \A i, k \in 1 .. n : i # k => At(i) # At(k)
    <2>1. \A i, k \in 1 .. n : i # k => i - 1 # k - 1
        OBVIOUS
    <2> QED
        BY <1>2, <2>1
<1> DEFINE q == EmitJobs(g, needs)
<1>4. /\ DOMAIN q = 1 .. n
      /\ \A k \in 1 .. n : /\ q[k].slot = At(k)
                            /\ q[k].generation = g.generation
    BY DEF EmitJobs
<1> HIDE DEF q, n, At
<1>5. /\ \A k \in DOMAIN q : /\ q[k].slot \in needs
                             /\ q[k].generation = g.generation
      /\ \A i, k \in DOMAIN q : i # k => q[i].slot # q[k].slot
    BY <1>2, <1>3, <1>4
<1> QED
    BY <1>5 DEF q

(* A new layout turns every earlier job away, and owes its own. *)
LEMMA SoundRelaid ==
    ASSUME NEW g, g.generation \in Nat,
           NEW q \in Seq(QueuedJob), NEW h \in Seq(QueuedJob),
           NEW r, Sound(g, q, r, h),
           NEW new, new.generation = g.generation + 1,
           NEW needs \in SUBSET Slots,
           \A s \in needs : new.slots[s].state = "PENDING"
    PROVE  Sound(new, q, EmitJobs(new, needs), h)
<1> DEFINE e == EmitJobs(new, needs)
<1>1. /\ \A k \in DOMAIN e : /\ e[k].slot \in needs
                             /\ e[k].generation = new.generation
      /\ \A i, k \in DOMAIN e : i # k => e[i].slot # e[k].slot
    BY EmittedJobs
<1> HIDE DEF e
<1>2. Distinct(new, e) /\ AllOwed(new, e)
    BY <1>1 DEF Distinct, Clash, AllOwed, Owed, Waiting
<1>3. ASSUME NEW t \in Seq(QueuedJob), AllOwed(g, t)
      PROVE  \A k \in DOMAIN t :
                t[k].generation <= new.generation /\ ~Live(new, t[k])
    <2>1. \A k \in DOMAIN t : t[k].generation \in Nat
        <3>1. t \in [1 .. Len(t) -> QueuedJob]
            BY LenProperties
        <3> QED
            BY <3>1 DEF QueuedJob
    <2>2. \A k \in DOMAIN t : t[k].generation <= g.generation
        BY <1>3 DEF AllOwed, Owed
    <2> QED
        BY <2>1, <2>2 DEF Live
<1>4. /\ \A k \in DOMAIN q :
            q[k].generation <= new.generation /\ ~Live(new, q[k])
      /\ \A k \in DOMAIN h :
            h[k].generation <= new.generation /\ ~Live(new, h[k])
    BY <1>3 DEF Sound
<1> QED
    BY <1>2, <1>4 DEF Sound, Distinct, Disjoint, Clash, AllOwed, Owed, e

(* States that change without a new layout: a slot that stops waiting has  *)
(* no job left in the queue or to be sent.                                 *)
LEMMA SoundMarked ==
    ASSUME NEW g, NEW q, NEW r, NEW h, Sound(g, q, r, h),
           NEW new, new.generation = g.generation,
           \A s \in Slots :
                \/ new.slots[s].state = g.slots[s].state
                \/ new.slots[s].state \in Waiting
                \/ /\ \A k \in DOMAIN q : Live(g, q[k]) => q[k].slot # s
                   /\ \A k \in DOMAIN r : Live(g, r[k]) => r[k].slot # s
                   /\ \A k \in DOMAIN h : Live(g, h[k]) => h[k].slot # s
    PROVE  Sound(new, q, r, h)
<1>1. \A job : Live(new, job) <=> Live(g, job)
    BY DEF Live
<1>2. AllOwed(new, q) /\ AllOwed(new, r) /\ AllOwed(new, h)
    BY <1>1 DEF Sound, AllOwed, Owed, Live
<1> QED
    BY <1>1, <1>2 DEF Sound, Distinct, Disjoint, Clash

LEMMA SoundRezoned ==
    ASSUME NEW B, NEW g \in Grid(B), NEW origin \in TileId,
           NEW q \in Seq(QueuedJob), NEW h \in Seq(QueuedJob),
           NEW r, Sound(g, q, r, h)
    PROVE  Sound(RezonedGrid(g, origin), q, RezoneJobs(g, origin), h)
<1> DEFINE new == RezonedGrid(g, origin)
           needs == {s \in Slots : OnWorld(new.slots[s].id)}
<1>1. g.generation \in Nat /\ new.generation = g.generation + 1
    BY DEF Grid, RezonedGrid
<1>2. \A s \in needs : new.slots[s].state = "PENDING"
    BY DEF RezonedGrid, FreshState
<1>3. RezoneJobs(g, origin) = EmitJobs(new, needs)
    BY DEF RezoneJobs
<1> HIDE DEF new
<1>4. needs \in SUBSET Slots
    OBVIOUS
<1> HIDE DEF needs
<1>5. Sound(new, q, EmitJobs(new, needs), h)
    BY <1>1, <1>2, <1>4, SoundRelaid
<1> QED
    BY <1>3, <1>5 DEF new

LEMMA SoundShifted ==
    ASSUME NEW B, NEW g \in Grid(B), NEW dx, NEW dy,
           NEW q \in Seq(QueuedJob), NEW h \in Seq(QueuedJob),
           NEW r, Sound(g, q, r, h)
    PROVE  Sound(ShiftedGrid(g, dx, dy), q, ShiftJobs(g, dx, dy), h)
<1> DEFINE new == ShiftedGrid(g, dx, dy)
           needs == {s \in Slots \ Carried(g, dx, dy) :
                            new.slots[s].state # "NODATA"}
<1>1. g.generation \in Nat /\ new.generation = g.generation + 1
    BY DEF Grid, ShiftedGrid
<1>2. \A s \in needs : new.slots[s].state = "PENDING"
    BY DEF ShiftedGrid, FreshState
<1>3. ShiftJobs(g, dx, dy) = EmitJobs(new, needs)
    BY DEF ShiftJobs
<1> HIDE DEF new
<1>4. needs \in SUBSET Slots
    OBVIOUS
<1> HIDE DEF needs
<1>5. Sound(new, q, EmitJobs(new, needs), h)
    BY <1>1, <1>2, <1>4, SoundRelaid
<1> QED
    BY <1>3, <1>5 DEF new

LEMMA QueueTypes ==
    ASSUME TypeInv
    PROVE  /\ jobs \in Seq(QueuedJob) /\ ui.jobs \in Seq(QueuedJob)
           /\ InHand \in Seq(QueuedJob)
           /\ grid \in Grid(Buffers) /\ grid.generation \in Nat
           /\ ui.slot \in Slots
<1>1. ui.jobs \in Seq(QueuedJob)
    BY JobIsQueued, SeqMonotonic DEF TypeInv, TypeOK
<1>2. InHand \in Seq(QueuedJob)
    BY EmptySeq DEF InHand, TypeInv, TypeOK
<1> QED
    BY <1>1, <1>2 DEF TypeInv, TypeOK, Grid

LEMMA IdleHasNoJobs == UiIdle.jobs = <<>> /\ UiIdle.pc = "idle"
BY DEF UiIdle

(* The operations that lay the window out again. *)
LEMMA JobsRelayout ==
    ASSUME TypeInv, JobsInv,
           \/ \E origin \in Origins : Recentre(origin)
           \/ \E d \in Shifts : Shift(d[1], d[2])
           \/ Restyle \/ RestyleGrid \/ InvalidateCoarse
    PROVE  JobsInv'
<1>1. ASSUME NEW origin \in TileId, wk' = wk, jobs' = jobs,
             grid' = RezonedGrid(grid, origin),
             ui'.jobs = RezoneJobs(grid, origin)
      PROVE  Sound(grid, jobs, ui.jobs, InHand)'
    <2>1. InHand' = InHand
        BY <1>1 DEF InHand
    <2> QED
        BY <1>1, <2>1, QueueTypes, SoundRezoned DEF JobsInv
<1>2. ASSUME NEW origin \in Origins, Recentre(origin)
      PROVE  JobsInv'
    <2>1. /\ wk' = wk /\ jobs' = jobs /\ grid' = RezonedGrid(grid, origin)
          /\ ui'.jobs = RezoneJobs(grid, origin) /\ ui'.pc = "overview"
        BY <1>2, IdleTypes DEF Recentre, Relayout
    <2> QED
        BY <1>1, <2>1, EngineAssumption DEF JobsInv, PickedInv
<1>3. ASSUME NEW d \in Shifts, Shift(d[1], d[2])
      PROVE  JobsInv'
    <2>1. /\ wk' = wk /\ jobs' = jobs
          /\ grid' = ShiftedGrid(grid, d[1], d[2])
          /\ ui'.jobs = ShiftJobs(grid, d[1], d[2]) /\ ui'.pc = "overview"
        BY <1>3, IdleTypes DEF Shift, Relayout
    <2>2. InHand' = InHand
        BY <2>1 DEF InHand
    <2>3. Sound(grid, jobs, ui.jobs, InHand)'
        BY <2>1, <2>2, QueueTypes, SoundShifted DEF JobsInv
    <2> QED
        BY <2>1, <2>3 DEF JobsInv, PickedInv
<1>4. ASSUME RestyleGrid
      PROVE  JobsInv'
    <2>1. /\ wk' = wk /\ jobs' = jobs
          /\ grid' = RezonedGrid(grid, grid.origin)
          /\ ui'.jobs = RezoneJobs(grid, grid.origin)
          /\ ui'.pc = "invalidate"
        BY <1>4, IdleTypes DEF RestyleGrid, Relayout
    <2>2. grid.origin \in TileId
        BY QueueTypes DEF Grid
    <2> QED
        BY <1>1, <2>1, <2>2 DEF JobsInv, PickedInv
<1>5. ASSUME Restyle
      PROVE  JobsInv'
    <2>1. /\ wk' = wk /\ jobs' = jobs /\ grid' = grid
          /\ ui'.jobs = <<>> /\ ui'.pc = "restyled"
        BY <1>5, IdleTypes, IdleHasNoJobs DEF Restyle
    <2> QED
        BY <2>1, HandEmptied DEF JobsInv, PickedInv, InHand
<1>6. ASSUME InvalidateCoarse
      PROVE  JobsInv'
    <2>1. /\ wk' = wk /\ jobs' = jobs /\ grid' = grid
          /\ ui'.jobs \in {<<>>, ui.jobs} /\ ui'.pc \in {"idle", "overview"}
        BY <1>6, IdleHasNoJobs
        DEF InvalidateCoarse, gridVars, TypeInv, TypeOK
    <2> QED
        BY <2>1, HandEmptied DEF JobsInv, PickedInv, InHand
<1> QED
    BY <1>2, <1>3, <1>4, <1>5, <1>6

(* The queue: sending, draining, and the jobs beside the slots. *)
LEMMA JobsSend ==
    ASSUME TypeInv, JobsInv,
           EnsureCoarse \/ Enqueue \/ DrainAndRetry \/ RequestPlaces
             \/ RetryOverview
    PROVE  JobsInv'
<1>1. ASSUME NEW rest, GoOn(rest)
      PROVE  ui'.jobs = rest /\ ui'.pc \in {"idle", "sending"}
    BY <1>1, IdleHasNoJobs DEF GoOn, Finish, TypeInv, TypeOK
<1>2. ASSUME NEW job \in QueuedJob, job.slot \notin Slots,
             job.generation = 0, SendFront(job) \/ SendBack(job)
      PROVE  Sound(grid, jobs', ui.jobs, InHand)
    <2>1. /\ Sound(grid, Append(jobs, job), ui.jobs, InHand)
          /\ Sound(grid, <<job>> \o jobs, ui.jobs, InHand)
          /\ Sound(grid, jobs, ui.jobs, InHand)
        BY <1>2, QueueTypes, SoundBeside DEF JobsInv
    <2> QED
        BY <1>2, <2>1 DEF SendFront, SendBack
<1>3. \A id : OverviewJob(id).slot \notin Slots
              /\ OverviewJob(id).generation = 0
    BY GridAssumption DEF OverviewJob, OVERVIEW_SLOT, Slots
<1>4. ASSUME EnsureCoarse
      PROVE  JobsInv'
    <2>1. GoOn(ui.jobs) /\ wk' = wk /\ grid' = grid
        BY <1>4 DEF EnsureCoarse, gridVars
    <2>2. Sound(grid, jobs', ui.jobs, InHand)
        <3>1. CoarseOf(grid.origin) \in TileId
            BY QueueTypes, CoarseOfType DEF Grid
        <3>2. \/ jobs' = jobs
              \/ SendFront(OverviewJob(CoarseOf(grid.origin)))
              \/ SendBack(OverviewJob(CoarseOf(grid.origin)))
            BY <1>4 DEF EnsureCoarse
        <3> QED
            BY <1>2, <1>3, <3>1, <3>2, OverviewJobType DEF JobsInv
    <2> QED
        BY <1>1, <2>1, <2>2 DEF JobsInv, PickedInv, InHand
<1>5. ASSUME RequestPlaces
      PROVE  JobsInv'
    <2> DEFINE job == [id |-> NoId, slot |-> PLACE_SLOT, generation |-> 0]
    <2>1. /\ job \in QueuedJob /\ job.generation = 0
          /\ job.slot \notin Slots
        BY BufferFacts, NoIdType, GridAssumption
        DEF QueuedJob, PLACE_SLOT, Slots
    <2>2. SendBack(job) /\ UNCHANGED <<grid, ui, wk>>
        BY <1>5 DEF RequestPlaces, gridVars
    <2> HIDE DEF job
    <2> QED
        BY <1>2, <2>1, <2>2 DEF JobsInv, PickedInv, InHand
<1>6. ASSUME RetryOverview
      PROVE  JobsInv'
    <2>1. coarse.want \in TileId
        BY <1>6 DEF RetryOverview, TypeInv, RetryNamed
    <2>2. SendFront(OverviewJob(coarse.want)) /\ UNCHANGED <<grid, ui, wk>>
        BY <1>6 DEF RetryOverview, gridVars
    <2> QED
        BY <1>2, <1>3, <2>1, <2>2, OverviewJobType
        DEF JobsInv, PickedInv, InHand
<1>7. ASSUME Enqueue
      PROVE  JobsInv'
    <2>1. ui.jobs # <<>> /\ wk' = wk /\ grid' = grid
        BY <1>7 DEF Enqueue, gridVars, TypeInv, Sendable
    <2>2. CASE Room
        <3>1. jobs' = Append(jobs, Head(ui.jobs)) /\ GoOn(Tail(ui.jobs))
            BY <1>7, <2>2 DEF Enqueue
        <3> QED
            BY <1>1, <2>1, <3>1, QueueTypes, SoundSent
            DEF JobsInv, PickedInv, InHand
    <2>3. CASE ~Room
        <3>1. jobs' = jobs /\ ui'.jobs = ui.jobs /\ ui'.pc = "draining"
            BY <1>7, <2>3 DEF Enqueue, TypeInv, TypeOK
        <3> QED
            BY <2>1, <3>1 DEF JobsInv, PickedInv, InHand
    <2> QED
        BY <2>2, <2>3
<1>8. ASSUME DrainAndRetry
      PROVE  JobsInv'
    <2>1. ui.jobs # <<>> /\ wk' = wk /\ grid' = grid /\ GoOn(Tail(ui.jobs))
        BY <1>8 DEF DrainAndRetry, gridVars, TypeInv, Sendable
    <2>2. Sound(grid, jobs', Tail(ui.jobs), InHand)
        <3>1. CASE jobs = <<>>
            BY <1>8, <2>1, <3>1, QueueTypes, SoundSent
            DEF DrainAndRetry, JobsInv
        <3>2. CASE jobs # <<>>
            <4>1. Sound(grid, Tail(jobs), ui.jobs, InHand)
                BY <3>2, QueueTypes, SoundTaken DEF JobsInv
            <4>2. Tail(jobs) \in Seq(QueuedJob)
                BY <3>2, QueueTypes, HeadTailProperties
            <4>3. jobs' = Append(Tail(jobs), Head(ui.jobs))
                BY <1>8, <3>2 DEF DrainAndRetry
            <4> QED
                BY <2>1, <4>1, <4>2, <4>3, QueueTypes, SoundSent
        <3> QED
            BY <3>1, <3>2
    <2> QED
        BY <1>1, <2>1, <2>2 DEF JobsInv, PickedInv, InHand
<1> QED
    BY <1>4, <1>5, <1>6, <1>7, <1>8

(* A slot that was given up or painted over has no job left, unless it     *)
(* still waits for one.                                                    *)
LEMMA SoundPainted ==
    ASSUME NEW B, NEW g \in Grid(B), NEW s \in Slots, NEW state,
           NEW q, NEW r, NEW h, Sound(g, q, r, h),
           state \in Waiting \/ g.slots[s].state \notin Waiting
    PROVE  Sound([g EXCEPT !.slots[s].state = state], q, r, h)
<1> DEFINE new == [g EXCEPT !.slots[s].state = state]
<1>1. new.generation = g.generation
    BY DEF Grid
<1>2. \A t \in Slots :
        new.slots[t].state = IF t = s THEN state ELSE g.slots[t].state
    BY DEF Grid, Slot
<1>3. g.slots[s].state \notin Waiting =>
        /\ \A k \in DOMAIN q : Live(g, q[k]) => q[k].slot # s
        /\ \A k \in DOMAIN r : Live(g, r[k]) => r[k].slot # s
        /\ \A k \in DOMAIN h : Live(g, h[k]) => h[k].slot # s
    BY DEF Sound, AllOwed, Owed
<1> HIDE DEF new
<1>4. \A t \in Slots :
        \/ new.slots[t].state = g.slots[t].state
        \/ new.slots[t].state \in Waiting
        \/ /\ \A k \in DOMAIN q : Live(g, q[k]) => q[k].slot # t
           /\ \A k \in DOMAIN r : Live(g, r[k]) => r[k].slot # t
           /\ \A k \in DOMAIN h : Live(g, h[k]) => h[k].slot # t
    BY <1>2, <1>3
<1>5. Sound(new, q, r, h)
    BY <1>1, <1>4, SoundMarked
<1> QED
    BY <1>5 DEF new

(* Placeholders and labels. *)
LEMMA JobsDraw ==
    ASSUME TypeInv, JobsInv,
           \/ PickUnpainted \/ BeginFill \/ EndFill \/ GiveUpFill
           \/ \E s \in Slots : CheckReady(s)
           \/ BeginLabels \/ EndLabels
    PROVE  JobsInv'
<1>1. ASSUME UNCHANGED <<grid, jobs, wk>>, ui'.jobs \in {<<>>, ui.jobs}
      PROVE  Sound(grid, jobs, ui.jobs, InHand)'
    BY <1>1, HandEmptied DEF JobsInv, InHand
<1>2. ASSUME PickUnpainted
      PROVE  JobsInv'
    <2> DEFINE wanting == {s \in Slots : WantsFill(grid.slots[s].state)}
               first == Nth(wanting, RowMajor, 0)
    <2>1. first \in wanting
        <3>1. wanting # {} /\ wanting \in SUBSET Slots
            BY <1>2 DEF PickUnpainted
        <3> QED
            BY <3>1, FirstSlot
    <2>2. ui' = [UiIdle EXCEPT !.pc = "picked", !.op = "fill", !.slot = first,
                               !.was = grid.slots[first].state,
                               !.buffer = grid.slots[first].pixels]
        BY <1>2 DEF PickUnpainted
    <2>3. UNCHANGED <<grid, jobs, wk>>
        BY <1>2 DEF PickUnpainted, gridVars
    <2>4. WantsFill(grid.slots[first].state)
        BY <2>1
    <2> HIDE DEF first
    <2>5. /\ ui'.pc = "picked" /\ ui'.jobs = <<>>
          /\ ui'.was = grid.slots[first].state
        BY <2>2, IdleTypes, IdleHasNoJobs
    <2> QED
        BY <1>1, <2>3, <2>4, <2>5 DEF JobsInv, PickedInv
<1>3. ASSUME BeginFill
      PROVE  JobsInv'
    <2>1. /\ UNCHANGED <<grid, jobs, wk>> /\ ui'.jobs = ui.jobs
          /\ ui'.was = ui.was /\ ui'.pc \in {"filling", "unfilled"}
          /\ ui.pc = "picked"
        BY <1>3 DEF BeginFill, TypeInv, TypeOK
    <2> QED
        BY <1>1, <2>1 DEF JobsInv, PickedInv
<1>4. ASSUME EndFill
      PROVE  JobsInv'
    <2>1. /\ UNCHANGED <<jobs, wk>> /\ ui'.jobs = <<>> /\ ui'.pc = "idle"
          /\ InHand' = InHand
        BY <1>4, IdleHasNoJobs DEF EndFill, InHand
    <2>2. "COARSE" \in Waiting \/ ui.was \notin Waiting
        BY <1>4 DEF EndFill, JobsInv, PickedInv, WantsFill, Gap, Waiting
    <2>3. Sound(grid, jobs, <<>>, InHand)
        BY HandEmptied DEF JobsInv
    <2>4. Sound(grid', jobs, <<>>, InHand)
        BY <1>4, <2>2, <2>3, QueueTypes, SoundPainted
        DEF EndFill, StillPicked
    <2> QED
        BY <2>1, <2>4 DEF JobsInv, PickedInv
<1>5. ASSUME GiveUpFill
      PROVE  JobsInv'
    <2>1. /\ UNCHANGED <<jobs, wk>> /\ ui'.jobs = <<>> /\ ui'.pc = "idle"
          /\ InHand' = InHand
        BY <1>5, IdleHasNoJobs DEF GiveUpFill, InHand
    <2>2. ui.was # "PENDING" => ui.was \notin Waiting
        BY <1>5 DEF GiveUpFill, JobsInv, PickedInv, WantsFill, Gap, Waiting
    <2>3. Sound(grid, jobs, <<>>, InHand)
        BY HandEmptied DEF JobsInv
    <2>4. Sound(grid', jobs, <<>>, InHand)
        BY <1>5, <2>2, <2>3, QueueTypes, SoundPainted
        DEF GiveUpFill, StillPicked
    <2> QED
        BY <2>1, <2>4 DEF JobsInv, PickedInv
<1>6. ASSUME NEW s \in Slots, CheckReady(s)
      PROVE  JobsInv'
    <2>1. /\ UNCHANGED <<grid, jobs, wk>>
          /\ ui'.jobs = <<>> /\ ui'.pc = "ready"
        BY <1>6, IdleTypes, IdleHasNoJobs DEF CheckReady, gridVars
    <2> QED
        BY <1>1, <2>1 DEF JobsInv, PickedInv
<1>7. ASSUME BeginLabels \/ EndLabels
      PROVE  JobsInv'
    <2>1. /\ UNCHANGED <<grid, jobs, wk>> /\ ui'.jobs \in {<<>>, ui.jobs}
          /\ ui'.pc \in {"labels", "idle"}
        BY <1>7, IdleHasNoJobs
        DEF BeginLabels, EndLabels, gridVars, TypeInv, TypeOK
    <2> QED
        BY <1>1, <2>1 DEF JobsInv, PickedInv
<1> QED
    BY <1>2, <1>3, <1>4, <1>5, <1>6, <1>7

(* A commit settles its slot, whose only live job is the one in hand.      *)
LEMMA SoundCommitted ==
    ASSUME NEW g, NEW q, NEW r, NEW job, Sound(g, q, r, <<job>>),
           NEW new, new.generation = g.generation,
           \A s \in Slots : \/ new.slots[s].state = g.slots[s].state
                            \/ Accepts(g, job) /\ s = job.slot
    PROVE  Sound(new, q, r, <<>>)
<1>1. Accepts(g, job) =>
        /\ \A k \in DOMAIN q : Live(g, q[k]) => q[k].slot # job.slot
        /\ \A k \in DOMAIN r : Live(g, r[k]) => r[k].slot # job.slot
    BY Single DEF Sound, Disjoint, Clash, Live, Accepts
<1>2. Sound(g, q, r, <<>>)
    BY HandEmptied
<1> QED
    BY <1>1, <1>2, SoundMarked

(* The worker's loop. *)
LEMMA JobsWorker ==
    ASSUME TypeInv, JobsInv, Worker
    PROVE  JobsInv'
<1>1. /\ Sound(grid, jobs, ui.jobs, <<>>)
      /\ wk.pc # "idle" => Sound(grid, jobs, ui.jobs, <<wk.job>>)
    BY HandEmptied DEF JobsInv, InHand
<1>2. CASE TakeJob \/ TakeOverview
    <2>1. jobs # <<>> /\ jobs' = Tail(jobs) /\ UNCHANGED <<grid, ui>>
        BY <1>2 DEF TakeJob, TakeOverview, gridVars
    <2>2. InHand' \in {<<>>, <<Head(jobs)>>}
        <3>1. \/ wk'.pc = "idle"
              \/ wk'.pc # "idle" /\ wk'.job = Head(jobs)
            <4>1. CASE TakeJob
                BY <4>1 DEF TakeJob, WkIdle
            <4>2. CASE TakeOverview
                BY <4>2 DEF TakeOverview
            <4> QED
                BY <1>2, <4>1, <4>2
        <3> QED
            BY <3>1 DEF InHand
    <2>3. /\ Sound(grid, Tail(jobs), ui.jobs, <<>>)
          /\ Sound(grid, Tail(jobs), ui.jobs, <<Head(jobs)>>)
        BY <1>1, <2>1, QueueTypes, SoundTaken
    <2> QED
        BY <2>1, <2>2, <2>3 DEF JobsInv, PickedInv
<1>3. CASE EndOverview \/ DropStale
    <2>1. UNCHANGED <<grid, jobs, ui>> /\ InHand' = <<>>
        BY <1>3 DEF EndOverview, DropStale, gridVars, InHand, WkIdle
    <2> QED
        BY <1>1, <2>1 DEF JobsInv, PickedInv
<1>4. CASE StartFetch \/ StartRender
    <2>1. UNCHANGED <<grid, jobs, ui>> /\ InHand' = InHand
        BY <1>4
        DEF StartFetch, StartRender, gridVars, InHand, TypeInv, TypeOK
    <2> QED
        BY <2>1 DEF JobsInv, PickedInv
<1>5. CASE EndFetch \/ CommitFailure \/ CommitRender
    <2>1. /\ UNCHANGED <<jobs, ui>> /\ InHand' = <<>> /\ wk.pc # "idle"
          /\ \/ \E result : grid' = Commit(grid, wk.job, result)
             \/ grid' = CommitSwap(grid, wk.job, "READY", spare)
        BY <1>5 DEF EndFetch, CommitFailure, CommitRender, InHand, WkIdle
    <2>2. /\ grid'.generation = grid.generation
          /\ \A s \in Slots : \/ grid'.slots[s].state = grid.slots[s].state
                              \/ Accepts(grid, wk.job) /\ s = wk.job.slot
        BY <2>1, QueueTypes DEF Commit, CommitSwap, Accepts, Grid, Slot
    <2> QED
        BY <1>1, <2>1, <2>2, SoundCommitted DEF JobsInv, PickedInv
<1> QED
    BY <1>2, <1>3, <1>4, <1>5 DEF Worker

LEMMA JobsInit == Init => JobsInv
BY IdleHasNoJobs
DEF Init, JobsInv, PickedInv, Sound, Distinct, Disjoint, AllOwed, InHand,
    WkIdle

LEMMA JobsStep ==
    ASSUME "screen" \notin Ops, TypeInv, JobsInv, [Next]_vars
    PROVE  JobsInv'
<1>1. ~ScreenOff /\ ~ScreenOn /\ ~RequeueUndrawn
    BY DEF ScreenOff, ScreenOn, RequeueUndrawn, Begin, JobsInv
<1>2. CASE UiStarts
    BY <1>1, <1>2, JobsRelayout, JobsSend, JobsDraw DEF UiStarts
<1>3. CASE UiContinues
    BY <1>1, <1>3, JobsRelayout, JobsSend, JobsDraw DEF UiContinues
<1>4. CASE UNCHANGED vars
    BY <1>4 DEF vars, gridVars, JobsInv, PickedInv, InHand
<1> QED
    BY <1>2, <1>3, <1>4, JobsWorker DEF Next

-----------------------------------------------------------------------------
(* What a step may do. *)

(* What the worker has in hand: a rendering job was current when it was    *)
(* taken up, and only a failure is committed without pixels.               *)
WorkerInv ==
    /\ wk.pc = "commit" => wk.result # "READY"
    /\ Rendering => wk.job.generation <= grid.generation

GridUnmoved == grid' = grid

GridRelaid ==
    /\ \E origin \in TileId : grid' = RezonedGrid(grid, origin)
    /\ ui'.op # "shift"
    /\ UNCHANGED <<pixels, wk>>

GridShifted == \E d \in Shifts : Shift(d[1], d[2])

GridPainted ==
    /\ EndFill \/ GiveUpFill
    /\ \/ grid' = [grid EXCEPT !.slots[ui.slot].state = "COARSE"]
       \/ grid' = [grid EXCEPT !.slots[ui.slot].state = "EMPTY"]

GridMarked ==
    /\ EndFetch \/ CommitFailure
    /\ \E result \in {"NODATA", "ERROR", "PENDING"} :
            grid' = Commit(grid, wk.job, result)

LEMMA GridMoves ==
    ASSUME TypeInv, WorkerInv, [Next]_vars
    PROVE  \/ GridUnmoved \/ GridRelaid \/ GridShifted \/ GridPainted
           \/ GridMarked \/ CommitRender
<1>1. CASE UiStarts
    <2>1. ASSUME NEW origin \in Origins, Recentre(origin)
          PROVE  GridRelaid
        BY <2>1, EngineAssumption, IdleTypes
        DEF Recentre, Relayout, GridRelaid
    <2> QED
        BY <1>1, <2>1
        DEF UiStarts, Restyle, ScreenOff, ScreenOn, RequestPlaces,
            RetryOverview, PickUnpainted, CheckReady, gridVars,
            GridUnmoved, GridShifted
<1>2. CASE UiContinues
    <2>1. CASE RestyleGrid
        <3>1. grid.origin \in TileId
            BY QueueTypes DEF Grid
        <3> QED
            BY <2>1, <3>1, IdleTypes DEF RestyleGrid, Relayout, GridRelaid
    <2>2. CASE EndFill \/ GiveUpFill
        BY <2>2 DEF EndFill, GiveUpFill, GridPainted, GridUnmoved
    <2> QED
        BY <1>2, <2>1, <2>2
        DEF UiContinues, InvalidateCoarse, RequeueUndrawn, EnsureCoarse,
            Enqueue, DrainAndRetry, BeginFill, BeginLabels, EndLabels,
            gridVars, GridUnmoved
<1>3. CASE Worker
    <2>1. CASE EndFetch
        BY <2>1 DEF EndFetch, GridMarked
    <2>2. CASE CommitFailure
        <3>1. wk.result \in {"NODATA", "ERROR", "PENDING"}
            BY <2>2 DEF CommitFailure, WorkerInv, TypeInv, TypeOK
        <3> QED
            BY <2>2, <3>1 DEF CommitFailure, GridMarked
    <2> QED
        BY <1>3, <2>1, <2>2
        DEF Worker, TakeJob, TakeOverview, EndOverview, DropStale,
            StartFetch, StartRender, gridVars, GridUnmoved
<1>4. CASE UNCHANGED vars
    BY <1>4 DEF vars, gridVars, GridUnmoved
<1> QED
    BY <1>1, <1>2, <1>3, <1>4 DEF Next

(* The generation is the number of the layout. *)
LEMMA GenerationGrows ==
    ASSUME TypeInv, WorkerInv, [Next]_vars
    PROVE  grid'.generation \in {grid.generation, grid.generation + 1}
<1>1. CASE GridRelaid \/ GridShifted
    <2>1. \A origin :
            RezonedGrid(grid, origin).generation = grid.generation + 1
        BY DEF RezonedGrid
    <2>2. \A dx, dy :
            ShiftedGrid(grid, dx, dy).generation = grid.generation + 1
        BY DEF ShiftedGrid
    <2>3. CASE GridRelaid
        BY <2>1, <2>3 DEF GridRelaid
    <2>4. CASE GridShifted
        BY <2>2, <2>4 DEF GridShifted, Shift, Relayout
    <2> QED
        BY <1>1, <2>3, <2>4
<1>2. CASE GridUnmoved
    BY <1>2 DEF GridUnmoved
<1>3. CASE GridPainted
    BY <1>3, QueueTypes DEF GridPainted, Grid
<1>4. CASE GridMarked
    BY <1>4, QueueTypes DEF GridMarked, Commit, Grid
<1>5. CASE CommitRender
    BY <1>5, QueueTypes DEF CommitRender, CommitSwap, Grid
<1> QED
    BY <1>1, <1>2, <1>3, <1>4, <1>5, GridMoves

LEMMA WorkerInit == Init => WorkerInv
BY DEF Init, WorkerInv, WkIdle, Rendering

LEMMA WorkerStep ==
    ASSUME TypeInv, WorkerInv, [Next]_vars
    PROVE  WorkerInv'
<1>1. /\ grid'.generation \in Nat /\ grid'.generation >= grid.generation
      /\ wk.job.generation \in Nat
    BY GenerationGrows, QueueTypes DEF TypeInv, TypeOK, QueuedJob
<1>2. CASE wk' = wk
    BY <1>1, <1>2, QueueTypes DEF WorkerInv, Rendering
<1>3. CASE StartRender
    <2>1. \/ wk'.pc = "render" /\ wk'.job = wk.job
          \/ wk'.pc = "commit" /\ wk'.result # "READY"
        BY <1>3 DEF StartRender, TypeInv, TypeOK
    <2>2. wk.job.generation = grid.generation
        BY <1>3 DEF StartRender
    <2> QED
        BY <1>1, <2>1, <2>2, QueueTypes DEF WorkerInv, Rendering
<1>4. CASE Worker /\ ~StartRender
    <2>1. wk'.pc \in {"idle", "check", "overview", "fetch"}
        <3>1. CASE TakeJob
            BY <3>1 DEF TakeJob, WkIdle
        <3>2. CASE TakeOverview
            BY <3>2 DEF TakeOverview
        <3>3. CASE StartFetch
            BY <3>3 DEF StartFetch, TypeInv, TypeOK
        <3> QED
            BY <1>4, <3>1, <3>2, <3>3
            DEF Worker, EndOverview, DropStale, EndFetch, CommitRender,
                CommitFailure, WkIdle
    <2> QED
        BY <2>1 DEF WorkerInv, Rendering
<1>5. CASE UiStarts \/ UiContinues \/ UNCHANGED vars
    BY <1>2, <1>5
    DEF UiStarts, Recentre, Shift, Restyle, ScreenOff, ScreenOn,
        RequestPlaces, RetryOverview, PickUnpainted, CheckReady,
        UiContinues, RestyleGrid, InvalidateCoarse, RequeueUndrawn,
        EnsureCoarse, Enqueue, DrainAndRetry, BeginFill, EndFill,
        GiveUpFill, BeginLabels, EndLabels, vars
<1> QED
    BY <1>3, <1>4, <1>5 DEF Next

(* A slot is READY because it was, because its tile was carried there by a *)
(* shift, or because the worker has just committed its tile.               *)
LEMMA ReadyComesFrom ==
    ASSUME TypeInv, WorkerInv, [Next]_vars,
           NEW s \in Slots, grid'.slots[s].state = "READY"
    PROVE  \/ \E t \in Slots :
                /\ t = s \/ GridShifted
                /\ grid.slots[t].state = "READY"
                /\ grid'.slots[s].id = grid.slots[t].id
                /\ grid'.slots[s].pixels = grid.slots[t].pixels
           \/ /\ CommitRender /\ Accepts(grid, wk.job) /\ s = wk.job.slot
              /\ grid'.slots[s].id = wk.job.id
              /\ grid'.slots[s].pixels = spare
<1>1. CASE GridUnmoved
    BY <1>1 DEF GridUnmoved
<1>2. ~GridRelaid
    BY DEF GridRelaid, RezonedGrid, FreshState
<1>3. ASSUME NEW d \in Shifts, Shift(d[1], d[2])
      PROVE  \E t \in Slots :
                /\ grid.slots[t].state = "READY"
                /\ grid'.slots[s].id = grid.slots[t].id
                /\ grid'.slots[s].pixels = grid.slots[t].pixels
    <2>1. grid' = ShiftedGrid(grid, d[1], d[2])
        BY <1>3 DEF Shift, Relayout
    <2>2. s \in Carried(grid, d[1], d[2])
        BY <2>1 DEF ShiftedGrid, FreshState
    <2>3. grid'.slots[s] = grid.slots[Source(s, d[1], d[2])]
        BY <2>1, <2>2 DEF ShiftedGrid
    <2>4. Source(s, d[1], d[2]) \in Slots
        BY <2>2 DEF Carried
    <2> QED
        BY <2>3, <2>4
<1>4. CASE GridPainted
    <2>1. /\ s # ui.slot
          /\ grid'.slots[s] = grid.slots[s]
        BY <1>4, QueueTypes DEF GridPainted, Grid, Slot
    <2> QED
        BY <2>1
<1>5. CASE GridMarked
    <2>1. grid'.slots[s] = grid.slots[s]
        BY <1>5, QueueTypes DEF GridMarked, Commit, Accepts, Grid, Slot
    <2> QED
        BY <2>1
<1>6. CASE CommitRender
    <2>1. grid' = CommitSwap(grid, wk.job, "READY", spare)
        BY <1>6 DEF CommitRender
    <2>2. CASE Accepts(grid, wk.job) /\ s = wk.job.slot
        BY <1>6, <2>1, <2>2, QueueTypes, CommitSwapKeeps DEF Accepts
    <2>3. CASE ~(Accepts(grid, wk.job) /\ s = wk.job.slot)
        <3>1. grid'.slots[s] = grid.slots[s]
            BY <2>1, <2>3, QueueTypes DEF CommitSwap, Accepts, Grid, Slot
        <3> QED
            BY <3>1
    <2> QED
        BY <2>2, <2>3
<1> QED
    BY <1>1, <1>2, <1>3, <1>4, <1>5, <1>6, GridMoves DEF GridShifted

-----------------------------------------------------------------------------
(* Labels. *)

NamesCleared ==
    /\ UNCHANGED <<grid, labels, wLabels>>
    /\ names' \in {names, [names EXCEPT ![wLabels] = NoTile]}

(* Only the worker moves label sets, and only between itself and the slot  *)
(* it commits to.                                                          *)
LEMMA LabelMoves ==
    ASSUME TypeInv, [Next]_vars
    PROVE  \/ UNCHANGED <<labels, wLabels, names>>
           \/ NamesCleared
           \/ CommitRender \/ CommitFailure
<1>1. CASE UiStarts \/ UiContinues \/ UNCHANGED vars
    BY <1>1
    DEF UiStarts, Recentre, Shift, Restyle, ScreenOff, ScreenOn,
        RequestPlaces, RetryOverview, PickUnpainted, CheckReady,
        UiContinues, RestyleGrid, InvalidateCoarse, RequeueUndrawn,
        EnsureCoarse, Enqueue, DrainAndRetry, BeginFill, EndFill,
        GiveUpFill, BeginLabels, EndLabels, labelVars, vars
<1>2. CASE Worker
    BY <1>2
    DEF Worker, TakeJob, TakeOverview, EndOverview, DropStale, StartFetch,
        EndFetch, StartRender, labelVars, NamesCleared
<1> QED
    BY <1>1, <1>2 DEF Next

(* A READY slot with another tile's names has kept them, or a drift brought *)
(* the tile there.                                                          *)
LEMMA NamedStep ==
    ASSUME OwnershipInv, WorkerInv, [Next]_vars, NEW s \in Misnamed'
    PROVE  \E t \in Slots :
            /\ grid.slots[t].state = "READY"
            /\ grid'.slots[s].id = grid.slots[t].id
            /\ grid'.slots[s].pixels = grid.slots[t].pixels
            /\ IF t = s THEN s \in Misnamed
               ELSE grid'.generation # grid.generation /\ ui'.op = "shift"
<1>1. TypeInv /\ WorkerInv /\ NamePool!Apart
    BY DEF OwnershipInv, BufferOwnership
<1>2. /\ s \in Slots /\ grid'.slots[s].state = "READY"
      /\ names'[labels'[s]] # grid'.slots[s].id
    BY DEF Misnamed
<1>3. /\ labels \in [Slots -> Buffers] /\ wLabels \in Buffers
      /\ names \in [Buffers -> TileId \cup {NoTile}]
      /\ \A t \in Slots : labels[t] # wLabels
      /\ \A t, u \in Slots : t # u => labels[t] # labels[u]
    BY <1>1 DEF TypeInv, TypeOK, NamePool!Apart, NamePool!HeldBySlots
<1>4. ~(CommitRender /\ Accepts(grid, wk.job) /\ s = wk.job.slot)
    <2> SUFFICES ASSUME CommitRender, Accepts(grid, wk.job), s = wk.job.slot
                 PROVE  names'[labels'[s]] = grid'.slots[s].id
        BY <1>2
    <2>1. grid'.slots[s].id = wk.job.id
        <3>1. grid' = CommitSwap(grid, wk.job, "READY", spare)
            BY DEF CommitRender
        <3>2. grid'.slots[s].id = grid.slots[s].id
            BY <1>1, <1>2, <3>1, QueueTypes, CommitSwapKeeps
        <3> QED
            BY <3>2 DEF Accepts
    <2> QED
        BY <1>2, <1>3, <2>1 DEF CommitRender
<1>5. PICK t \in Slots :
            /\ t = s \/ GridShifted
            /\ grid.slots[t].state = "READY"
            /\ grid'.slots[s].id = grid.slots[t].id
            /\ grid'.slots[s].pixels = grid.slots[t].pixels
    BY <1>1, <1>2, <1>4, ReadyComesFrom
<1>6. GridShifted => grid'.generation # grid.generation /\ ui'.op = "shift"
    <2> SUFFICES ASSUME NEW d \in Shifts, Shift(d[1], d[2])
                 PROVE  grid'.generation # grid.generation /\ ui'.op = "shift"
        BY DEF GridShifted
    <2>1. /\ grid' = ShiftedGrid(grid, d[1], d[2])
          /\ ui'.op = "shift"
        BY IdleTypes DEF Shift, Relayout, UiIdle
    <2>2. grid'.generation = grid.generation + 1
        BY <2>1 DEF ShiftedGrid
    <2>3. grid.generation \in Nat
        BY QueueTypes, <1>1 DEF Grid
    <2> QED
        BY <2>1, <2>2, <2>3
<1>7. ASSUME t = s, s \notin Misnamed
      PROVE  FALSE
    <2>1. names[labels[s]] = grid'.slots[s].id /\ grid.slots[s].state = "READY"
        BY <1>2, <1>5, <1>7 DEF Misnamed
    <2>2. CASE UNCHANGED <<labels, wLabels, names>>
        BY <1>2, <2>1, <2>2
    <2>3. CASE NamesCleared
        BY <1>2, <1>3, <2>1, <2>3 DEF NamesCleared
    <2>4. CASE CommitRender
        <3>1. labels'[s] = labels[s]
            BY <1>2, <1>3, <1>4, <2>4 DEF CommitRender, Accepts
        <3>2. names' = [names EXCEPT ![wLabels] = wk.job.id]
            BY <2>4 DEF CommitRender
        <3> QED
            BY <1>2, <1>3, <2>1, <3>1, <3>2
    <2>5. CASE CommitFailure
        <3>1. grid' = Commit(grid, wk.job, wk.result)
              /\ wk.result # "READY"
            BY <1>1, <2>5 DEF CommitFailure, WorkerInv
        <3>2. ~(Accepts(grid, wk.job) /\ s = wk.job.slot)
            BY <1>1, <1>2, <3>1, QueueTypes DEF Commit, Grid, Slot
        <3> QED
            BY <1>2, <1>3, <2>1, <2>5, <3>2 DEF CommitFailure, Accepts
    <2> QED
        BY <1>1, <2>2, <2>3, <2>4, <2>5, LabelMoves
<1> QED
    BY <1>5, <1>6, <1>7

(* The worker's exchange after a commit (mapengine.cpp, worker_task) and    *)
(* the shift beside it: whatever is laid out again, restyled, filled, slept *)
(* through, lost in the queue or drifted, only the drift itself parts a     *)
(* READY tile from its names; a committed tile comes with them, and no      *)
(* other step touches those of a slot that shows its own.                   *)
THEOREM OnlyDriftsPartNames == Spec => NamesPartOnlyByDrift
<1>1. OwnershipInv /\ WorkerInv /\ [Next]_vars => OwnershipInv' /\ WorkerInv'
    BY OwnershipStep, WorkerStep DEF OwnershipInv
<1>2. OwnershipInv /\ WorkerInv /\ [Next]_vars =>
        [\A s \in Misnamed' : \E t \in Slots :
            /\ grid.slots[t].state = "READY"
            /\ grid'.slots[s].id = grid.slots[t].id
            /\ grid'.slots[s].pixels = grid.slots[t].pixels
            /\ IF t = s THEN s \in Misnamed
               ELSE grid'.generation # grid.generation /\ ui'.op = "shift"]_vars
    BY NamedStep
<1> QED
    BY <1>1, <1>2, OwnershipInit, WorkerInit, PTL DEF Spec, NamesPartOnlyByDrift

(* While draw_labels reads a slot's label set, the slot stays READY and    *)
(* keeps it.                                                               *)
ReadingInv ==
    /\ ui.pc \in {"ready", "labels"} => grid.slots[ui.slot].state = "READY"
    /\ ui.pc = "labels" => ui.buffer = labels[ui.slot]

QuietInv == OwnershipInv /\ WorkerInv /\ JobsInv /\ ReadingInv

(* No commit touches a slot that does not wait for its tile. *)
LEMMA SettledSlot ==
    ASSUME TypeInv, JobsInv, NEW s \in Slots,
           grid.slots[s].state \notin Waiting,
           EndFetch \/ CommitFailure \/ CommitRender
    PROVE  ~(Accepts(grid, wk.job) /\ s = wk.job.slot)
<1>1. wk.pc # "idle"
    BY DEF EndFetch, CommitFailure, CommitRender
<1>2. Owed(grid, wk.job)
    BY <1>1, Single DEF JobsInv, Sound, InHand, AllOwed
<1> QED
    BY <1>2 DEF Owed, Live, Accepts

LEMMA ReadingStep ==
    ASSUME QuietInv, [Next]_vars
    PROVE  ReadingInv'
<1>1. TypeInv /\ WorkerInv /\ JobsInv
    BY DEF QuietInv, OwnershipInv
<1>2. CASE \E s \in Slots : CheckReady(s)
    <2>1. /\ ui'.pc = "ready" /\ grid' = grid
          /\ grid.slots[ui'.slot].state = "READY"
        BY <1>2, IdleTypes DEF CheckReady, gridVars
    <2> QED
        BY <2>1 DEF ReadingInv
<1>3. CASE BeginLabels
    BY <1>1, <1>3
    DEF BeginLabels, QuietInv, ReadingInv, gridVars, labelVars, TypeInv,
        TypeOK
<1>4. CASE EndLabels
    BY <1>4, IdleHasNoJobs DEF EndLabels, ReadingInv
<1>5. CASE Worker
    <2>1. ui' = ui
        BY <1>5
        DEF Worker, TakeJob, TakeOverview, EndOverview, DropStale,
            StartFetch, EndFetch, StartRender, CommitRender, CommitFailure
    <2>2. SUFFICES ASSUME ui.pc \in {"ready", "labels"},
                          grid.slots[ui.slot].state = "READY"
                   PROVE  /\ grid'.slots[ui.slot].state = "READY"
                          /\ labels'[ui.slot] = labels[ui.slot]
        BY <2>1 DEF QuietInv, ReadingInv
    <2>3. CASE EndFetch \/ CommitFailure \/ CommitRender
        <3>1. ~(Accepts(grid, wk.job) /\ ui.slot = wk.job.slot)
            BY <1>1, <2>2, <2>3, QueueTypes, SettledSlot DEF Waiting
        <3>2. grid'.slots[ui.slot] = grid.slots[ui.slot]
            BY <1>1, <2>3, <3>1, QueueTypes
            DEF EndFetch, CommitFailure, CommitRender, Commit, CommitSwap,
                Accepts, Grid, Slot
        <3>3. labels'[ui.slot] = labels[ui.slot]
            BY <1>1, <2>3, <3>1, QueueTypes
            DEF EndFetch, CommitFailure, CommitRender, Accepts, labelVars,
                TypeInv, TypeOK
        <3> QED
            BY <2>2, <3>2, <3>3
    <2>4. CASE ~(EndFetch \/ CommitFailure \/ CommitRender)
        BY <1>5, <2>2, <2>4
        DEF Worker, TakeJob, TakeOverview, EndOverview, DropStale,
            StartFetch, StartRender, gridVars, labelVars
    <2> QED
        BY <2>3, <2>4
<1>6. CASE UNCHANGED vars
    BY <1>6 DEF vars, gridVars, labelVars, QuietInv, ReadingInv
<1>7. CASE \/ UiStarts /\ ~\E s \in Slots : CheckReady(s)
           \/ UiContinues /\ ~BeginLabels /\ ~EndLabels
    <2>1. ui'.pc \notin {"ready", "labels"}
        <3>1. CASE UiStarts /\ ~\E s \in Slots : CheckReady(s)
            <4>1. CASE \/ \E origin \in Origins : Recentre(origin)
                       \/ \E d \in Shifts : Shift(d[1], d[2])
                       \/ Restyle
                BY <4>1, IdleTypes DEF Recentre, Shift, Restyle, Relayout
            <4>2. CASE ScreenOff \/ RequestPlaces \/ RetryOverview
                BY <4>2
                DEF ScreenOff, RequestPlaces, RetryOverview, Begin, Drawing
            <4>3. CASE ScreenOn
                BY <4>3, IdleTypes DEF ScreenOn
            <4>4. CASE PickUnpainted
                BY <4>4, IdleTypes DEF PickUnpainted
            <4> QED
                BY <3>1, <4>1, <4>2, <4>3, <4>4 DEF UiStarts
        <3>2. CASE UiContinues /\ ~BeginLabels /\ ~EndLabels
            <4>1. ASSUME NEW rest, GoOn(rest)
                  PROVE  ui'.pc \in {"idle", "sending"}
                BY <1>1, <4>1, IdleHasNoJobs
                DEF GoOn, Finish, TypeInv, TypeOK
            <4>2. CASE EnsureCoarse \/ Enqueue \/ DrainAndRetry
                BY <1>1, <4>1, <4>2
                DEF EnsureCoarse, Enqueue, DrainAndRetry, TypeInv, TypeOK
            <4>3. CASE BeginFill \/ EndFill \/ GiveUpFill
                BY <1>1, <4>3, IdleHasNoJobs
                DEF BeginFill, EndFill, GiveUpFill, TypeInv, TypeOK
            <4>4. CASE RestyleGrid
                BY <4>4, IdleTypes DEF RestyleGrid, Relayout
            <4>5. CASE InvalidateCoarse
                BY <1>1, <4>5, IdleHasNoJobs
                DEF InvalidateCoarse, TypeInv, TypeOK
            <4>6. ~RequeueUndrawn
                BY <1>1 DEF RequeueUndrawn, JobsInv
            <4> QED
                BY <3>2, <4>2, <4>3, <4>4, <4>5, <4>6 DEF UiContinues
        <3> QED
            BY <1>7, <3>1, <3>2
    <2> QED
        BY <2>1 DEF ReadingInv
<1> QED
    BY <1>2, <1>3, <1>4, <1>5, <1>6, <1>7 DEF Next

(* draw_labels reads a label set outside g_glock (mapengine.cpp): as long  *)
(* as the screen stays on, the worker never fills that very set meanwhile, *)
(* for no job is left for a slot that has become READY.                    *)
THEOREM LabelsReadAlone ==
    "screen" \notin Ops => (Spec => []LabelsNotShared)
<1> SUFFICES ASSUME "screen" \notin Ops PROVE Spec => []LabelsNotShared
    OBVIOUS
<1>1. Init => QuietInv
    <2>1. Init => ReadingInv
        BY IdleHasNoJobs DEF Init, ReadingInv
    <2> QED
        BY <2>1, OwnershipInit, WorkerInit, JobsInit DEF QuietInv
<1>2. QuietInv /\ [Next]_vars => QuietInv'
    BY ReadingStep, OwnershipStep, WorkerStep, JobsStep
    DEF QuietInv, OwnershipInv
<1>3. QuietInv => LabelsNotShared
    BY QueueTypes
    DEF QuietInv, OwnershipInv, BufferOwnership, NamePool!Apart,
        NamePool!HeldBySlots, ReadingInv, LabelsNotShared
<1> QED
    BY <1>1, <1>2, <1>3, PTL DEF Spec

-----------------------------------------------------------------------------
(* Pictures. *)

(* Placeholders are painted only into the gaps the archive left, as while  *)
(* g_fill_pending is off, and no wake-up asks for a gap a second time; or  *)
(* they are not painted at all.                                            *)
OnlyGapsFilled ==
    "fill" \notin Ops \/ (~FillPending /\ "screen" \notin Ops)

(* The UI task is between picking a slot and marking it. *)
Painting == ui.pc \in {"picked", "filling", "unfilled"}

(* The gap stays a gap, with its buffer, while it is painted over. *)
PaintingInv ==
    Painting =>
        /\ "fill" \in Ops
        /\ grid.slots[ui.slot].state = ui.was
        /\ grid.slots[ui.slot].pixels = ui.buffer

(* What the worker renders for the present layout is spoilt by nobody. *)
RenderingInv ==
    Rendering /\ ui.pc # "restyled" /\ wk.job.generation = grid.generation
        => pixels[spare] = Writing

ShownInv ==
    /\ OwnershipInv /\ WorkerInv
    /\ "screen" \notin Ops => JobsInv
    /\ PaintingInv /\ RenderingInv /\ ReadyFaithful

(* The slot that is painted over is not READY and not the worker's. *)
LEMMA PaintedGap ==
    ASSUME OnlyGapsFilled, ShownInv, Painting
    PROVE  /\ Gap(grid.slots[ui.slot].state)
           /\ "screen" \notin Ops /\ JobsInv
           /\ ui.buffer # spare
           /\ \A s \in Slots : s # ui.slot =>
                grid.slots[s].pixels # ui.buffer
<1>1. "screen" \notin Ops /\ ~FillPending /\ JobsInv
    BY DEF OnlyGapsFilled, ShownInv, PaintingInv
<1>2. Gap(ui.was)
    BY <1>1 DEF JobsInv, PickedInv, Painting, WantsFill
<1>3. ui.slot \in Slots /\ PixelPool!Apart
    BY QueueTypes DEF ShownInv, OwnershipInv, BufferOwnership
<1>4. /\ grid.slots[ui.slot].pixels # spare
      /\ \A s \in Slots : s # ui.slot =>
            grid.slots[s].pixels # grid.slots[ui.slot].pixels
    BY <1>3 DEF PixelPool!Apart, PixelPool!HeldBySlots
<1> QED
    BY <1>1, <1>2, <1>4 DEF ShownInv, PaintingInv

(* Only two buffers are ever written: the worker's spare, and the one the  *)
(* UI task is painting a placeholder into.                                 *)
LEMMA PixelsWritten ==
    ASSUME TypeInv, [Next]_vars, NEW b \in Buffers, b # spare,
           Painting => b # ui.buffer
    PROVE  pixels'[b] = pixels[b]
<1>1. pixels \in [Buffers -> Content]
    BY DEF TypeInv, TypeOK
<1>2. CASE BeginFill \/ EndFill \/ TakeOverview
    BY <1>1, <1>2 DEF BeginFill, EndFill, TakeOverview, Painting
<1>3. CASE Restyle \/ StartRender \/ CommitRender
    BY <1>1, <1>3 DEF Restyle, StartRender, CommitRender
<1>4. CASE UNCHANGED pixels
    BY <1>4
<1>5. CASE UiStarts \/ UNCHANGED vars
    BY <1>3, <1>4, <1>5
    DEF UiStarts, Recentre, Shift, ScreenOff, ScreenOn, RequestPlaces,
        RetryOverview, PickUnpainted, CheckReady, gridVars, vars
<1>6. CASE UiContinues
    BY <1>2, <1>4, <1>6
    DEF UiContinues, RestyleGrid, InvalidateCoarse, RequeueUndrawn,
        EnsureCoarse, Enqueue, DrainAndRetry, GiveUpFill, BeginLabels,
        EndLabels, gridVars
<1>7. CASE Worker
    BY <1>2, <1>3, <1>4, <1>7
    DEF Worker, TakeJob, EndOverview, DropStale, StartFetch, EndFetch,
        CommitFailure, gridVars
<1> QED
    BY <1>5, <1>6, <1>7 DEF Next

(* How the UI task comes to be between two steps. *)
LEMMA UiMoves ==
    ASSUME TypeInv, [Next]_vars
    PROVE  /\ Painting' => \/ PickUnpainted \/ BeginFill
                           \/ ui' = ui /\ Worker
                           \/ UNCHANGED vars
           /\ ui.pc = "restyled" /\ ui'.pc # "restyled" => RestyleGrid
           /\ ui.pc # "restyled" /\ ui'.pc # "restyled" => dark' = dark
<1>1. CASE Worker
    <2>1. ui' = ui /\ dark' = dark
        BY <1>1
        DEF Worker, TakeJob, TakeOverview, EndOverview, DropStale,
            StartFetch, EndFetch, StartRender, CommitRender, CommitFailure,
            modeVars
    <2> QED
        BY <1>1, <2>1
<1>2. CASE UNCHANGED vars
    BY <1>2 DEF vars, modeVars
<1>3. CASE \/ \E origin \in Origins : Recentre(origin)
           \/ \E d \in Shifts : Shift(d[1], d[2])
    BY <1>3, IdleTypes
    DEF Recentre, Shift, Relayout, Begin, Painting, modeVars
<1>4. CASE Restyle
    BY <1>4, IdleTypes DEF Restyle, Begin, Painting
<1>5. CASE ScreenOff \/ RequestPlaces \/ RetryOverview
    BY <1>5
    DEF ScreenOff, RequestPlaces, RetryOverview, Begin, Drawing, Painting,
        modeVars
<1>6. CASE ScreenOn
    BY <1>6, IdleTypes DEF ScreenOn, Begin, Painting
<1>7. CASE PickUnpainted
    BY <1>7 DEF PickUnpainted, Drawing, modeVars
<1>8. CASE \E s \in Slots : CheckReady(s)
    BY <1>8, IdleTypes DEF CheckReady, Drawing, Painting, modeVars
<1>9. CASE RestyleGrid
    BY <1>9, IdleTypes DEF RestyleGrid, Relayout, Painting, modeVars
<1>10. CASE InvalidateCoarse
    BY <1>10, IdleHasNoJobs
    DEF InvalidateCoarse, Painting, modeVars, TypeInv, TypeOK
<1>11. CASE RequeueUndrawn
    BY <1>11, IdleHasNoJobs
    DEF RequeueUndrawn, Painting, modeVars, TypeInv, TypeOK
<1>12. ASSUME NEW rest, GoOn(rest)
       PROVE  ui'.pc \in {"idle", "sending"}
    BY <1>12, IdleHasNoJobs DEF GoOn, Finish, TypeInv, TypeOK
<1>13. CASE EnsureCoarse \/ Enqueue \/ DrainAndRetry
    <2>1. /\ ui'.pc \in {"idle", "sending", "draining"} /\ dark' = dark
          /\ ui.pc # "restyled"
        BY <1>12, <1>13
        DEF EnsureCoarse, Enqueue, DrainAndRetry, TypeInv, TypeOK
    <2> QED
        BY <2>1 DEF Painting
<1>14. CASE BeginFill
    BY <1>14 DEF BeginFill, modeVars, TypeInv, TypeOK
<1>15. CASE EndFill \/ GiveUpFill \/ BeginLabels \/ EndLabels
    BY <1>15, IdleHasNoJobs
    DEF EndFill, GiveUpFill, BeginLabels, EndLabels, Painting, modeVars,
        TypeInv, TypeOK
<1> QED
    BY <1>1, <1>2, <1>3, <1>4, <1>5, <1>6, <1>7, <1>8, <1>9, <1>10, <1>11,
       <1>13, <1>14, <1>15
    DEF Next, UiStarts, UiContinues

LEMMA PaintingStep ==
    ASSUME OnlyGapsFilled, ShownInv, [Next]_vars
    PROVE  PaintingInv'
<1>1. TypeInv /\ WorkerInv
    BY DEF ShownInv, OwnershipInv
<1>2. SUFFICES ASSUME Painting'
               PROVE  /\ "fill" \in Ops
                      /\ grid'.slots[ui'.slot].state = ui'.was
                      /\ grid'.slots[ui'.slot].pixels = ui'.buffer
    BY DEF PaintingInv
<1>3. CASE PickUnpainted
    <2> DEFINE wanting == {s \in Slots : WantsFill(grid.slots[s].state)}
               first == Nth(wanting, RowMajor, 0)
    <2>1. /\ ui' = [UiIdle EXCEPT !.pc = "picked", !.op = "fill",
                                  !.slot = first,
                                  !.was = grid.slots[first].state,
                                  !.buffer = grid.slots[first].pixels]
          /\ grid' = grid /\ "fill" \in Ops
        BY <1>3 DEF PickUnpainted, gridVars
    <2> HIDE DEF first
    <2>2. /\ ui'.slot = first /\ ui'.was = grid.slots[first].state
          /\ ui'.buffer = grid.slots[first].pixels
        BY <2>1, IdleTypes
    <2> QED
        BY <2>1, <2>2
<1>4. CASE BeginFill
    <2>1. /\ ui'.slot = ui.slot /\ ui'.was = ui.was
          /\ ui'.buffer = ui.buffer /\ grid' = grid /\ Painting
        BY <1>1, <1>4 DEF BeginFill, Painting, TypeInv, TypeOK
    <2> QED
        BY <2>1 DEF ShownInv, PaintingInv
<1>5. CASE ui' = ui /\ Worker
    <2>1. Painting
        BY <1>2, <1>5 DEF Painting
    <2>2. Gap(grid.slots[ui.slot].state) /\ JobsInv
        BY <2>1, PaintedGap
    <2>3. grid'.slots[ui.slot] = grid.slots[ui.slot]
        <3>1. CASE EndFetch \/ CommitFailure \/ CommitRender
            <4>1. ~(Accepts(grid, wk.job) /\ ui.slot = wk.job.slot)
                <5>1. grid.slots[ui.slot].state \notin Waiting
                    BY <2>2 DEF Gap, Waiting
                <5> QED
                    BY <1>1, <2>2, <3>1, <5>1, QueueTypes, SettledSlot
            <4> QED
                BY <1>1, <3>1, <4>1, QueueTypes
                DEF EndFetch, CommitFailure, CommitRender, Commit,
                    CommitSwap, Accepts, Grid, Slot
        <3>2. CASE ~(EndFetch \/ CommitFailure \/ CommitRender)
            BY <1>5, <3>2
            DEF Worker, TakeJob, TakeOverview, EndOverview, DropStale,
                StartFetch, StartRender, gridVars
        <3> QED
            BY <3>1, <3>2
    <2> QED
        BY <1>5, <2>1, <2>3 DEF ShownInv, PaintingInv
<1>6. CASE UNCHANGED vars
    <2>1. grid' = grid /\ ui' = ui /\ Painting
        BY <1>2, <1>6 DEF vars, gridVars, Painting
    <2> QED
        BY <2>1 DEF ShownInv, PaintingInv
<1> QED
    BY <1>1, <1>2, <1>3, <1>4, <1>5, <1>6, UiMoves

LEMMA RenderingStep ==
    ASSUME OnlyGapsFilled, ShownInv, [Next]_vars
    PROVE  RenderingInv'
<1>1. TypeInv /\ WorkerInv
    BY DEF ShownInv, OwnershipInv
<1>2. /\ spare \in Buffers /\ pixels \in [Buffers -> Content]
      /\ grid.generation \in Nat /\ grid'.generation \in Nat
      /\ grid'.generation >= grid.generation
      /\ wk.job.generation \in Nat
    BY <1>1, QueueTypes, GenerationGrows
    DEF TypeInv, TypeOK, QueuedJob
<1>3. SUFFICES ASSUME Rendering', ui'.pc # "restyled",
                      wk'.job.generation = grid'.generation
               PROVE  pixels'[spare'] = Writing
    BY DEF RenderingInv
<1>4. CASE StartRender
    <2>1. /\ spare' = spare
          /\ pixels' = [pixels EXCEPT ![spare] =
                            IF Filling(spare) THEN Mixed ELSE Writing]
        BY <1>1, <1>3, <1>4 DEF StartRender, Rendering, TypeInv, TypeOK
    <2>2. ~Filling(spare)
        BY PaintedGap DEF Filling, Painting
    <2> QED
        BY <1>2, <2>1, <2>2
<1>5. CASE wk' = wk /\ spare' = spare
    <2>1. Rendering /\ wk.job.generation = grid'.generation
        BY <1>3, <1>5 DEF Rendering
    <2>2. wk.job.generation = grid.generation
        BY <1>1, <1>2, <2>1 DEF WorkerInv
    <2>3. ui.pc # "restyled"
        <3>1. RestyleGrid => grid'.generation = grid.generation + 1
            BY DEF RestyleGrid, Relayout, RezonedGrid
        <3> QED
            BY <1>1, <1>2, <1>3, <2>1, <2>2, <3>1, UiMoves
    <2>4. pixels[spare] = Writing
        BY <2>1, <2>2, <2>3 DEF ShownInv, RenderingInv
    <2>5. pixels'[spare] = pixels[spare]
        <3>1. CASE BeginFill \/ EndFill
            <4>1. ui.buffer # spare
                BY <3>1, PaintedGap DEF BeginFill, EndFill, Painting
            <4> QED
                BY <1>2, <3>1, <4>1 DEF BeginFill, EndFill
        <3>2. ~Restyle
            BY <1>3, IdleTypes DEF Restyle
        <3>3. ~Worker
            BY <1>5, <2>1
            DEF Worker, TakeJob, TakeOverview, EndOverview, DropStale,
                StartFetch, EndFetch, StartRender, CommitRender,
                CommitFailure, Rendering, WkIdle
        <3>4. CASE UiStarts \/ UNCHANGED vars
            BY <3>2, <3>4
            DEF UiStarts, Recentre, Shift, ScreenOff, ScreenOn,
                RequestPlaces, RetryOverview, PickUnpainted, CheckReady,
                gridVars, vars
        <3>5. CASE UiContinues
            BY <3>1, <3>5
            DEF UiContinues, RestyleGrid, InvalidateCoarse, RequeueUndrawn,
                EnsureCoarse, Enqueue, DrainAndRetry, GiveUpFill,
                BeginLabels, EndLabels, gridVars
        <3> QED
            BY <3>3, <3>4, <3>5 DEF Next
    <2> QED
        BY <1>5, <2>4, <2>5
<1>6. CASE Worker /\ ~StartRender
    <2>1. ~Rendering'
        <3>1. CASE TakeJob
            BY <3>1 DEF TakeJob, WkIdle, Rendering
        <3>2. CASE TakeOverview
            BY <3>2 DEF TakeOverview, Rendering
        <3>3. CASE StartFetch
            BY <1>1, <3>3 DEF StartFetch, Rendering, TypeInv, TypeOK
        <3> QED
            BY <1>6, <3>1, <3>2, <3>3
            DEF Worker, EndOverview, DropStale, EndFetch, CommitRender,
                CommitFailure, WkIdle, Rendering
    <2> QED
        BY <1>3, <2>1
<1>7. CASE UiStarts \/ UiContinues \/ UNCHANGED vars
    BY <1>5, <1>7
    DEF UiStarts, Recentre, Shift, Restyle, ScreenOff, ScreenOn,
        RequestPlaces, RetryOverview, PickUnpainted, CheckReady,
        UiContinues, RestyleGrid, InvalidateCoarse, RequeueUndrawn,
        EnsureCoarse, Enqueue, DrainAndRetry, BeginFill, EndFill,
        GiveUpFill, BeginLabels, EndLabels, gridVars, vars
<1> QED
    BY <1>4, <1>6, <1>7 DEF Next

LEMMA ShownStep ==
    ASSUME OnlyGapsFilled, ShownInv, [Next]_vars
    PROVE  ReadyFaithful'
<1>1. TypeInv /\ WorkerInv /\ PixelPool!Apart
    BY DEF ShownInv, OwnershipInv, BufferOwnership
<1>2. SUFFICES ASSUME ui'.pc # "restyled", NEW s \in Slots,
                      grid'.slots[s].state = "READY"
               PROVE  pixels'[grid'.slots[s].pixels] =
                        Painted("map", grid'.slots[s].id, dark')
    BY DEF ReadyFaithful
<1>3. ui.pc # "restyled" /\ dark' = dark
    <2>1. ~RestyleGrid
        BY <1>2 DEF RestyleGrid, Relayout, RezonedGrid, FreshState
    <2> QED
        BY <1>1, <1>2, <2>1, UiMoves
<1>4. /\ \A t \in Slots :
            /\ grid.slots[t].pixels \in Buffers
            /\ grid.slots[t].pixels # spare
      /\ spare \in Buffers /\ pixels \in [Buffers -> Content]
    BY <1>1
    DEF PixelPool!Apart, PixelPool!HeldBySlots, TypeInv, TypeOK, Grid, Slot
<1>5. ASSUME NEW t \in Slots, grid.slots[t].state = "READY",
             grid'.slots[s].id = grid.slots[t].id,
             grid'.slots[s].pixels = grid.slots[t].pixels
      PROVE  pixels'[grid'.slots[s].pixels] =
                Painted("map", grid'.slots[s].id, dark')
    <2>1. pixels[grid.slots[t].pixels] =
            Painted("map", grid.slots[t].id, dark)
        BY <1>3, <1>5 DEF ShownInv, ReadyFaithful
    <2>2. Painting => grid.slots[t].pixels # ui.buffer
        BY <1>5, PaintedGap DEF Gap
    <2>3. pixels'[grid.slots[t].pixels] = pixels[grid.slots[t].pixels]
        BY <1>1, <1>4, <2>2, PixelsWritten
    <2> QED
        BY <1>3, <1>5, <2>1, <2>3
<1>6. ASSUME CommitRender, Accepts(grid, wk.job),
             grid'.slots[s].id = wk.job.id, grid'.slots[s].pixels = spare
      PROVE  pixels'[grid'.slots[s].pixels] =
                Painted("map", grid'.slots[s].id, dark')
    <2>1. pixels[spare] = Writing
        BY <1>3, <1>6
        DEF ShownInv, RenderingInv, Rendering, CommitRender, Accepts
    <2>2. pixels' = [pixels EXCEPT ![spare] =
                        IF @ = Writing THEN Painted("map", wk.job.id, dark)
                                       ELSE Mixed]
        BY <1>6 DEF CommitRender
    <2> QED
        BY <1>3, <1>4, <1>6, <2>1, <2>2
<1> QED
    BY <1>1, <1>2, <1>5, <1>6, ReadyComesFrom

(* mapengine.cpp, worker_task and coarse_fill: a READY slot shows its own  *)
(* tile, whole and in the palette in force, for every window, queue and    *)
(* interleaving of drifts, jumps, changes of palette and lost jobs - as    *)
(* long as placeholders are painted only into gaps no job is left for.     *)
(* With g_fill_pending, or after a wake-up has asked for a gap again, the  *)
(* UI task can paint into a buffer that a commit has just given the        *)
(* worker, and the statement is false.                                     *)
THEOREM ReadyShowsItsTile ==
    OnlyGapsFilled => (Spec => []ReadyFaithful)
<1> SUFFICES ASSUME OnlyGapsFilled PROVE Spec => []ReadyFaithful
    OBVIOUS
<1>1. Init => ShownInv
    <2>1. Init => PaintingInv /\ RenderingInv
        BY IdleHasNoJobs
        DEF Init, PaintingInv, Painting, RenderingInv, Rendering, WkIdle
    <2>2. Init => ReadyFaithful
        BY DEF Init, GridInit, FreshState, ReadyFaithful
    <2> QED
        BY <2>1, <2>2, OwnershipInit, WorkerInit, JobsInit DEF ShownInv
<1>2. ShownInv /\ [Next]_vars => ShownInv'
    BY PaintingStep, RenderingStep, ShownStep, OwnershipStep, WorkerStep,
       JobsStep
    DEF ShownInv, OwnershipInv
<1>3. ShownInv => ReadyFaithful
    BY DEF ShownInv
<1> QED
    BY <1>1, <1>2, <1>3, PTL DEF Spec

(* tile_grid.h, invariants 3 and 4: the window moves only with a new       *)
(* generation, and a READY tile that stays in it through a drift keeps its *)
(* buffer and stays READY - whatever the size of the window, which has to  *)
(* be narrower than the world.                                             *)
THEOREM ReadySurvivesShift ==
    GRID_N < WORLD => (Spec => ReadyKept)
<1> DEFINE StillShown ==
        /\ grid'.origin # grid.origin => grid'.generation > grid.generation
        /\ grid'.generation # grid.generation /\ ui'.op = "shift" =>
            \A s, t \in Slots :
                /\ grid.slots[s].state = "READY"
                /\ grid'.slots[t].id = grid.slots[s].id
                => /\ grid'.slots[t].state = "READY"
                   /\ grid'.slots[t].pixels = grid.slots[s].pixels
<1> SUFFICES ASSUME GRID_N < WORLD PROVE Spec => ReadyKept
    OBVIOUS
<1>1. ASSUME TypeInv, WorkerInv, IdsFollowOrigin, [Next]_vars
      PROVE  StillShown
    <2>1. CASE GridUnmoved
        BY <2>1 DEF GridUnmoved
    <2>2. CASE GridPainted \/ GridMarked \/ CommitRender
        <3>1. /\ grid'.origin = grid.origin
              /\ grid'.generation = grid.generation
            <4>1. CASE GridPainted
                BY <1>1, <4>1, QueueTypes DEF GridPainted, Grid
            <4>2. CASE GridMarked
                BY <1>1, <4>2, QueueTypes DEF GridMarked, Commit, Grid
            <4>3. CASE CommitRender
                BY <1>1, <4>3, QueueTypes DEF CommitRender, CommitSwap, Grid
            <4> QED
                BY <2>2, <4>1, <4>2, <4>3
        <3> QED
            BY <3>1
    <2>3. CASE GridRelaid
        <3>1. grid'.generation = grid.generation + 1 /\ ui'.op # "shift"
            BY <2>3 DEF GridRelaid, RezonedGrid
        <3> QED
            BY <1>1, <3>1, QueueTypes
    <2>4. ASSUME NEW d \in Shifts, Shift(d[1], d[2])
          PROVE  StillShown
        <3>1. d[1] \in -1 .. 1 /\ d[2] \in -1 .. 1
            BY EngineAssumption
        <3>2. grid' = ShiftedGrid(grid, d[1], d[2])
            BY <2>4 DEF Shift, Relayout
        <3>3. grid'.generation = grid.generation + 1
            BY <3>2 DEF ShiftedGrid
        <3>4. \A s, t \in Slots :
                grid'.slots[t].id = grid.slots[s].id
                    => grid'.slots[t] = grid.slots[s]
            BY <1>1, <3>1, <3>2, QueueTypes, ShiftCarries
            DEF IdsFollowOrigin
        <3> QED
            BY <1>1, <3>3, <3>4, QueueTypes
    <2> QED
        BY <1>1, <2>1, <2>2, <2>3, <2>4, GridMoves DEF GridShifted
<1>2. Init => IdsFollowOrigin
    BY DEF Init, GridInit, IdsFollowOrigin
<1>3. TypeInv /\ WorkerInv /\ IdsFollowOrigin /\ [Next]_vars
        => TypeInv' /\ WorkerInv' /\ IdsFollowOrigin'
    BY TypeStep, WorkerStep, IdsStep
<1>4. TypeInv /\ WorkerInv /\ IdsFollowOrigin /\ [Next]_vars => [StillShown]_vars
    BY <1>1
<1> QED
    BY <1>2, <1>3, <1>4, TypeInit, WorkerInit, PTL DEF Spec, ReadyKept

-----------------------------------------------------------------------------
(* Waiting slots and their jobs. *)

Serves(g, q, s) == \E k \in DOMAIN q : q[k].slot = s /\ Accepts(g, q[k])

Served(g, q, r, h, s) == Serves(g, q, s) \/ Serves(g, r, s) \/ Serves(g, h, s)

(* What the UI task does between two passes over the window. *)
DrawingStates == {"picked", "filling", "unfilled", "ready", "labels"}

(* The window is centred, or will be once its jobs are sent. *)
Centring == centred \/ ui.op = "recentre"

(* Every slot that waits for its tile has a job for it. *)
AllServed ==
    \A s \in Slots : grid.slots[s].state = "PENDING" =>
        Served(grid, jobs, ui.jobs, InHand, s)

(* The screen stays on, and each task holds jobs only where it uses them.  *)
HandsInv ==
    /\ visible /\ wk.pc # "fetch" /\ ui.pc # "waking"
    /\ ui.pc \in {"idle", "restyled"} \cup DrawingStates => ui.jobs = <<>>
    /\ ui.pc = "idle" => ui.op = "none"
    /\ wk.pc = "overview" => wk.job.slot = OVERVIEW_SLOT

WaitingInv == HandsInv /\ (Centring => AllServed)

(* A step that drifts carries no tile that is still waited for: each tile   *)
(* of the window has been answered, or leaves it.                           *)
DriftsAnswered ==
    grid'.generation # grid.generation /\ ui'.op = "shift" =>
        \A s, t \in Slots :
            grid.slots[s].state = "PENDING" => grid'.slots[t].id # grid.slots[s].id

(* emit_jobs leaves out no slot that needs a tile. *)
LEMMA EmittedForAll ==
    ASSUME NEW g, NEW needs \in SUBSET Slots, NEW s \in needs
    PROVE  Serves(g, EmitJobs(g, needs), s)
<1> DEFINE n == Cardinality(needs)
           k == RankIn(needs, CentreFirst, s) + 1
<1>1. IsFiniteSet(needs) /\ TotalOn(needs, CentreFirst) /\ n \in Nat
    BY SlotsFinite, FS_Subset, CentreFirstTotal, TotalOnSubset,
       FS_CardinalityType
<1>2. RankIn(needs, CentreFirst, s) \in 0 .. n - 1
    BY <1>1, BelowProper
<1>3. k \in 1 .. n /\ k - 1 = RankIn(needs, CentreFirst, s)
    BY <1>1, <1>2
<1>4. Nth(needs, CentreFirst, k - 1) = s
    BY <1>1, <1>2, <1>3, NthExists, RankInjective
<1> HIDE DEF k
<1>5. /\ k \in DOMAIN EmitJobs(g, needs)
      /\ EmitJobs(g, needs)[k] = [id |-> g.slots[s].id, slot |-> s,
                                  generation |-> g.generation]
    BY <1>3, <1>4 DEF EmitJobs
<1> QED
    BY <1>5 DEF Serves, Accepts

LEMMA ServedByTail ==
    ASSUME NEW g, NEW q \in Seq(QueuedJob), q # <<>>, NEW s, Serves(g, q, s)
    PROVE  Serves(g, Tail(q), s) \/ Serves(g, <<Head(q)>>, s)
<1>1. /\ Head(q) = q[1] /\ DOMAIN Tail(q) = 1 .. Len(q) - 1
      /\ \A k \in DOMAIN Tail(q) : Tail(q)[k] = q[k + 1]
    BY TailElements
<1>2. Len(q) \in Nat /\ DOMAIN q = 1 .. Len(q)
    BY LenProperties
<1>3. PICK k \in DOMAIN q : q[k].slot = s /\ Accepts(g, q[k])
    BY DEF Serves
<1>4. CASE k = 1
    BY <1>1, <1>3, <1>4, Single DEF Serves
<1>5. CASE k # 1
    <2>1. k - 1 \in DOMAIN Tail(q) /\ Tail(q)[k - 1] = q[k]
        BY <1>1, <1>2, <1>5
    <2> QED
        BY <1>3, <2>1 DEF Serves
<1> QED
    BY <1>4, <1>5

LEMMA ServedByLonger ==
    ASSUME NEW g, NEW q \in Seq(QueuedJob), NEW e \in QueuedJob, NEW s
    PROVE  /\ Serves(g, q, s) \/ Serves(g, <<e>>, s)
                => Serves(g, Append(q, e), s)
           /\ Serves(g, q, s) => Serves(g, <<e>> \o q, s)
<1>1. /\ Len(q) \in Nat /\ DOMAIN q = 1 .. Len(q)
    BY LenProperties
<1>2. /\ DOMAIN Append(q, e) = 1 .. Len(q) + 1
      /\ \A k \in 1 .. Len(q) : Append(q, e)[k] = q[k]
      /\ Append(q, e)[Len(q) + 1] = e
    BY AppendProperties, LenProperties
<1>3. /\ DOMAIN (<<e>> \o q) = 1 .. Len(q) + 1
      /\ \A k \in 1 .. Len(q) : (<<e>> \o q)[k + 1] = q[k]
    <2>1. <<e>> \in Seq(QueuedJob) /\ Len(<<e>>) = 1
        OBVIOUS
    <2>2. /\ <<e>> \o q \in Seq(QueuedJob)
          /\ Len(<<e>> \o q) = 1 + Len(q)
          /\ \A k \in 1 .. 1 + Len(q) :
                (<<e>> \o q)[k] = IF k <= 1 THEN <<e>>[k] ELSE q[k - 1]
        BY <2>1, ConcatProperties
    <2>3. DOMAIN (<<e>> \o q) = 1 .. 1 + Len(q)
        BY <2>2, LenProperties
    <2> QED
        BY <1>1, <2>2, <2>3
<1>4. Serves(g, <<e>>, s) => Serves(g, Append(q, e), s)
    <2>1. Len(q) + 1 \in DOMAIN Append(q, e)
        BY <1>1, <1>2
    <2> QED
        BY <1>2, <2>1, Single DEF Serves
<1>5. Serves(g, q, s) => Serves(g, Append(q, e), s)
    BY <1>1, <1>2 DEF Serves
<1>6. Serves(g, q, s) => Serves(g, <<e>> \o q, s)
    <2>1. \A k \in DOMAIN q : k + 1 \in DOMAIN (<<e>> \o q)
        BY <1>1, <1>3
    <2> QED
        BY <1>1, <1>3, <2>1 DEF Serves
<1> QED
    BY <1>4, <1>5, <1>6

(* A layout asks for every slot it leaves waiting. *)
LEMMA RezonedServed ==
    ASSUME NEW g, NEW origin, NEW s \in Slots,
           RezonedGrid(g, origin).slots[s].state = "PENDING"
    PROVE  Serves(RezonedGrid(g, origin), RezoneJobs(g, origin), s)
<1> DEFINE new == RezonedGrid(g, origin)
           needs == {t \in Slots : OnWorld(new.slots[t].id)}
<1>1. s \in needs
    BY DEF RezonedGrid, FreshState
<1>2. RezoneJobs(g, origin) = EmitJobs(new, needs)
    BY DEF RezoneJobs
<1> HIDE DEF new
<1>3. needs \in SUBSET Slots
    OBVIOUS
<1> HIDE DEF needs
<1>4. Serves(new, EmitJobs(new, needs), s)
    BY <1>1, <1>3, EmittedForAll
<1> QED
    BY <1>2, <1>4 DEF new

(* A shift asks for every slot it leaves waiting, but for those it carries. *)
LEMMA ShiftedServed ==
    ASSUME NEW g, NEW dx, NEW dy, NEW s \in Slots \ Carried(g, dx, dy),
           ShiftedGrid(g, dx, dy).slots[s].state = "PENDING"
    PROVE  Serves(ShiftedGrid(g, dx, dy), ShiftJobs(g, dx, dy), s)
<1> DEFINE new == ShiftedGrid(g, dx, dy)
           needs == {t \in Slots \ Carried(g, dx, dy) :
                        new.slots[t].state # "NODATA"}
<1>1. ShiftJobs(g, dx, dy) = EmitJobs(new, needs)
    BY DEF ShiftJobs
<1> HIDE DEF new
<1>2. s \in needs
    BY DEF new
<1>3. needs \in SUBSET Slots
    OBVIOUS
<1> HIDE DEF needs
<1>4. Serves(new, EmitJobs(new, needs), s)
    BY <1>2, <1>3, EmittedForAll
<1> QED
    BY <1>1, <1>4 DEF new

(* The tile of a slot is asked for again under the same name. *)
LEMMA ServedElsewhere ==
    ASSUME NEW g, NEW new, NEW q, NEW s \in Slots, Serves(g, q, s),
           new.generation = g.generation, new.slots[s].id = g.slots[s].id
    PROVE  Serves(new, q, s)
BY DEF Serves, Accepts

(* A job of another slot, or of none, serves no one. *)
LEMMA ServedByOne ==
    ASSUME NEW g, NEW job, NEW s \in Slots, Serves(g, <<job>>, s)
    PROVE  job.slot = s /\ Accepts(g, job)
BY Single DEF Serves

LEMMA NoneServed == \A g, s : ~Serves(g, <<>>, s)
BY DEF Serves

(* Only the front of the queue is lost when a job is taken. *)
LEMMA OverviewBeside ==
    ASSUME NEW g, NEW s, NEW job \in QueuedJob, TypeInv,
           SendFront(job) \/ SendBack(job), Serves(g, jobs, s)
    PROVE  Serves(g, jobs', s)
BY QueueTypes, ServedByLonger DEF SendFront, SendBack

LEMMA IdleFields ==
    /\ UiIdle.op = "none"
    /\ \A pc, op : /\ [UiIdle EXCEPT !.pc = pc, !.op = op].pc = pc
                   /\ [UiIdle EXCEPT !.pc = pc, !.op = op].op = op
                   /\ [UiIdle EXCEPT !.pc = pc, !.op = op].jobs = <<>>
BY DEF UiIdle

(* What the tasks hold. *)
LEMMA HandsStep ==
    ASSUME "screen" \notin Ops, TypeInv, HandsInv, [Next]_vars
    PROVE  HandsInv'
<1>1. ~ScreenOff /\ ~ScreenOn /\ ~RequeueUndrawn /\ ~StartFetch /\ ~EndFetch
    BY DEF ScreenOff, ScreenOn, RequeueUndrawn, StartFetch, EndFetch, Begin,
           HandsInv
<1>2. ASSUME NEW rest, GoOn(rest)
      PROVE  \/ ui' = UiIdle
             \/ ui'.pc = "sending"
    BY <1>2 DEF GoOn, Finish, TypeInv, TypeOK
<1>3. CASE UiStarts
    <2>1. wk' = wk /\ visible' = visible
        BY <1>1, <1>3
        DEF UiStarts, Recentre, Shift, Restyle, RequestPlaces,
            RetryOverview, PickUnpainted, CheckReady, modeVars
    <2>2. \/ ui' = ui
          \/ ui'.pc = "overview"
          \/ ui'.pc \in {"restyled", "picked", "ready"} /\ ui'.jobs = <<>>
        <3>1. CASE \/ \E origin \in Origins : Recentre(origin)
                   \/ \E d \in Shifts : Shift(d[1], d[2])
            BY <3>1, IdleTypes DEF Recentre, Shift, Relayout
        <3>2. CASE Restyle
            BY <3>2, IdleFields DEF Restyle
        <3>3. CASE PickUnpainted
            <4> DEFINE s == Nth({t \in Slots : WantsFill(grid.slots[t].state)},
                                RowMajor, 0)
            <4>1. ui' = [UiIdle EXCEPT !.pc = "picked", !.op = "fill",
                            !.slot = s, !.was = grid.slots[s].state,
                            !.buffer = grid.slots[s].pixels]
                BY <3>3 DEF PickUnpainted
            <4> HIDE DEF s
            <4> QED
                BY <4>1 DEF UiIdle
        <3>4. CASE \E s \in Slots : CheckReady(s)
            BY <3>4 DEF CheckReady, UiIdle
        <3> QED
            BY <1>1, <1>3, <3>1, <3>2, <3>3, <3>4
            DEF UiStarts, RequestPlaces, RetryOverview
    <2> QED
        BY <2>1, <2>2 DEF HandsInv, DrawingStates
<1>4. CASE UiContinues
    <2>1. wk' = wk /\ visible' = visible
        BY <1>1, <1>4
        DEF UiContinues, RestyleGrid, InvalidateCoarse, EnsureCoarse,
            Enqueue, DrainAndRetry, BeginFill, EndFill, GiveUpFill,
            BeginLabels, EndLabels, modeVars
    <2>2. \/ ui' = UiIdle
          \/ ui'.pc \in {"invalidate", "overview", "sending", "draining"}
          \/ ui'.pc \in DrawingStates /\ ui.pc \in DrawingStates
             /\ ui'.jobs = ui.jobs
        <3>1. CASE RestyleGrid
            BY <3>1, IdleTypes DEF RestyleGrid, Relayout
        <3>2. CASE InvalidateCoarse
            BY <3>2 DEF InvalidateCoarse, TypeInv, TypeOK
        <3>3. CASE EnsureCoarse \/ DrainAndRetry
            BY <1>2, <3>3 DEF EnsureCoarse, DrainAndRetry
        <3>4. CASE Enqueue
            BY <1>2, <3>4 DEF Enqueue, TypeInv, TypeOK
        <3>5. CASE BeginFill \/ BeginLabels
            BY <3>5
            DEF BeginFill, BeginLabels, DrawingStates, TypeInv, TypeOK
        <3> QED
            BY <1>1, <1>4, <3>1, <3>2, <3>3, <3>4, <3>5
            DEF UiContinues, EndFill, GiveUpFill, EndLabels
    <2> QED
        BY <2>1, <2>2, IdleHasNoJobs, IdleFields DEF HandsInv, DrawingStates
<1>5. CASE Worker
    <2>1. ui' = ui /\ visible' = visible
        BY <1>5
        DEF Worker, TakeJob, TakeOverview, EndOverview, DropStale,
            StartFetch, EndFetch, StartRender, CommitRender, CommitFailure,
            modeVars
    <2>2. \/ wk'.pc = "overview" /\ wk'.job.slot = OVERVIEW_SLOT
          \/ wk'.pc \in {"idle", "check", "render", "commit"}
        <3>1. CASE TakeJob
            BY <3>1 DEF TakeJob, WkIdle
        <3>2. CASE TakeOverview
            BY <3>2 DEF TakeOverview
        <3>3. CASE StartRender
            BY <3>3 DEF StartRender, TypeInv, TypeOK
        <3> QED
            BY <1>1, <1>5, <3>1, <3>2, <3>3
            DEF Worker, EndOverview, DropStale, CommitRender,
                CommitFailure, WkIdle
    <2> QED
        BY <2>1, <2>2 DEF HandsInv
<1>6. CASE UNCHANGED vars
    BY <1>6 DEF vars, modeVars, HandsInv
<1> QED
    BY <1>3, <1>4, <1>5, <1>6 DEF Next

(* Steps that leave the queue, the jobs to be sent and the one in hand.    *)
LEMMA ServedStays ==
    ASSUME AllServed, UNCHANGED <<jobs, InHand>>, ui'.jobs = ui.jobs,
           grid'.generation = grid.generation,
           \A s \in Slots :
                /\ grid'.slots[s].id = grid.slots[s].id
                /\ grid'.slots[s].state = "PENDING"
                        => grid.slots[s].state = "PENDING"
    PROVE  AllServed'
<1>1. ASSUME NEW s \in Slots, grid'.slots[s].state = "PENDING"
      PROVE  Served(grid', jobs, ui.jobs, InHand, s)
    <2>1. Served(grid, jobs, ui.jobs, InHand, s)
        BY <1>1 DEF AllServed
    <2>2. \A q : Serves(grid, q, s) => Serves(grid', q, s)
        BY ServedElsewhere
    <2> QED
        BY <2>1, <2>2 DEF Served
<1> QED
    BY <1>1 DEF AllServed

(* A layout asks for every slot it leaves waiting. *)
LEMMA ServedRelaid ==
    ASSUME NEW origin, grid' = RezonedGrid(grid, origin),
           ui'.jobs = RezoneJobs(grid, origin)
    PROVE  AllServed'
<1>1. ASSUME NEW s \in Slots, grid'.slots[s].state = "PENDING"
      PROVE  Serves(grid', ui'.jobs, s)
    BY <1>1, RezonedServed
<1> QED
    BY <1>1 DEF AllServed, Served

LEMMA ServedShifted ==
    ASSUME TypeInv, [DriftsAnswered]_vars, NEW d \in Shifts, Shift(d[1], d[2])
    PROVE  AllServed'
<1>1. /\ grid' = ShiftedGrid(grid, d[1], d[2])
      /\ ui'.jobs = ShiftJobs(grid, d[1], d[2]) /\ ui'.op = "shift"
    BY IdleTypes DEF Shift, Relayout, UiIdle
<1>2. grid'.generation # grid.generation
    <2>1. grid'.generation = grid.generation + 1
        BY <1>1 DEF ShiftedGrid
    <2> QED
        BY <2>1, QueueTypes DEF Grid
<1>3. DriftsAnswered
    BY <1>2 DEF vars, gridVars
<1>4. ASSUME NEW s \in Slots, grid'.slots[s].state = "PENDING"
      PROVE  Serves(grid', ui'.jobs, s)
    <2>1. CASE s \in Carried(grid, d[1], d[2])
        <3>1. /\ grid'.slots[s] = grid.slots[Source(s, d[1], d[2])]
              /\ Source(s, d[1], d[2]) \in Slots
            BY <1>1, <2>1 DEF ShiftedGrid, Carried
        <3> QED
            BY <1>1, <1>2, <1>3, <1>4, <3>1 DEF DriftsAnswered
    <2>2. CASE s \notin Carried(grid, d[1], d[2])
        BY <1>1, <1>4, <2>2, ShiftedServed
    <2> QED
        BY <2>1, <2>2
<1> QED
    BY <1>4 DEF AllServed, Served

(* A job is added to the queue, or moves from the UI task into it. *)
LEMMA ServedSent ==
    ASSUME AllServed, UNCHANGED <<grid, InHand>>,
           \A s \in Slots :
                Serves(grid, jobs, s) \/ Serves(grid, ui.jobs, s)
                    => Serves(grid, jobs', s) \/ Serves(grid, ui'.jobs, s)
    PROVE  AllServed'
BY DEF AllServed, Served

LEMMA WaitingUi ==
    ASSUME "screen" \notin Ops, TypeInv, WaitingInv, [DriftsAnswered]_vars,
           ui.pc # "draining", UiStarts \/ UiContinues
    PROVE  Centring' => AllServed'
<1>1. /\ ~ScreenOff /\ ~ScreenOn /\ ~RequeueUndrawn /\ ~DrainAndRetry
      /\ \A d \in Shifts : Shift(d[1], d[2]) => AllServed'
    BY ServedShifted
    DEF ScreenOff, ScreenOn, RequeueUndrawn, DrainAndRetry, Begin,
        WaitingInv, HandsInv
<1>2. InHand' = InHand
    <2>1. wk' = wk
        BY DEF UiStarts, Recentre, Shift, Restyle, ScreenOff, ScreenOn,
           RequestPlaces, RetryOverview, PickUnpainted, CheckReady,
           UiContinues, RestyleGrid, InvalidateCoarse, RequeueUndrawn,
           EnsureCoarse, Enqueue, DrainAndRetry, BeginFill, EndFill,
           GiveUpFill, BeginLabels, EndLabels
    <2> QED
        BY <2>1 DEF InHand
<1>3. ASSUME Centring => AllServed,
             (Centring' => Centring) \/ AllServed,
             UNCHANGED jobs, ui'.jobs = ui.jobs,
             grid'.generation = grid.generation,
             \A s \in Slots :
                /\ grid'.slots[s].id = grid.slots[s].id
                /\ grid'.slots[s].state = "PENDING"
                        => grid.slots[s].state = "PENDING"
      PROVE  Centring' => AllServed'
    BY <1>2, <1>3, ServedStays
<1>4. ASSUME NEW origin \in Origins, Recentre(origin)
      PROVE  AllServed'
    <2>1. /\ grid' = RezonedGrid(grid, origin)
          /\ ui'.jobs = RezoneJobs(grid, origin)
        BY <1>4, IdleTypes DEF Recentre, Relayout
    <2> QED
        BY <2>1, ServedRelaid
<1>5. CASE RestyleGrid
    <2>1. /\ grid' = RezonedGrid(grid, grid.origin)
          /\ ui'.jobs = RezoneJobs(grid, grid.origin)
        BY <1>5, IdleTypes DEF RestyleGrid, Relayout
    <2> QED
        BY <2>1, ServedRelaid
<1>6. CASE Restyle \/ PickUnpainted \/ \E s \in Slots : CheckReady(s)
    <2>1. /\ UNCHANGED <<grid, jobs, centred>> /\ ui.jobs = <<>>
        BY <1>6
        DEF Restyle, PickUnpainted, CheckReady, Drawing, Begin, gridVars,
            modeVars, WaitingInv, HandsInv
    <2>2. ui'.jobs = <<>> /\ ui'.op # "recentre"
        <3>1. CASE PickUnpainted
            <4> DEFINE s == Nth({t \in Slots : WantsFill(grid.slots[t].state)},
                                RowMajor, 0)
            <4>1. ui' = [UiIdle EXCEPT !.pc = "picked", !.op = "fill",
                            !.slot = s, !.was = grid.slots[s].state,
                            !.buffer = grid.slots[s].pixels]
                BY <3>1 DEF PickUnpainted
            <4> HIDE DEF s
            <4> QED
                BY <4>1 DEF UiIdle
        <3> QED
            BY <1>6, <3>1 DEF Restyle, CheckReady, UiIdle
    <2>3. Centring' => Centring
        BY <2>1, <2>2 DEF Centring
    <2> QED
        BY <1>3, <2>1, <2>2, <2>3 DEF WaitingInv
<1>7. CASE InvalidateCoarse
    <2>1. CASE centred
        <3>1. UNCHANGED <<grid, jobs, centred>> /\ ui'.jobs = ui.jobs
              /\ ui'.op = ui.op
            BY <1>7, <2>1 DEF InvalidateCoarse, gridVars, modeVars, TypeInv, TypeOK
        <3>2. Centring' => Centring
            BY <3>1 DEF Centring
        <3> QED
            BY <1>3, <3>1, <3>2 DEF WaitingInv
    <2>2. CASE ~centred
        BY <1>7, <2>2, IdleFields DEF InvalidateCoarse, modeVars, Centring
    <2> QED
        BY <2>1, <2>2
<1>8. CASE BeginFill \/ BeginLabels
    <2>1. UNCHANGED <<grid, jobs, centred>> /\ ui'.jobs = ui.jobs
          /\ ui'.op = ui.op
        BY <1>8 DEF BeginFill, BeginLabels, gridVars, modeVars, TypeInv, TypeOK
    <2>2. Centring' => Centring
        BY <2>1 DEF Centring
    <2> QED
        BY <1>3, <2>1, <2>2 DEF WaitingInv
<1>9. CASE EndFill \/ GiveUpFill \/ EndLabels
    <2>1. UNCHANGED <<jobs, centred>> /\ ui' = UiIdle /\ ui.jobs = <<>>
        BY <1>9
        DEF EndFill, GiveUpFill, EndLabels, modeVars, WaitingInv, HandsInv,
            DrawingStates
    <2>2. /\ ui'.jobs = ui.jobs
          /\ Centring' => Centring
        BY <2>1, IdleFields, IdleHasNoJobs DEF Centring
    <2>3. /\ grid'.generation = grid.generation
          /\ \A s \in Slots :
                /\ grid'.slots[s].id = grid.slots[s].id
                /\ grid'.slots[s].state = "PENDING"
                        => grid.slots[s].state = "PENDING"
        <3>1. \/ grid' = grid
              \/ \E state \in {"COARSE", "EMPTY"} :
                    grid' = [grid EXCEPT !.slots[ui.slot].state = state]
            BY <1>9 DEF EndFill, GiveUpFill, EndLabels, gridVars
        <3>2. ASSUME NEW state \in {"COARSE", "EMPTY"},
                     grid' = [grid EXCEPT !.slots[ui.slot].state = state]
              PROVE  /\ grid'.generation = grid.generation
                     /\ \A s \in Slots :
                        /\ grid'.slots[s].id = grid.slots[s].id
                        /\ grid'.slots[s].state = "PENDING"
                                => grid.slots[s].state = "PENDING"
            <4>1. /\ grid'.generation = grid.generation
                  /\ \A s \in Slots : grid'.slots[s].id = grid.slots[s].id
                BY <3>2, QueueTypes, MarkedKeeps
            <4>2. ASSUME NEW s \in Slots, grid'.slots[s].state = "PENDING"
                  PROVE  grid.slots[s].state = "PENDING"
                <5>1. CASE s = ui.slot
                    <6>1. grid'.slots[s].state = state
                        BY <3>2, <5>1, QueueTypes DEF Grid, Slot
                    <6> QED
                        BY <4>2, <6>1
                <5>2. CASE s # ui.slot
                    BY <3>2, <4>2, <5>2, QueueTypes DEF Grid, Slot
                <5> QED
                    BY <5>1, <5>2
            <4> QED
                BY <4>1, <4>2
        <3> QED
            BY <3>1, <3>2
    <2> QED
        BY <1>3, <2>1, <2>2, <2>3 DEF WaitingInv
<1>10. ASSUME NEW rest, GoOn(rest), UNCHANGED grid,
              \A s \in Slots :
                Serves(grid, jobs, s) \/ Serves(grid, ui.jobs, s)
                    => Serves(grid, jobs', s) \/ Serves(grid, rest, s)
       PROVE  Centring' => AllServed'
    <2>1. ui'.jobs = rest /\ (Centring' => Centring)
        <3>1. CASE rest = <<>>
            BY <1>10, <3>1, IdleHasNoJobs, IdleFields
            DEF GoOn, Finish, Centring
        <3>2. CASE rest # <<>>
            BY <1>10, <3>2 DEF GoOn, Centring, TypeInv, TypeOK
        <3> QED
            BY <3>1, <3>2
    <2> QED
        BY <1>2, <1>10, <2>1, ServedSent DEF WaitingInv
<1>11. CASE EnsureCoarse
    <2>1. GoOn(ui.jobs) /\ grid' = grid
        BY <1>11 DEF EnsureCoarse, gridVars
    <2>2. OverviewJob(CoarseOf(grid.origin)) \in QueuedJob
        BY QueueTypes, CoarseOfType, OverviewJobType DEF Grid
    <2>3. \/ jobs' = jobs
          \/ SendFront(OverviewJob(CoarseOf(grid.origin)))
          \/ SendBack(OverviewJob(CoarseOf(grid.origin)))
        BY <1>11 DEF EnsureCoarse
    <2>4. \A s \in Slots : Serves(grid, jobs, s) => Serves(grid, jobs', s)
        BY <2>2, <2>3, OverviewBeside
    <2> QED
        BY <1>10, <2>1, <2>4
<1>12. CASE Enqueue
    <2>1. CASE Room
        <3>1. /\ ui.jobs # <<>> /\ jobs' = Append(jobs, Head(ui.jobs))
              /\ GoOn(Tail(ui.jobs)) /\ grid' = grid
            BY <1>12, <2>1 DEF Enqueue, gridVars, TypeInv, Sendable
        <3>2. Head(ui.jobs) \in QueuedJob
            BY <3>1, QueueTypes, HeadTailProperties
        <3>3. \A s \in Slots :
                Serves(grid, jobs, s) \/ Serves(grid, ui.jobs, s)
                    => Serves(grid, jobs', s) \/ Serves(grid, Tail(ui.jobs), s)
            BY <3>1, <3>2, QueueTypes, ServedByLonger, ServedByTail
        <3> QED
            BY <1>10, <3>1, <3>3
    <2>2. CASE ~Room
        <3>1. UNCHANGED <<grid, jobs, centred>> /\ ui'.jobs = ui.jobs
              /\ ui'.op = ui.op
            BY <1>12, <2>2 DEF Enqueue, gridVars, TypeInv, TypeOK
        <3>2. Centring' => Centring
            BY <3>1 DEF Centring
        <3> QED
            BY <1>3, <3>1, <3>2 DEF WaitingInv
    <2> QED
        BY <2>1, <2>2
<1>13. CASE RequestPlaces \/ RetryOverview
    <2>1. UNCHANGED <<grid, ui, centred>>
        BY <1>13 DEF RequestPlaces, RetryOverview, gridVars, modeVars
    <2>2. \A s \in Slots : Serves(grid, jobs, s) => Serves(grid, jobs', s)
        <3>1. CASE RequestPlaces
            <4> DEFINE job == [id |-> NoId, slot |-> PLACE_SLOT, generation |-> 0]
            <4>1. job \in QueuedJob
                BY BufferFacts, NoIdType DEF QueuedJob
            <4>2. SendBack(job)
                BY <3>1 DEF RequestPlaces
            <4> HIDE DEF job
            <4> QED
                BY <4>1, <4>2, OverviewBeside
        <3>2. CASE RetryOverview
            <4>1. coarse.want \in TileId /\ SendFront(OverviewJob(coarse.want))
                BY <3>2 DEF RetryOverview, TypeInv, RetryNamed
            <4> QED
                BY <4>1, OverviewJobType, OverviewBeside
        <3> QED
            BY <1>13, <3>1, <3>2
    <2>3. Centring' => Centring
        BY <2>1 DEF Centring
    <2> QED
        BY <1>2, <2>1, <2>2, <2>3, ServedSent DEF WaitingInv
<1> QED
    BY <1>1, <1>4, <1>5, <1>6, <1>7, <1>8, <1>9, <1>11, <1>12, <1>13
    DEF UiStarts, UiContinues

(* The worker fills the slot its job was for, or drops a job that no slot  *)
(* is waiting for.                                                         *)
LEMMA WaitingWorker ==
    ASSUME TypeInv, WorkerInv, WaitingInv, Worker
    PROVE  Centring' => AllServed'
<1>1. UNCHANGED <<ui, centred>>
    BY DEF Worker, TakeJob, TakeOverview, EndOverview, DropStale, StartFetch,
       EndFetch, StartRender, CommitRender, CommitFailure, modeVars
<1>2. SUFFICES ASSUME AllServed PROVE AllServed'
    BY <1>1 DEF Centring, WaitingInv
<1>3. CASE TakeJob \/ TakeOverview
    <2>1. jobs # <<>> /\ jobs' = Tail(jobs) /\ grid' = grid /\ InHand = <<>>
        BY <1>3 DEF TakeJob, TakeOverview, gridVars, InHand
    <2>2. ASSUME NEW s \in Slots, Serves(grid, <<Head(jobs)>>, s)
          PROVE  Serves(grid, InHand', s)
        <3>1. Head(jobs).slot \in Slots
            BY <2>2, ServedByOne
        <3>2. Head(jobs).slot # PLACE_SLOT
            BY <3>1, GridAssumption DEF PLACE_SLOT, Slots
        <3>3. wk'.pc # "idle" /\ wk'.job = Head(jobs)
            <4>1. CASE TakeJob
                BY <3>2, <4>1 DEF TakeJob, WkIdle
            <4>2. CASE TakeOverview
                BY <4>2 DEF TakeOverview
            <4> QED
                BY <1>3, <4>1, <4>2
        <3>4. InHand' = <<Head(jobs)>>
            BY <3>3 DEF InHand
        <3> QED
            BY <2>2, <3>4
    <2>3. \A s \in Slots : Serves(grid, jobs, s) =>
                Serves(grid, jobs', s) \/ Serves(grid, InHand', s)
        BY <2>1, <2>2, QueueTypes, ServedByTail
    <2>4. \A s \in Slots : ~Serves(grid, InHand, s)
        BY <2>1, NoneServed
    <2> QED
        BY <1>1, <1>2, <2>1, <2>3, <2>4 DEF AllServed, Served
<1>4. CASE EndOverview \/ DropStale
    <2>1. UNCHANGED <<grid, jobs>> /\ InHand = <<wk.job>>
        BY <1>4 DEF EndOverview, DropStale, gridVars, InHand
    <2>2. ~Accepts(grid, wk.job)
        <3>1. CASE EndOverview
            <4>1. wk.job.slot = OVERVIEW_SLOT
                BY <3>1 DEF EndOverview, WaitingInv, HandsInv
            <4> QED
                BY <4>1, GridAssumption DEF OVERVIEW_SLOT, Slots, Accepts
        <3>2. CASE DropStale
            BY <3>2 DEF DropStale, Accepts
        <3> QED
            BY <1>4, <3>1, <3>2
    <2>3. \A s \in Slots : ~Serves(grid, InHand, s)
        BY <2>1, <2>2, ServedByOne
    <2> QED
        BY <1>1, <1>2, <2>1, <2>3 DEF AllServed, Served
<1>5. CASE StartFetch \/ StartRender
    <2>1. UNCHANGED <<grid, jobs>> /\ InHand' = InHand
        BY <1>5
        DEF StartFetch, StartRender, gridVars, InHand, TypeInv, TypeOK
    <2> QED
        BY <1>1, <1>2, <2>1, ServedStays
<1>6. CASE EndFetch \/ CommitFailure \/ CommitRender
    <2>1. ~EndFetch
        BY DEF EndFetch, WaitingInv, HandsInv
    <2>2. /\ jobs' = jobs /\ InHand = <<wk.job>>
          /\ \E result \in {"READY", "NODATA", "ERROR"} :
                \/ grid' = Commit(grid, wk.job, result)
                \/ grid' = CommitSwap(grid, wk.job, result, spare)
        BY <1>6, <2>1
        DEF CommitFailure, CommitRender, InHand, TypeInv, TypeOK
    <2>3. PICK result \in {"READY", "NODATA", "ERROR"} :
                \/ grid' = Commit(grid, wk.job, result)
                \/ grid' = CommitSwap(grid, wk.job, result, spare)
        BY <2>2
    <2>4. /\ grid'.generation = grid.generation
          /\ \A s \in Slots : grid'.slots[s].id = grid.slots[s].id
        BY <2>3, QueueTypes, CommitKeeps, CommitSwapKeeps
    <2>5. ASSUME NEW s \in Slots, grid'.slots[s].state = "PENDING"
          PROVE  /\ grid.slots[s].state = "PENDING"
                 /\ ~(Accepts(grid, wk.job) /\ s = wk.job.slot)
        <3>1. CASE Accepts(grid, wk.job) /\ s = wk.job.slot
            <4>1. grid'.slots[s].state = result
                <5>1. CASE grid' = Commit(grid, wk.job, result)
                    BY <3>1, <5>1, QueueTypes DEF Commit, Grid, Slot
                <5>2. CASE grid' = CommitSwap(grid, wk.job, result, spare)
                    BY <3>1, <5>2, QueueTypes DEF CommitSwap, Grid, Slot
                <5> QED
                    BY <2>3, <5>1, <5>2
            <4> QED
                BY <2>3, <2>5, <4>1
        <3>2. CASE ~(Accepts(grid, wk.job) /\ s = wk.job.slot)
            <4>1. grid'.slots[s].state = grid.slots[s].state
                BY <2>3, <3>2, QueueTypes
                DEF Commit, CommitSwap, Accepts, Grid, Slot
            <4> QED
                BY <2>5, <3>2, <4>1
        <3> QED
            BY <3>1, <3>2
    <2>6. ASSUME NEW s \in Slots, grid'.slots[s].state = "PENDING"
          PROVE  Serves(grid, jobs, s) \/ Serves(grid, ui.jobs, s)
        <3>1. Served(grid, jobs, ui.jobs, InHand, s)
            BY <1>2, <2>5, <2>6 DEF AllServed
        <3>2. ~Serves(grid, InHand, s)
            BY <2>2, <2>5, <2>6, ServedByOne
        <3> QED
            BY <3>1, <3>2 DEF Served
    <2>7. ASSUME NEW s \in Slots, NEW q, Serves(grid, q, s)
          PROVE  Serves(grid', q, s)
        BY <2>4, <2>7, ServedElsewhere
    <2> QED
        BY <1>1, <2>2, <2>6, <2>7 DEF AllServed, Served
<1> QED
    BY <1>3, <1>4, <1>5, <1>6 DEF Worker

(* enqueue does not find the queue full. *)
QueueHolds == ui.pc # "draining"

LEMMA WaitingStep ==
    ASSUME "screen" \notin Ops, TypeInv, WorkerInv, WaitingInv, QueueHolds,
           [DriftsAnswered]_vars, [Next]_vars
    PROVE  WaitingInv'
<1>1. CASE UNCHANGED vars
    BY <1>1
    DEF vars, gridVars, modeVars, WaitingInv, HandsInv, Centring, AllServed,
        InHand
<1>2. CASE Next
    BY <1>2, HandsStep, WaitingUi, WaitingWorker DEF Next, WaitingInv, QueueHolds
<1> QED
    BY <1>1, <1>2

LEMMA ServedHasJob ==
    ASSUME TypeInv, NEW s \in Slots, Served(grid, jobs, ui.jobs, InHand, s)
    PROVE  LiveJobs(s) # {}
<1>1. CASE Serves(grid, jobs, s)
    BY <1>1 DEF Serves, LiveJobs, Outstanding
<1>2. CASE Serves(grid, ui.jobs, s)
    BY <1>2 DEF Serves, LiveJobs, Outstanding
<1>3. CASE Serves(grid, InHand, s)
    <2>1. wk.pc # "idle" /\ InHand = <<wk.job>>
        BY <1>3, NoneServed DEF InHand
    <2>2. wk.job.slot = s /\ Accepts(grid, wk.job)
        BY <1>3, <2>1, ServedByOne
    <2> QED
        BY <2>1, <2>2 DEF LiveJobs, Outstanding
<1> QED
    BY <1>1, <1>2, <1>3 DEF Served

(* What the window promises the eye: a slot that waits for its tile has a  *)
(* job that neither the worker nor the commit will turn away - for every   *)
(* window, queue and order of the two tasks.  It takes three things for a  *)
(* slot to be forgotten: a drift that carries a waiting slot to a new      *)
(* layout, a screen that goes dark, or a queue that enqueue finds full.    *)
(* None of the three is here, and without them there is no fourth: drifts  *)
(* of tiles that have been answered do no harm.                            *)
THEOREM WaitingSlotsHaveJobs ==
    ASSUME "screen" \notin Ops
    PROVE  Spec /\ [][DriftsAnswered]_vars /\ []QueueHolds => []PendingHasJob
<1>1. Init => WaitingInv
    BY IdleHasNoJobs, IdleFields
    DEF Init, WaitingInv, HandsInv, Centring, DrawingStates, UiIdle, WkIdle
<1>2. /\ TypeInv /\ WorkerInv /\ WaitingInv /\ QueueHolds
            /\ [DriftsAnswered]_vars /\ [Next]_vars => WaitingInv'
      /\ TypeInv /\ WorkerInv /\ [Next]_vars => TypeInv' /\ WorkerInv'
    BY WaitingStep, TypeStep, WorkerStep
<1>3. TypeInv /\ WaitingInv => PendingHasJob
    BY ServedHasJob DEF WaitingInv, AllServed, Centring, PendingHasJob
<1> QED
    BY <1>1, <1>2, <1>3, TypeInit, WorkerInit, PTL DEF Spec

-----------------------------------------------------------------------------
(* A queue with room for what a layout asks for. *)

(* What one layout asks for: a job for each slot, and the overview. *)
LayoutJobs == Cardinality(Slots) + 1

Counted(condition) == IF condition THEN 1 ELSE 0

(* Jobs in the queue, jobs to be sent, and overview jobs that may follow:  *)
(* the layout's own, and another attempt at one that is being painted or   *)
(* has failed.                                                             *)
OverviewDue    == Counted(ui.pc \in {"invalidate", "overview"})
OverviewAgain  == Counted(coarse.retry)
OverviewInHand == Counted(wk.pc = "overview")

Load ==
    Len(jobs) + Len(ui.jobs) + OverviewDue + OverviewAgain + OverviewInHand

LoadInv == Load <= QUEUE_LEN /\ QueueHolds

(* A step that lays the window out finds the worker no further behind than  *)
(* the queue is longer than a layout: by 27 jobs, for a queue of 32 and 2   *)
(* by 2 slots, whatever layouts they are of.                                *)
BegunWithRoom ==
    grid'.generation # grid.generation => Load + LayoutJobs <= QUEUE_LEN

LEMMA LayoutSize ==
    /\ LayoutJobs \in Nat
    /\ \A g, origin : Len(RezoneJobs(g, origin)) + 1 <= LayoutJobs
    /\ \A g, dx, dy : Len(ShiftJobs(g, dx, dy)) + 1 <= LayoutJobs
<1>1. /\ Cardinality(Slots) \in Nat
      /\ \A needs \in SUBSET Slots :
            Cardinality(needs) \in Nat /\ Cardinality(needs) <= Cardinality(Slots)
    BY SlotsFinite, FS_Subset, FS_CardinalityType
<1>2. ASSUME NEW g, NEW needs \in SUBSET Slots
      PROVE  Len(EmitJobs(g, needs)) + 1 <= LayoutJobs
    <2>1. Len(EmitJobs(g, needs)) = Cardinality(needs)
        BY <1>1 DEF EmitJobs
    <2> QED
        BY <1>1, <2>1 DEF LayoutJobs
<1>3. ASSUME NEW g, NEW origin
      PROVE  Len(RezoneJobs(g, origin)) + 1 <= LayoutJobs
    <2> DEFINE new == RezonedGrid(g, origin)
               needs == {t \in Slots : OnWorld(new.slots[t].id)}
    <2>1. RezoneJobs(g, origin) = EmitJobs(new, needs)
        BY DEF RezoneJobs
    <2>2. needs \in SUBSET Slots
        OBVIOUS
    <2> HIDE DEF new, needs
    <2> QED
        BY <1>2, <2>1, <2>2
<1>4. ASSUME NEW g, NEW dx, NEW dy
      PROVE  Len(ShiftJobs(g, dx, dy)) + 1 <= LayoutJobs
    <2> DEFINE new == ShiftedGrid(g, dx, dy)
               needs == {s \in Slots \ Carried(g, dx, dy) :
                            new.slots[s].state # "NODATA"}
    <2>1. ShiftJobs(g, dx, dy) = EmitJobs(new, needs)
        BY DEF ShiftJobs
    <2>2. needs \in SUBSET Slots
        OBVIOUS
    <2> HIDE DEF new, needs
    <2> QED
        BY <1>2, <2>1, <2>2
<1> QED
    BY <1>1, <1>3, <1>4 DEF LayoutJobs

LEMMA LoadParts ==
    ASSUME TypeInv
    PROVE  /\ Len(jobs) \in Nat /\ Len(ui.jobs) \in Nat
           /\ jobs # <<>> => Len(Tail(jobs)) = Len(jobs) - 1
           /\ ui.jobs # <<>> => /\ Len(Tail(ui.jobs)) = Len(ui.jobs) - 1
                                /\ Head(ui.jobs) \in QueuedJob
           /\ \A job \in QueuedJob :
                /\ Len(Append(jobs, job)) = Len(jobs) + 1
                /\ Len(<<job>> \o jobs) = Len(jobs) + 1
<1>1. ASSUME NEW job \in QueuedJob
      PROVE  Len(<<job>> \o jobs) = Len(jobs) + 1
    <2>1. <<job>> \in Seq(QueuedJob) /\ Len(<<job>>) = 1
        OBVIOUS
    <2>2. Len(<<job>> \o jobs) = Len(<<job>>) + Len(jobs)
        BY <2>1, QueueTypes, ConcatProperties
    <2> QED
        BY <2>1, <2>2, QueueTypes, LenProperties
<1> QED
    BY <1>1, QueueTypes, LenProperties, HeadTailProperties, AppendProperties

LEMMA OverviewParts ==
    /\ OverviewDue \in {0, 1} /\ OverviewAgain \in {0, 1}
    /\ OverviewInHand \in {0, 1}
BY DEF OverviewDue, OverviewAgain, OverviewInHand, Counted

(* What a step of the UI task adds to the load. *)
LEMMA LoadUi ==
    ASSUME "screen" \notin Ops, "places" \notin Ops,
           TypeInv, TypeInv', HandsInv, QueueHolds, UiStarts \/ UiContinues
    PROVE  \/ Load' <= Load
           \/ /\ grid'.generation = grid.generation + 1
              /\ Load' <= Load + LayoutJobs
<1>1. /\ Len(jobs) \in Nat /\ Len(ui.jobs) \in Nat
      /\ Len(jobs') \in Nat /\ Len(ui'.jobs) \in Nat
      /\ OverviewDue \in {0, 1} /\ OverviewAgain \in {0, 1}
      /\ OverviewInHand \in {0, 1}
      /\ OverviewDue' \in {0, 1} /\ OverviewAgain' \in {0, 1}
      /\ OverviewInHand' \in {0, 1}
    <2>1. Len(jobs') \in Nat /\ Len(ui'.jobs) \in Nat
        BY LenProperties DEF TypeInv, TypeOK
    <2>2. OverviewDue' \in {0, 1} /\ OverviewAgain' \in {0, 1}
          /\ OverviewInHand' \in {0, 1}
        BY DEF OverviewDue, OverviewAgain, OverviewInHand, Counted
    <2> QED
        BY <2>1, <2>2, LoadParts, OverviewParts
<1>2. /\ ~ScreenOff /\ ~ScreenOn /\ ~RequeueUndrawn /\ ~DrainAndRetry
      /\ ~RequestPlaces
    BY DEF ScreenOff, ScreenOn, RequeueUndrawn, DrainAndRetry, RequestPlaces,
           Begin, HandsInv, QueueHolds
<1>3. OverviewInHand' = OverviewInHand
    <2>1. wk' = wk
        BY DEF UiStarts, Recentre, Shift, Restyle, ScreenOff, ScreenOn,
           RequestPlaces, RetryOverview, PickUnpainted, CheckReady,
           UiContinues, RestyleGrid, InvalidateCoarse, RequeueUndrawn,
           EnsureCoarse, Enqueue, DrainAndRetry, BeginFill, EndFill,
           GiveUpFill, BeginLabels, EndLabels
    <2> QED
        BY <2>1 DEF OverviewInHand
<1>4. ASSUME NEW job \in QueuedJob, SendFront(job) \/ SendBack(job)
      PROVE  Len(jobs') <= Len(jobs) + 1
    BY <1>1, <1>4, LoadParts DEF SendFront, SendBack
<1>5. ASSUME NEW rest, GoOn(rest)
      PROVE  ui'.jobs = rest /\ OverviewDue' = 0
    BY <1>5, IdleHasNoJobs
    DEF GoOn, Finish, OverviewDue, Counted, TypeInv, TypeOK
<1>6. CASE \/ \E origin \in Origins : Recentre(origin)
           \/ \E d \in Shifts : Shift(d[1], d[2])
           \/ RestyleGrid
    <2>1. UNCHANGED <<jobs, coarse>> /\ ui.jobs = <<>>
        BY <1>6
        DEF Recentre, Shift, RestyleGrid, Begin, overVars, HandsInv
    <2>2. \/ \E origin : /\ grid' = RezonedGrid(grid, origin)
                         /\ ui'.jobs = RezoneJobs(grid, origin)
          \/ \E dx, dy : /\ grid' = ShiftedGrid(grid, dx, dy)
                         /\ ui'.jobs = ShiftJobs(grid, dx, dy)
        <3>1. ASSUME NEW origin \in Origins, Recentre(origin)
              PROVE  /\ grid' = RezonedGrid(grid, origin)
                     /\ ui'.jobs = RezoneJobs(grid, origin)
            BY <3>1, IdleTypes DEF Recentre, Relayout
        <3>2. ASSUME NEW d \in Shifts, Shift(d[1], d[2])
              PROVE  /\ grid' = ShiftedGrid(grid, d[1], d[2])
                     /\ ui'.jobs = ShiftJobs(grid, d[1], d[2])
            BY <3>2, IdleTypes DEF Shift, Relayout
        <3>3. CASE RestyleGrid
            BY <3>3, IdleTypes DEF RestyleGrid, Relayout
        <3> QED
            BY <1>6, <3>1, <3>2, <3>3
    <2>3. grid'.generation = grid.generation + 1
        <3>1. /\ \A origin :
                    RezonedGrid(grid, origin).generation = grid.generation + 1
              /\ \A dx, dy :
                    ShiftedGrid(grid, dx, dy).generation = grid.generation + 1
            BY DEF RezonedGrid, ShiftedGrid
        <3> QED
            BY <2>2, <3>1
    <2>4. Len(ui'.jobs) + 1 <= LayoutJobs /\ LayoutJobs \in Nat
        BY <2>2, LayoutSize
    <2>5. OverviewAgain' = OverviewAgain /\ Len(ui.jobs) = 0
        BY <2>1, EmptySeq DEF OverviewAgain
    <2>6. Load' <= Load + LayoutJobs
        BY <1>1, <1>3, <2>1, <2>4, <2>5 DEF Load
    <2> QED
        BY <2>1, <2>3, <2>6
<1>7. CASE Restyle \/ PickUnpainted \/ \E s \in Slots : CheckReady(s)
    <2>1. /\ UNCHANGED <<jobs, coarse>> /\ ui.jobs = <<>>
        BY <1>7
        DEF Restyle, PickUnpainted, CheckReady, Drawing, Begin, overVars,
            HandsInv
    <2>2. ui'.jobs = <<>> /\ ui'.pc \in {"restyled", "picked", "ready"}
        <3>1. CASE PickUnpainted
            <4> DEFINE s == Nth({t \in Slots : WantsFill(grid.slots[t].state)},
                                RowMajor, 0)
            <4>1. ui' = [UiIdle EXCEPT !.pc = "picked", !.op = "fill",
                            !.slot = s, !.was = grid.slots[s].state,
                            !.buffer = grid.slots[s].pixels]
                BY <3>1 DEF PickUnpainted
            <4> HIDE DEF s
            <4> QED
                BY <4>1 DEF UiIdle
        <3> QED
            BY <1>7, <3>1 DEF Restyle, CheckReady, UiIdle
    <2>3. OverviewDue' = 0 /\ OverviewAgain' = OverviewAgain
        BY <2>1, <2>2 DEF OverviewDue, OverviewAgain, Counted
    <2> QED
        BY <1>1, <1>3, <2>1, <2>2, <2>3 DEF Load
<1>8. CASE InvalidateCoarse
    <2>1. /\ jobs' = jobs /\ OverviewAgain' = OverviewAgain
          /\ OverviewDue = 1
        BY <1>8
        DEF InvalidateCoarse, OverviewAgain, OverviewDue, Counted, TypeInv,
            TypeOK
    <2>2. Len(ui'.jobs) <= Len(ui.jobs)
        BY <1>1, <1>8, IdleHasNoJobs, EmptySeq
        DEF InvalidateCoarse, TypeInv, TypeOK
    <2> QED
        BY <1>1, <1>3, <2>1, <2>2 DEF Load
<1>9. CASE BeginFill \/ BeginLabels \/ EndFill \/ GiveUpFill \/ EndLabels
    <2>1. UNCHANGED <<jobs, coarse>>
        BY <1>9
        DEF BeginFill, BeginLabels, EndFill, GiveUpFill, EndLabels, overVars
    <2>2. /\ ui'.pc \in {"filling", "unfilled", "labels", "idle"}
          /\ ui'.jobs = ui.jobs \/ ui'.jobs = <<>>
        BY <1>9, IdleHasNoJobs
        DEF BeginFill, BeginLabels, EndFill, GiveUpFill, EndLabels, TypeInv,
            TypeOK
    <2>3. /\ OverviewDue' = 0 /\ OverviewAgain' = OverviewAgain
          /\ Len(ui'.jobs) <= Len(ui.jobs)
        BY <1>1, <2>1, <2>2, EmptySeq DEF OverviewDue, OverviewAgain, Counted
    <2> QED
        BY <1>1, <1>3, <2>1, <2>3 DEF Load
<1>10. CASE EnsureCoarse
    <2>1. GoOn(ui.jobs) /\ OverviewDue = 1
        BY <1>10 DEF EnsureCoarse, OverviewDue, Counted
    <2>2. /\ Len(jobs') <= Len(jobs) + 1
          /\ OverviewAgain' = OverviewAgain \/ OverviewAgain' = 0
        <3>1. OverviewJob(CoarseOf(grid.origin)) \in QueuedJob
            BY QueueTypes, CoarseOfType, OverviewJobType DEF Grid
        <3>2. CASE UNCHANGED <<jobs, coarse>>
            BY <1>1, <3>2 DEF OverviewAgain
        <3>3. CASE ~UNCHANGED <<jobs, coarse>>
            <4>1. /\ coarse' = [coarse EXCEPT !.want = CoarseOf(grid.origin),
                                              !.retry = FALSE]
                  /\ \/ SendFront(OverviewJob(CoarseOf(grid.origin)))
                     \/ SendBack(OverviewJob(CoarseOf(grid.origin)))
                BY <1>10, <3>3 DEF EnsureCoarse
            <4>2. coarse'.retry = FALSE
                BY <4>1 DEF TypeInv, TypeOK
            <4> QED
                BY <1>4, <3>1, <4>1, <4>2 DEF OverviewAgain, Counted
        <3> QED
            BY <3>2, <3>3
    <2> QED
        BY <1>1, <1>3, <1>5, <2>1, <2>2 DEF Load
<1>11. CASE Enqueue
    <2>1. ui.jobs # <<>>
        BY <1>11 DEF Enqueue, TypeInv, Sendable
    <2>2. OverviewAgain' = OverviewAgain /\ OverviewDue = 0
        BY <1>11 DEF Enqueue, overVars, OverviewAgain, OverviewDue, Counted
    <2>3. CASE Room
        <3>1. jobs' = Append(jobs, Head(ui.jobs)) /\ GoOn(Tail(ui.jobs))
            BY <1>11, <2>3 DEF Enqueue
        <3>2. /\ Len(jobs') = Len(jobs) + 1
              /\ Len(ui'.jobs) = Len(ui.jobs) - 1 /\ OverviewDue' = 0
            BY <1>5, <2>1, <3>1, LoadParts
        <3>3. Load' <= Load
            <4>1. Len(jobs') + Len(ui'.jobs) = Len(jobs) + Len(ui.jobs)
                <5>1. \A a, b \in Nat : (a + 1) + (b - 1) = a + b
                    OBVIOUS
                <5>2. Len(jobs') + Len(ui'.jobs)
                        = (Len(jobs) + 1) + (Len(ui.jobs) - 1)
                    BY <3>2
                <5> QED
                    BY <1>1, <5>1, <5>2
            <4>2. OverviewDue' = OverviewDue
                BY <2>2, <3>2
            <4> QED
                BY <1>1, <1>3, <2>2, <4>1, <4>2 DEF Load
        <3> QED
            BY <3>3
    <2>4. CASE ~Room
        <3>1. jobs' = jobs /\ ui'.jobs = ui.jobs /\ ui'.pc = "draining"
            BY <1>11, <2>4 DEF Enqueue, TypeInv, TypeOK
        <3>2. OverviewDue' = 0
            BY <3>1 DEF OverviewDue, Counted
        <3>3. Load' <= Load
            BY <1>1, <1>3, <2>2, <3>1, <3>2 DEF Load
        <3> QED
            BY <3>3
    <2> QED
        BY <2>3, <2>4
<1>12. CASE RetryOverview
    <2>1. /\ ui' = ui /\ coarse.retry /\ coarse'.retry = FALSE
          /\ coarse.want \in TileId /\ SendFront(OverviewJob(coarse.want))
        BY <1>12 DEF RetryOverview, TypeInv, TypeOK, RetryNamed
    <2>2. /\ Len(jobs') <= Len(jobs) + 1 /\ OverviewDue' = OverviewDue
          /\ OverviewAgain = 1 /\ OverviewAgain' = 0
          /\ ui'.jobs = ui.jobs
        BY <1>4, <2>1, OverviewJobType DEF OverviewDue, OverviewAgain, Counted
    <2>3. Load' <= Load
        BY <1>1, <1>3, <2>2 DEF Load
    <2> QED
        BY <2>3
<1> QED
    BY <1>2, <1>6, <1>7, <1>8, <1>9, <1>10, <1>11, <1>12
    DEF UiStarts, UiContinues

(* The worker only ever takes from it. *)
LEMMA LoadWorker ==
    ASSUME TypeInv, TypeInv', Worker
    PROVE  Load' <= Load
<1>1. /\ Len(jobs) \in Nat /\ Len(ui.jobs) \in Nat /\ Len(jobs') \in Nat
      /\ OverviewDue \in {0, 1} /\ OverviewAgain \in {0, 1}
      /\ OverviewInHand \in {0, 1} /\ OverviewAgain' \in {0, 1}
      /\ OverviewInHand' \in {0, 1}
    <2>1. Len(jobs') \in Nat
        BY LenProperties DEF TypeInv, TypeOK
    <2>2. OverviewAgain' \in {0, 1} /\ OverviewInHand' \in {0, 1}
        BY DEF OverviewAgain, OverviewInHand, Counted
    <2> QED
        BY <2>1, <2>2, LoadParts, OverviewParts
<1>2. ui'.jobs = ui.jobs /\ OverviewDue' = OverviewDue
    <2>1. ui' = ui
        BY DEF Worker, TakeJob, TakeOverview, EndOverview, DropStale,
           StartFetch, EndFetch, StartRender, CommitRender, CommitFailure
    <2> QED
        BY <2>1 DEF OverviewDue
<1>3. CASE TakeJob \/ TakeOverview
    <2>1. /\ jobs # <<>> /\ jobs' = Tail(jobs) /\ wk.pc = "idle"
          /\ coarse'.retry = coarse.retry
        BY <1>3 DEF TakeJob, TakeOverview, overVars, TypeInv, TypeOK
    <2>2. /\ Len(jobs') = Len(jobs) - 1 /\ OverviewAgain' = OverviewAgain
          /\ OverviewInHand = 0
        BY <2>1, LoadParts DEF OverviewAgain, OverviewInHand, Counted
    <2> QED
        BY <1>1, <1>2, <2>2 DEF Load
<1>4. CASE EndOverview
    <2>1. jobs' = jobs /\ wk.pc = "overview" /\ wk'.pc = "idle"
        BY <1>4 DEF EndOverview, WkIdle
    <2>2. OverviewInHand = 1 /\ OverviewInHand' = 0
        BY <2>1 DEF OverviewInHand, Counted
    <2> QED
        BY <1>1, <1>2, <2>1, <2>2 DEF Load
<1>5. CASE ~TakeJob /\ ~TakeOverview /\ ~EndOverview
    <2>1. /\ UNCHANGED <<jobs, coarse>>
          /\ wk'.pc \in {"idle", "fetch", "render", "commit"}
        <3>1. CASE StartFetch
            BY <3>1 DEF StartFetch, overVars, TypeInv, TypeOK
        <3>2. CASE StartRender
            BY <3>2 DEF StartRender, overVars, TypeInv, TypeOK
        <3> QED
            BY <1>5, <3>1, <3>2
            DEF Worker, DropStale, EndFetch, CommitRender, CommitFailure,
                overVars, WkIdle
    <2>2. OverviewAgain' = OverviewAgain /\ OverviewInHand' = 0
        BY <2>1 DEF OverviewAgain, OverviewInHand, Counted
    <2> QED
        BY <1>1, <1>2, <2>1, <2>2 DEF Load
<1> QED
    BY <1>3, <1>4, <1>5

LEMMA LoadNat == TypeInv => Load \in Nat
<1> SUFFICES ASSUME TypeInv PROVE Load \in Nat
    OBVIOUS
<1>1. /\ Len(jobs) \in Nat /\ Len(ui.jobs) \in Nat
      /\ OverviewDue \in Nat /\ OverviewAgain \in Nat /\ OverviewInHand \in Nat
    BY LoadParts, OverviewParts
<1> QED
    BY <1>1 DEF Load

(* enqueue drains only what it found full. *)
LEMMA DrainBegins ==
    ASSUME TypeInv, [Next]_vars, ui.pc # "draining", ui'.pc = "draining"
    PROVE  ui.pc = "sending" /\ ~Room
<1>1. ~UNCHANGED vars /\ ~Worker
    BY DEF vars, Worker, TakeJob, TakeOverview, EndOverview, DropStale,
       StartFetch, EndFetch, StartRender, CommitRender, CommitFailure
<1>2. ~UiStarts
    <2>1. /\ ~\E origin \in Origins : Recentre(origin)
          /\ ~\E d \in Shifts : Shift(d[1], d[2])
        BY IdleTypes DEF Recentre, Shift, Relayout
    <2>2. ~Restyle /\ ~ScreenOn /\ ~\E s \in Slots : CheckReady(s)
        BY DEF Restyle, ScreenOn, CheckReady, UiIdle
    <2>3. ~PickUnpainted
        <3> DEFINE s == Nth({t \in Slots : WantsFill(grid.slots[t].state)},
                            RowMajor, 0)
        <3>1. SUFFICES ASSUME PickUnpainted PROVE FALSE
            OBVIOUS
        <3>2. ui' = [UiIdle EXCEPT !.pc = "picked", !.op = "fill",
                        !.slot = s, !.was = grid.slots[s].state,
                        !.buffer = grid.slots[s].pixels]
            BY <3>1 DEF PickUnpainted
        <3> HIDE DEF s
        <3> QED
            BY <3>2 DEF UiIdle
    <2>4. ~ScreenOff /\ ~RequestPlaces /\ ~RetryOverview
        BY DEF ScreenOff, RequestPlaces, RetryOverview
    <2> QED
        BY <2>1, <2>2, <2>3, <2>4 DEF UiStarts
<1>3. ~RestyleGrid /\ ~InvalidateCoarse /\ ~RequeueUndrawn
    BY IdleTypes, IdleHasNoJobs
    DEF RestyleGrid, Relayout, InvalidateCoarse, RequeueUndrawn, TypeInv,
        TypeOK
<1>4. ~BeginFill /\ ~EndFill /\ ~GiveUpFill /\ ~BeginLabels /\ ~EndLabels
    BY IdleHasNoJobs
    DEF BeginFill, EndFill, GiveUpFill, BeginLabels, EndLabels, TypeInv,
        TypeOK
<1>5. \A rest : ~GoOn(rest)
    BY IdleHasNoJobs DEF GoOn, Finish, TypeInv, TypeOK
<1>6. ~EnsureCoarse /\ ~DrainAndRetry
    BY <1>5 DEF EnsureCoarse, DrainAndRetry
<1>7. Enqueue
    BY <1>1, <1>2, <1>3, <1>4, <1>6 DEF Next, UiContinues
<1> QED
    BY <1>5, <1>7 DEF Enqueue

LEMMA LoadStep ==
    ASSUME "screen" \notin Ops, "places" \notin Ops, TypeInv, TypeInv',
           HandsInv, LoadInv, [BegunWithRoom]_vars, [Next]_vars
    PROVE  LoadInv'
<1>1. /\ grid.generation \in Nat /\ LayoutJobs \in Nat
      /\ Load \in Nat /\ Load' \in Nat /\ QUEUE_LEN \in Nat
    <2>1. (TypeInv => Load \in Nat)'
        BY LoadNat, PTL
    <2> QED
        BY <2>1, LoadNat, LayoutSize, QueueTypes, EngineAssumption DEF Grid
<1>2. \/ Load' <= Load
      \/ /\ grid'.generation = grid.generation + 1
         /\ Load' <= Load + LayoutJobs
    <2>1. CASE UNCHANGED vars
        <3>1. Load' = Load
            BY <2>1
            DEF vars, gridVars, overVars, Load, OverviewDue, OverviewAgain,
                OverviewInHand
        <3> QED
            BY <1>1, <3>1
    <2> QED
        BY <2>1, LoadUi, LoadWorker DEF Next, LoadInv
<1>3. Load <= QUEUE_LEN
    BY DEF LoadInv
<1>4. Load' <= QUEUE_LEN
    <2>1. CASE Load' <= Load
        BY <1>1, <1>3, <2>1
    <2>2. CASE /\ grid'.generation = grid.generation + 1
               /\ Load' <= Load + LayoutJobs
        <3>1. grid'.generation # grid.generation
            BY <1>1, <2>2
        <3>2. Load + LayoutJobs <= QUEUE_LEN
            BY <3>1 DEF BegunWithRoom, vars, gridVars
        <3> QED
            BY <1>1, <2>2, <3>2
    <2> QED
        BY <1>2, <2>1, <2>2
<1>5. ui'.pc # "draining"
    <2>1. ui.pc = "sending" => Room
        <3> SUFFICES ASSUME ui.pc = "sending", ~Room PROVE FALSE
            OBVIOUS
        <3>1. ui.jobs # <<>>
            BY DEF TypeInv, Sendable
        <3>2. Len(ui.jobs) \in Nat \ {0} /\ Len(jobs) \in Nat
            BY <3>1, QueueTypes, LenProperties, EmptySeq
        <3>3. /\ OverviewDue \in Nat /\ OverviewAgain \in Nat
              /\ OverviewInHand \in Nat
            BY OverviewParts
        <3>4. Len(jobs) >= QUEUE_LEN
            BY <1>1, <3>2 DEF Room
        <3> QED
            BY <1>1, <1>3, <3>2, <3>3, <3>4 DEF Load
    <2> QED
        BY <2>1, DrainBegins DEF LoadInv, QueueHolds
<1> QED
    BY <1>4, <1>5 DEF LoadInv, QueueHolds

(* How far the worker may fall behind: if every layout is begun with room   *)
(* for a job for each slot and one for the overview on top of what is still *)
(* owed, enqueue never finds the queue full - for any number of layouts,    *)
(* and whatever attempts at the overview fail and are made again.           *)
THEOREM QueueHoldsLayouts ==
    ASSUME "screen" \notin Ops, "places" \notin Ops
    PROVE  Spec /\ [][BegunWithRoom]_vars => []QueueHolds
<1>1. Init => HandsInv /\ LoadInv
    <2> SUFFICES ASSUME Init PROVE HandsInv /\ LoadInv
        OBVIOUS
    <2>1. HandsInv
        BY IdleHasNoJobs, IdleFields DEF Init, HandsInv, WkIdle
    <2>2. /\ jobs = <<>> /\ ui.jobs = <<>> /\ ui.pc = "idle"
          /\ coarse.retry = FALSE /\ wk.pc = "idle"
        BY IdleHasNoJobs DEF Init, WkIdle
    <2>3. Load = 0
        <3>1. Len(jobs) = 0 /\ Len(ui.jobs) = 0
            BY <2>2, EmptySeq
        <3>2. OverviewDue = 0 /\ OverviewAgain = 0 /\ OverviewInHand = 0
            BY <2>2 DEF OverviewDue, OverviewAgain, OverviewInHand, Counted
        <3> QED
            BY <3>1, <3>2 DEF Load
    <2> QED
        BY <2>1, <2>2, <2>3, EngineAssumption DEF LoadInv, QueueHolds
<1>2. /\ TypeInv /\ TypeInv' /\ HandsInv /\ LoadInv
            /\ [BegunWithRoom]_vars /\ [Next]_vars => HandsInv' /\ LoadInv'
      /\ TypeInv /\ [Next]_vars => TypeInv'
    BY HandsStep, LoadStep, TypeStep
<1>3. LoadInv => QueueHolds
    BY DEF LoadInv
<1> QED
    BY <1>1, <1>2, <1>3, TypeInit, PTL DEF Spec

(* Together: in a window that does not go dark, whose layouts are begun     *)
(* with room in the queue and whose drifts carry answered tiles, every slot *)
(* that waits has its job, however many layouts there are.                  *)
THEOREM RoomForgetsNoSlot ==
    ASSUME "screen" \notin Ops, "places" \notin Ops
    PROVE  Spec /\ [][BegunWithRoom]_vars /\ [][DriftsAnswered]_vars
                => []PendingHasJob
BY WaitingSlotsHaveJobs, QueueHoldsLayouts, PTL
=============================================================================
