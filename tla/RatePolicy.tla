----------------------------- MODULE RatePolicy -----------------------------
(***************************************************************************)
(* How often the receiver measures, and whether the idle screen is dim:     *)
(* gnssRatePolicy and idleDimmed of tab5_map.cpp, which loop() calls one    *)
(* after the other on every pass.  gnssRatePolicy sees the fix; idleDimmed  *)
(* sees `view', which may be a Wi-Fi estimate dressed as a 2D fix.          *)
(*                                                                          *)
(* A tick is the shortest of the intervals, and a pass takes none or one.   *)
(* Two places are IDLE_UNDIM_MOVE_M apart or more.                          *)
(***************************************************************************)
EXTENDS Integers

CONSTANTS
    Grounds,   \* places
    SETTLE,    \* GNSS_RATE_SETTLE_MS, in ticks; so the others
    UNTOUCHED, \* IDLE_DIM_MS
    STIRRED,   \* IDLE_UNDIM_STIR_MS
    ANCHORED   \* IDLE_UNDIM_ANCHOR_MS

ASSUME RateAssumption ==
    {SETTLE, UNTOUCHED, STIRRED, ANCHORED} \subseteq Nat /\ Grounds # {}

VARIABLES
    fix,     \* mode, band of speed, place
    busy,    \* map_prefetch_busy()
    rate,    \* g_rate_ms, the policy's pending rate and for how long it is
    anchor,  \* idleDimmed's anchor, and for how long it is
    hands,   \* ticks since the last touch, since the last stir, and whether
             \* the device was handled within IDLE_UNDIM_HOLD_MS
    dim,     \* wasDim
    wanted,  \* not in the code: the rate wanted, and for how long it is
    departed \* not in the code: displacement has just undimmed the screen

rateVars == <<fix, busy, rate, anchor, hands, dim, wanted, departed>>

-----------------------------------------------------------------------------
RateFor == [fast |-> 1, walk |-> 2, idle |-> 5]
RATE_IDLE == RateFor["idle"]
Rates == {RateFor[b] : b \in DOMAIN RateFor}
NoRate == 0

NoFix == [mode |-> 0, band |-> "idle", at |-> CHOOSE g \in Grounds : TRUE]
Fixes == {NoFix} \cup [mode : {2}, band : {"idle"}, at : Grounds]
                 \cup [mode : {3}, band : DOMAIN RateFor, at : Grounds]

UpTo(limit, t) == IF t > limit THEN limit ELSE t

(* The rate the fix calls for. *)
Want(f, prefetching) ==
    IF f.mode # 3 \/ prefetching THEN RateFor["fast"] ELSE RateFor[f.band]

(* Mutant: a rate that is wanted again is not forgotten. *)
RateNextKeeping(r, want, elapsed) ==
    CASE want = r.now -> r
      [] want # r.now /\ want # r.pending -> [r EXCEPT !.pending = want, !.since = 0]
      [] OTHER -> IF r.since + elapsed < SETTLE
                  THEN [r EXCEPT !.since = @ + elapsed]
                  ELSE [now |-> want, pending |-> NoRate, since |-> 0]

(* gnssRatePolicy: a rate is set when it has been wanted for SETTLE without *)
(* a break.  (That SETTLE has passed since the last change then follows: a  *)
(* rate is first wanted after it.)                                          *)
RateNext(r, want, elapsed) ==
    CASE want = r.now -> [r EXCEPT !.pending = NoRate, !.since = 0]
      [] want # r.now /\ want # r.pending -> [r EXCEPT !.pending = want, !.since = 0]
      [] OTHER -> IF r.since + elapsed < SETTLE
                  THEN [r EXCEPT !.since = @ + elapsed]
                  ELSE [now |-> want, pending |-> NoRate, since |-> 0]

NoAnchor == [set |-> FALSE, at |-> NoFix.at, age |-> 0]
AnchorHere(v) == [set |-> TRUE, at |-> v.at, age |-> 0]

(* idleDimmed's branches on the anchor are only reached by a device that    *)
(* is neither touched nor handled.                                          *)
Idle(h) == h.touch >= UNTOUCHED /\ ~h.handled
Displaced(v, aged) == v.mode = 3 /\ aged.set /\ v.at # aged.at

AnchorNext(v, h, aged) ==
    CASE ~Idle(h) -> aged
      [] Idle(h) /\ v.mode # 3 -> NoAnchor
      [] Idle(h) /\ v.mode = 3 /\ (~aged.set \/ v.at # aged.at) -> AnchorHere(v)
      [] OTHER -> IF aged.age >= ANCHORED THEN AnchorHere(v) ELSE aged

(* idleDimmed: dim while idle and at the idle rate, but for the pass in     *)
(* which a displacement that something has felt is seen.                    *)
Undimmed(v, h, aged) == Displaced(v, aged) /\ h.stir < STIRRED
DimNext(v, h, aged, now) ==
    Idle(h) /\ ~Undimmed(v, h, aged) /\ now = RATE_IDLE

-----------------------------------------------------------------------------
RateInit ==
    /\ fix = NoFix /\ busy = FALSE
    /\ rate = [now |-> RateFor["fast"], pending |-> NoRate, since |-> 0]
    /\ anchor = NoAnchor
    /\ hands = [touch |-> 0, stir |-> STIRRED, handled |-> FALSE]
    /\ dim = FALSE
    /\ wanted = [rate |-> RateFor["fast"], since |-> 0]
    /\ departed = FALSE

(* A pass of loop(): touch, then the rate, then the backlight.              *)
RatePass ==
    \E elapsed \in 0 .. 1, touched, handled, stirred \in BOOLEAN :
        LET h == [touch |-> IF touched THEN 0 ELSE UpTo(UNTOUCHED, hands.touch + elapsed),
                  stir |-> IF stirred THEN 0 ELSE UpTo(STIRRED, hands.stir + elapsed),
                  handled |-> handled]
            aged == [anchor EXCEPT !.age = UpTo(ANCHORED, @ + elapsed)]
            want == Want(fix, busy)
        IN  /\ handled => stirred
            /\ rate' = RateNext(rate, want, elapsed)
            /\ hands' = h
            /\ anchor' = AnchorNext(fix, h, aged)
            /\ dim' = DimNext(fix, h, aged, rate'.now)
            /\ wanted' = IF want = wanted.rate
                         THEN [wanted EXCEPT !.since = UpTo(SETTLE, @ + elapsed)]
                         ELSE [rate |-> want, since |-> 0]
            /\ departed' = (dim /\ Idle(h) /\ Undimmed(fix, h, aged))
            /\ UNCHANGED <<fix, busy>>

(* What the receiver says, and a prefetch begins or ends.                   *)
RateInput ==
    /\ \/ fix' \in Fixes /\ UNCHANGED busy
       \/ busy' = ~busy /\ UNCHANGED fix
    /\ UNCHANGED <<rate, anchor, hands, dim, wanted, departed>>

RateNextStep == RatePass \/ RateInput

RateSpec == RateInit /\ [][RateNextStep]_rateVars

-----------------------------------------------------------------------------
RateTypeOK ==
    /\ rate \in [now : Rates, pending : {NoRate} \cup Rates, since : 0 .. SETTLE]
    /\ anchor \in [set : BOOLEAN, at : Grounds, age : 0 .. ANCHORED]
    /\ dim \in BOOLEAN

(* "A vehicle sitting near a boundary" does not make the receiver change    *)
(* its rate back and forth: a rate is only ever set that was wanted at      *)
(* every pass of a whole settling time (tab5_map.cpp:300-305, 327-331).     *)
RateHeld == [][rate'.now # rate.now => wanted'.rate = rate'.now /\ wanted'.since >= SETTLE]_rateVars

(* "Exit measures displacement from a rolling anchor ... Without that,      *)
(* pulling away from a stop would leave the screen dim for the whole settle *)
(* window" (tab5_map.cpp:659-663): once displacement has undimmed the       *)
(* screen the next pass does not dim it.                                    *)
StaysUndimmed == [][departed => ~dim']_rateVars
=============================================================================
