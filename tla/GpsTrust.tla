------------------------------ MODULE GpsTrust ------------------------------
(***************************************************************************)
(* gpstrust.cpp as loop() drives it: the consistency checks on the fix the  *)
(* receiver task has published, the flags they raise, and the level shown.  *)
(* loop() calls gpstrust_update on every pass (tab5_map.cpp:4525), many     *)
(* times for each fix.                                                      *)
(*                                                                          *)
(* Time is counted in ticks of 250 ms, positions in units on a line.  The   *)
(* checks that look at one fix alone (clock, satellites, Wi-Fi) are the set *)
(* of those the fix fails.                                                  *)
(***************************************************************************)
EXTENDS Integers, FiniteSets

CONSTANTS
    Positions,        \* a set of integers
    Speeds,           \* Doppler speeds, km/h
    Heights,          \* altitudes; a negative one is impossible
    SingleFixChecks,  \* a subset of {"clock", "snr", "wifi"}
    UNIT_KMH,         \* the speed of one unit of position per tick
    FIX_TICKS,        \* ticks between two fixes
    HOLD,             \* TRUST_HOLD_MS, in ticks
    TRUST_MAX_KMH,
    TRUST_SPEED_MIN_KMH,
    TRUST_ALT_FREEZE_N,
    PassTicks         \* how long a pass of loop() may take

ASSUME TrustAssumption ==
    /\ Positions \subseteq Int /\ Speeds \subseteq Nat /\ Heights \subseteq Int
    /\ SingleFixChecks \subseteq {"clock", "snr", "wifi"}
    /\ UNIT_KMH \in Nat /\ FIX_TICKS \in Nat /\ HOLD \in Nat
    /\ TRUST_MAX_KMH \in Nat /\ TRUST_SPEED_MIN_KMH \in Nat
    /\ TRUST_ALT_FREEZE_N \in Nat
    /\ PassTicks \subseteq Nat \ {0}

VARIABLES
    sky,      \* the published fix, and what the properties have to know of it
    pulse,    \* g_ppsInterval, as good or bad; "none" before the first
    prev,     \* s_prev_*, s_have_prev
    altSame,  \* s_alt_same
    held,     \* for how many ticks each flag stays up; 0: the flag is down
    level,    \* s_level
    raised    \* the flags the last pass raised

trustVars == <<sky, pulse, prev, altSame, held, level, raised>>

-----------------------------------------------------------------------------
Flags == {"jump", "speed", "alt", "pps"} \cup SingleFixChecks
Fixes == [valid : BOOLEAN, pos : Positions, kmh : Speeds, alt : Heights,
          mode : {2, 3}, fails : SUBSET SingleFixChecks]
NoPrev == [have |-> FALSE, pos |-> 0, alt |-> 0]

Distance(a, b) == IF a > b THEN a - b ELSE b - a

(* The implied speed between two positions exceeds a limit. *)
FasterThan(limit, from, to, ticks) == Distance(from, to) * UNIT_KMH > limit * ticks

(* Doppler against geometry, above a walking pace: the smaller is less than *)
(* half of the larger.                                                      *)
SpeedsDisagree(kmh, from, to, ticks) ==
    LET implied == Distance(from, to) * UNIT_KMH
        doppler == kmh * ticks
        larger == IF implied > doppler THEN implied ELSE doppler
        smaller == IF implied > doppler THEN doppler ELSE implied
    IN  /\ larger > TRUST_SPEED_MIN_KMH * ticks
        /\ 2 * (larger - smaller) > larger

(* The position checks compare with the pass before, and only one that is   *)
(* more than a quarter of a second ago. *)
Compared(ticks) == prev.have /\ ticks > 1

AltFrozen(fix) ==
    /\ fix.alt >= 0 /\ prev.have
    /\ fix.alt = prev.alt /\ Distance(fix.pos, prev.pos) > 0

AltCount(fix) ==
    IF fix.alt < 0 \/ ~prev.have THEN altSame
    ELSE IF AltFrozen(fix)
         THEN IF altSame > TRUST_ALT_FREEZE_N THEN altSame ELSE altSame + 1
         ELSE 0

FailedChecks(fix, ticks) ==
    LET fires == [jump |-> /\ Compared(ticks)
                           /\ FasterThan(TRUST_MAX_KMH, prev.pos, fix.pos, ticks),
                  speed |-> /\ Compared(ticks)
                            /\ SpeedsDisagree(fix.kmh, prev.pos, fix.pos, ticks),
                  alt |-> \/ fix.alt < 0
                          \/ AltFrozen(fix) /\ AltCount(fix) > TRUST_ALT_FREEZE_N,
                  pps |-> fix.mode >= 3 /\ pulse = "bad"]
    IN  fix.fails \cup {f \in DOMAIN fires : fires[f]}

(* expire *)
Expired(ticks) ==
    [f \in Flags |-> IF held[f] > ticks THEN held[f] - ticks ELSE 0]

Up(flags) == {f \in Flags : flags[f] > 0}

Verdict(n) == IF n = 0 THEN "ok" ELSE IF n = 1 THEN "odd" ELSE "bad"

-----------------------------------------------------------------------------
(* gpstrust_reset, in setup(). *)
TrustInit ==
    /\ sky \in [fix : {f \in Fixes : ~f.valid /\ f.fails = {} /\ f.mode = 2
                                      /\ f.kmh = 0 /\ f.alt >= 0},
                since : {0}, jumped : {FALSE}, seen : {FALSE}]
    /\ pulse = "none"
    /\ prev = NoPrev
    /\ altSame = 0
    /\ held = [f \in Flags |-> 0]
    /\ level = "unknown"
    /\ raised = {}

(* The receiver task publishes the next fix. *)
Receive(fix) ==
    /\ sky.since >= FIX_TICKS
    /\ sky' = [fix |-> fix, since |-> 0, seen |-> FALSE,
               jumped |-> /\ sky.fix.valid /\ fix.valid
                          /\ FasterThan(TRUST_MAX_KMH, sky.fix.pos, fix.pos, FIX_TICKS)]
    /\ UNCHANGED <<pulse, prev, altSame, held, level, raised>>

(* ppsIsr: a pulse after an outage is not an interval. *)
Pulse(interval) ==
    /\ pulse' = IF interval = "restart" THEN pulse ELSE interval
    /\ UNCHANGED <<sky, prev, altSame, held, level, raised>>

Seen(ticks) == [sky EXCEPT !.seen = TRUE,
                           !.since = IF @ + ticks > FIX_TICKS THEN FIX_TICKS ELSE @ + ticks]

(* gpstrust_update without a fix: the history is dropped, and the level     *)
(* only when the last flag has expired.                                     *)
UpdateWithoutFix(ticks) ==
    /\ ~sky.fix.valid
    /\ prev' = NoPrev
    /\ held' = Expired(ticks)
    /\ level' = IF Up(held') = {} THEN "unknown" ELSE level
    /\ raised' = {}
    /\ sky' = Seen(ticks)
    /\ UNCHANGED <<pulse, altSame>>

(* Mutant: the level is judged before the checks have run. *)
UpdateWithFixJudgedFirst(ticks) ==
    LET fix == sky.fix
    IN  /\ fix.valid
        /\ raised' = FailedChecks(fix, ticks)
        /\ held' = [f \in Flags |-> IF f \in raised' THEN HOLD ELSE Expired(ticks)[f]]
        /\ level' = Verdict(Cardinality(Up(Expired(ticks))))
        /\ prev' = [have |-> TRUE, pos |-> fix.pos, alt |-> fix.alt]
        /\ altSame' = AltCount(fix)
        /\ sky' = Seen(ticks)
        /\ UNCHANGED pulse

(* gpstrust_update with a fix. *)
UpdateWithFix(ticks) ==
    LET fix == sky.fix
    IN  /\ fix.valid
        /\ raised' = FailedChecks(fix, ticks)
        /\ held' = [f \in Flags |-> IF f \in raised' THEN HOLD ELSE Expired(ticks)[f]]
        /\ level' = Verdict(Cardinality(Up(held')))
        /\ prev' = [have |-> TRUE, pos |-> fix.pos, alt |-> fix.alt]
        /\ altSame' = AltCount(fix)
        /\ sky' = Seen(ticks)
        /\ UNCHANGED pulse

TrustPass == \E ticks \in PassTicks : UpdateWithoutFix(ticks) \/ UpdateWithFix(ticks)

TrustNext ==
    \/ \E fix \in Fixes : Receive(fix)
    \/ \E interval \in {"good", "bad", "restart"} : Pulse(interval)
    \/ TrustPass

TrustSpec == TrustInit /\ [][TrustNext]_trustVars

-----------------------------------------------------------------------------
TrustTypeOK ==
    /\ sky \in [fix : Fixes, since : 0 .. FIX_TICKS, jumped : BOOLEAN, seen : BOOLEAN]
    /\ pulse \in {"none", "good", "bad"}
    /\ prev.have \in BOOLEAN
    /\ altSame \in 0 .. TRUST_ALT_FREEZE_N + 1
    /\ held \in [Flags -> 0 .. HOLD]
    /\ level \in {"unknown", "ok", "odd", "bad"}
    /\ raised \subseteq Flags

(* A suspicion is shown exactly while a flag is up: the level is not        *)
(* recomputed while there is no fix (gpstrust.cpp:146-152), and yet a flag  *)
(* that expires then must take the level with it.                           *)
SuspicionShown == (Up(held) # {}) <=> level \in {"odd", "bad"}

(* "Position moved faster than physics allows" (gpstrust.h:42) is raised    *)
(* once a pass has seen a fix that implies it.                              *)
JumpNoticed == sky.jumped /\ sky.seen => held["jump"] > 0
=============================================================================
