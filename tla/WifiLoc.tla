------------------------------- MODULE WifiLoc -------------------------------
(***************************************************************************)
(* The scan and radio machine of wifiloc.cpp: when access points are        *)
(* scanned for, what is done with the result, and when the radio is taken   *)
(* down between scans.  The table the results go into is ApTable's subject; *)
(* here it only matters whether it has entries.                             *)
(*                                                                          *)
(* Around it: the receiver's fix, the scans of the Wi-Fi driver, which run  *)
(* on their own, and the other users of the radio - prefetch, association,  *)
(* the setup portal, which holds loop() for minutes (portal.cpp).           *)
(*                                                                          *)
(* Time passes between polls, one unit at most while polls are made; the    *)
(* limits are the code's, scaled.                                           *)
(***************************************************************************)
EXTENDS Integers, FiniteSets

CONSTANTS
    Places,         \* positions on a line, as integers
    LEARN,          \* WIFILOC_LEARN_MS
    LEARN_DISTANCE, \* WIFILOC_LEARN_M
    LEARN_SPEED,    \* WIFILOC_LEARN_MAX_KMH, in places per unit of time
    LEARN_SLACK,    \* the 10 m a fix may be off besides (wifiloc.cpp:658-660)
    LOST,           \* WIFILOC_LOST_MS
    RETRY,          \* WIFILOC_RETRY_MS
    SCAN_TIMEOUT,   \* WIFILOC_SCAN_TIMEOUT_MS
    WAKE,           \* WIFILOC_RADIO_WAKE_MS
    LINGER,         \* WIFILOC_RADIO_LINGER_MS
    PORTAL_TIME,    \* how long the portal holds loop()
    CLOCK_MAX       \* bound: timers stop here

ASSUME WifiLocAssumption ==
    /\ Places \subseteq Int
    /\ {LEARN, LEARN_DISTANCE, LEARN_SPEED, LEARN_SLACK, LOST, RETRY,
        SCAN_TIMEOUT, WAKE, LINGER, PORTAL_TIME, CLOCK_MAX} \subseteq Nat

VARIABLES
    gps,      \* the fix: how good, where, and whether it moves too fast to learn
    wifi,     \* the driver: mode, association, and the prefetch
    radio,    \* s_radio and s_radioSince
    scan,     \* s_scanWhy and what belongs to the scan in flight
    since,    \* s_lastLearn, s_lastLocate, s_lostSince, as times since
    learned,  \* s_lastLearnLat/Lon, s_haveLearnPos, and whether s_count > 0
    enabled,  \* s_enabled
    history   \* for the properties

wifiLocVars == <<gps, wifi, radio, scan, since, learned, enabled, history>>

-----------------------------------------------------------------------------
Never == -1
NoPlace == -1
NoScan == [why |-> "none", result |-> "none", age |-> 0, from |-> NoPlace]

(* Place and speed are only looked at in a fine fix. *)
Nowhere == CHOOSE p \in Places : TRUE
GpsFixes == [kind : {"none", "coarse"}, place : {Nowhere}, fast : {FALSE}]
              \cup [kind : {"fine"}, place : Places, fast : BOOLEAN]

Apart(a, b) == IF a > b THEN a - b ELSE b - a

Later(t, elapsed) ==
    IF t = Never THEN Never ELSE IF t + elapsed > CLOCK_MAX THEN CLOCK_MAX ELSE t + elapsed

(* The timers when a poll finds that so much time has passed. *)
RadioAt(elapsed) == [radio EXCEPT !.since = Later(@, elapsed)]
ScanAt(elapsed) == IF scan.why = "none" THEN NoScan ELSE [scan EXCEPT !.age = Later(@, elapsed)]
SinceAt(elapsed) == [t \in DOMAIN since |-> Later(since[t], elapsed)]

InUseElsewhere == wifi.prefetch \/ wifi.associated

(* radio_release, after a poll that left the machine in this state: not     *)
(* while a scan is in flight nor while the radio is coming up for one.      *)
GiveBack(r, s) ==
    IF s.why # "none" \/ r.state \notin {"up", "unmanaged"} \/ r.since < LINGER
    THEN radio' = r /\ UNCHANGED wifi
    ELSE IF InUseElsewhere
         THEN radio' = [r EXCEPT !.state = "unmanaged"] /\ UNCHANGED wifi
         ELSE radio' = [state |-> "down", since |-> 0] /\ wifi' = [wifi EXCEPT !.on = FALSE]

(* Mutant: a learning scan is used whatever the fix has done meanwhile. *)
UsableAnyway(s) == s.why = "learn" /\ s.from # NoPlace

(* A learning scan is used if the fix is still fine and has moved no        *)
(* further than the elapsed time and the slack allow.                       *)
Usable(s) ==
    /\ s.why = "learn" /\ s.from # NoPlace
    /\ gps.kind = "fine"
    /\ Apart(gps.place, s.from) =< LEARN_SPEED * s.age + LEARN_SLACK

(* The gates before a scan, first to learn and then to locate. *)
WantsLearn(t) ==
    /\ gps.kind = "fine" /\ ~wifi.prefetch
    /\ t.learn >= LEARN
    /\ ~gps.fast
    /\ learned.at # NoPlace => Apart(gps.place, learned.at) >= LEARN_DISTANCE

WantsLocate(t) ==
    /\ gps.kind = "none" /\ ~wifi.prefetch
    /\ t.lost # Never /\ t.lost >= LOST
    /\ t.locate = Never \/ t.locate >= RETRY
    /\ learned.any

(* s_lostSince: started at the first poll without a fix, and stopped by     *)
(* any fix; a poll that returns earlier leaves it.                          *)
LostClock(t) ==
    IF wifi.prefetch THEN t.lost
    ELSE IF gps.kind # "none" THEN Never
    ELSE IF t.lost = Never THEN 0 ELSE t.lost

-----------------------------------------------------------------------------
WifiLocInit ==
    /\ gps = [kind |-> "none", place |-> Nowhere, fast |-> FALSE]
    /\ wifi \in [on : BOOLEAN, associated : {FALSE}, prefetch : {FALSE}]
    /\ radio = [state |-> "unmanaged", since |-> 0]
    /\ scan = NoScan
    /\ since = [learn |-> 0, locate |-> Never, lost |-> Never]
    /\ learned \in [at : {NoPlace}, any : BOOLEAN]
    /\ enabled = FALSE
    /\ history = [tried |-> FALSE, suspended |-> FALSE, smear |-> 0]

(* The result of a scan is used and deleted; the linger clock starts here. *)
UseResult(elapsed) ==
    LET s == ScanAt(elapsed)
    IN  /\ s.result = "done"
        /\ IF Usable(s)
           THEN /\ learned' = [learned EXCEPT !.any = TRUE]
                /\ history' = [tried |-> FALSE, suspended |-> FALSE,
                               smear |-> IF history.suspended THEN 0
                                         ELSE Apart(gps.place, s.from)]
           ELSE /\ UNCHANGED learned
                /\ history' = [tried |-> FALSE, suspended |-> FALSE, smear |-> 0]
        /\ scan' = NoScan
        /\ since' = SinceAt(elapsed)
        /\ GiveBack([RadioAt(elapsed) EXCEPT !.since = 0], NoScan)

(* Mutant: a scan that never completes is waited for. *)
AwaitForever(elapsed) ==
    LET s == ScanAt(elapsed)
    IN  /\ s.result \in {"running", "failed"}
        /\ scan' = IF s.result = "failed" THEN NoScan ELSE s
        /\ history' = [history EXCEPT !.tried = FALSE,
                                      !.suspended = @ /\ scan'.why # "none"]
        /\ since' = SinceAt(elapsed)
        /\ GiveBack(RadioAt(elapsed), scan')
        /\ UNCHANGED learned

(* A scan still running is left alone until it is given up; a failed one is *)
(* deleted.                                                                 *)
AwaitScan(elapsed) ==
    LET s == ScanAt(elapsed)
    IN  /\ s.result \in {"running", "failed"}
        /\ scan' = IF s.result = "failed" \/ s.age > SCAN_TIMEOUT THEN NoScan ELSE s
        /\ history' = [history EXCEPT !.tried = FALSE,
                                      !.suspended = @ /\ scan'.why # "none"]
        /\ since' = SinceAt(elapsed)
        /\ GiveBack(RadioAt(elapsed), scan')
        /\ UNCHANGED learned

(* radio_acquire: a radio that was taken down is brought up and needs a     *)
(* while; a scan started on it may be refused at once.                      *)
WakeRadio(r) ==
    /\ r.state = "down"
    /\ radio' = [state |-> "waking", since |-> 0]
    /\ wifi' = [wifi EXCEPT !.on = TRUE]

RadioReady(r) ==
    \/ r.state \in {"unmanaged", "up"}
    \/ r.state = "waking" /\ r.since >= WAKE

Ready(r) == IF r.state = "waking" THEN [state |-> "up", since |-> 0] ELSE r

Started(why) ==
    [why |-> why, result |-> "running", age |-> 0,
     from |-> IF why = "learn" THEN gps.place ELSE NoPlace]

StartScan(elapsed) ==
    LET t == [SinceAt(elapsed) EXCEPT !.lost = LostClock(SinceAt(elapsed))]
        r == RadioAt(elapsed)
        why == IF WantsLearn(t) THEN "learn" ELSE "locate"
    IN  /\ scan.why = "none"
        /\ WantsLearn(t) \/ WantsLocate(t)
        /\ \/ /\ WakeRadio(r)
              /\ since' = t
              /\ history' = [history EXCEPT !.tried = FALSE]
              /\ UNCHANGED <<scan, learned>>
           \/ /\ r.state = "waking" /\ r.since < WAKE
              /\ radio' = r
              /\ since' = t
              /\ history' = [history EXCEPT !.tried = FALSE]
              /\ UNCHANGED <<wifi, scan, learned>>
           \/ /\ RadioReady(r)
              /\ radio' = Ready(r)
              /\ wifi' = [wifi EXCEPT !.on = TRUE]
              /\ scan' = Started(why)
              /\ since' = [t EXCEPT ![why] = 0]
              /\ learned' = IF why = "learn" THEN [learned EXCEPT !.at = gps.place] ELSE learned
              /\ history' = [tried |-> TRUE, suspended |-> FALSE, smear |-> 0]
           \/ /\ RadioReady(r)
              /\ GiveBack(Ready(r), NoScan)
              /\ since' = t
              /\ history' = [history EXCEPT !.tried = TRUE]
              /\ UNCHANGED <<scan, learned>>

(* Nothing is wanted: the radio is given back after a while, unless it is   *)
(* still coming up.                                                         *)
NothingWanted(elapsed) ==
    LET t == [SinceAt(elapsed) EXCEPT !.lost = LostClock(SinceAt(elapsed))]
    IN  /\ scan.why = "none" /\ ~WantsLearn(t) /\ ~WantsLocate(t)
        /\ since' = t
        /\ history' = [history EXCEPT !.tried = FALSE]
        /\ GiveBack(RadioAt(elapsed), NoScan)
        /\ UNCHANGED <<scan, learned>>

(* wifiloc_poll, while positioning is on. *)
Poll(elapsed) ==
    /\ enabled
    /\ UseResult(elapsed) \/ AwaitScan(elapsed) \/ StartScan(elapsed) \/ NothingWanted(elapsed)
    /\ UNCHANGED <<gps, enabled>>

(* While it is off polls do nothing and time passes all the same. *)
PassUnpolled ==
    /\ ~enabled
    /\ radio' = RadioAt(1) /\ scan' = ScanAt(1) /\ since' = SinceAt(1)
    /\ history' = [tried |-> FALSE, suspended |-> scan.why # "none", smear |-> 0]
    /\ UNCHANGED <<gps, wifi, learned, enabled>>

(* wifiloc_set_enabled from the settings panel. *)
SetEnabled ==
    /\ enabled' = ~enabled
    /\ history' = [history EXCEPT !.tried = FALSE]
    /\ UNCHANGED <<gps, wifi, radio, scan, since, learned>>

(* The setup portal: loop() does nothing else meanwhile, the mode is set    *)
(* and left to suit the portal, and its own scan may end in our place.      *)
Portal ==
    \E joined \in BOOLEAN, result \in {"running", "done", "failed"} :
        /\ wifi' = [wifi EXCEPT !.on = joined, !.associated = joined]
        /\ radio' = RadioAt(PORTAL_TIME)
        /\ since' = SinceAt(PORTAL_TIME)
        /\ scan' = IF scan.why = "none" THEN NoScan
                   ELSE [ScanAt(PORTAL_TIME) EXCEPT !.result = result]
        /\ history' = [tried |-> FALSE, suspended |-> scan.why # "none", smear |-> 0]
        /\ UNCHANGED <<gps, learned, enabled>>

(* The driver's scan ends, or never does. *)
ScanEnds(result) ==
    /\ scan.result = "running"
    /\ scan' = [scan EXCEPT !.result = result]
    /\ history' = [history EXCEPT !.tried = FALSE]
    /\ UNCHANGED <<gps, wifi, radio, since, learned, enabled>>

FixChanges ==
    \E fix \in GpsFixes :
        /\ gps' = fix
        /\ history' = [history EXCEPT !.tried = FALSE, !.smear = 0]
        /\ UNCHANGED <<wifi, radio, scan, since, learned, enabled>>

(* An association needs the radio and can be lost; a prefetch is started    *)
(* over an association and outlives it.                                     *)
WifiChanges ==
    /\ wifi' \in [on : {wifi.on}, associated : BOOLEAN, prefetch : BOOLEAN]
    /\ wifi'.associated => wifi.associated
    /\ wifi'.prefetch => wifi.prefetch \/ wifi.associated
    /\ history' = [history EXCEPT !.tried = FALSE]
    /\ UNCHANGED <<gps, radio, scan, since, learned, enabled>>

WifiLocNext ==
    \/ \E elapsed \in 0 .. 1 : Poll(elapsed)
    \/ PassUnpolled \/ SetEnabled \/ Portal
    \/ \E result \in {"done", "failed"} : ScanEnds(result)
    \/ FixChanges \/ WifiChanges

WifiLocSpec == WifiLocInit /\ [][WifiLocNext]_wifiLocVars /\ WF_wifiLocVars(Poll(1))

-----------------------------------------------------------------------------
WifiLocTypeOK ==
    /\ gps \in GpsFixes
    /\ wifi \in [on : BOOLEAN, associated : BOOLEAN, prefetch : BOOLEAN]
    /\ radio \in [state : {"unmanaged", "down", "waking", "up"}, since : 0 .. CLOCK_MAX]
    /\ scan.why \in {"none", "learn", "locate"}
    /\ scan.result \in {"none", "running", "done", "failed"}
    /\ since \in [{"learn", "locate", "lost"} -> {Never} \cup 0 .. CLOCK_MAX]
    /\ learned \in [at : Places \cup {NoPlace}, any : BOOLEAN]
    /\ enabled \in BOOLEAN

(* What is learned is learned near where it was heard: no further than a    *)
(* device slow enough to learn can have gone before the scan would have     *)
(* been given up, and the slack (wifiloc.cpp:647-660), if polling was not   *)
(* interrupted while the scan was in flight.                                *)
LearnedNearby == history.smear =< LEARN_SPEED * (SCAN_TIMEOUT + 1) + LEARN_SLACK

(* "A scan that never completes must not wedge the state machine"           *)
(* (wifiloc.cpp:170): without a fix, and with something to match against,   *)
(* a scan is tried again and again, whatever became of the last one and     *)
(* whoever has used the radio meanwhile.                                    *)
ScansAgain ==
    <>[](enabled /\ gps.kind = "none" /\ learned.any /\ ~wifi.prefetch) => []<>history.tried
=============================================================================
