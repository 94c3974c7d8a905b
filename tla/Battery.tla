------------------------------ MODULE Battery ------------------------------
(***************************************************************************)
(* The battery gauge of tab5_map.cpp: an INA226 on an I2C bus it shares,    *)
(* read once a second by loop(), and what is done when it does not answer.  *)
(* The renderer may preempt all three attempts of a poll, and leave the     *)
(* controller wedged; a slave may hold the data line; the gauge may lose    *)
(* its configuration.  A tick is a second; a loop held up polls less often. *)
(***************************************************************************)
EXTENDS Integers

CONSTANTS
    MISSES,        \* failed polls before the controller is set up anew
    REINIT,        \* ticks between two such attempts
    BATT_STALE_MS, \* ticks a reading is shown for
    MAX_FAULTS     \* bound on what goes wrong

ASSUME BatteryAssumption == {MISSES, REINIT, BATT_STALE_MS, MAX_FAULTS} \subseteq Nat

VARIABLES
    bus,     \* the controller, the data line, the gauge
    batt,    \* s_battOk, s_battMiss, and ticks since s_battGoodMs and lastTry
    faults   \* how much has gone wrong

batteryVars == <<bus, batt, faults>>

-----------------------------------------------------------------------------
Within(limit, t) == IF t > limit THEN limit ELSE t

(* A register read completes, and what it reads is not zero.                *)
Answers == ~bus.wedged /\ ~bus.held /\ bus.gauge = "converting"

BatteryInit ==
    /\ bus = [wedged |-> FALSE, held |-> FALSE, gauge |-> "converting"]
    /\ batt = [ok |-> TRUE, miss |-> 0, age |-> 0, try |-> REINIT + 1]
    /\ faults = 0

(* Mutant: the controller is set up anew once. *)
ReinitDueOnce(miss, try) == miss = MISSES

(* The third miss, and every REINIT from then on. *)
ReinitDue(miss, try) == miss >= MISSES /\ try > REINIT

(* i2cReinit, if it works. *)
Reinited(b) == [b EXCEPT !.wedged = FALSE]

(* battDiagnose sets the controller up anew, clocks a slave out that holds  *)
(* the line; or, if nothing does and the registers can be read, configures  *)
(* a gauge that is in power-down.  It is the one place for both.            *)
Diagnosed(b, works) ==
    IF ~works THEN b
    ELSE IF b.held THEN [Reinited(b) EXCEPT !.held = FALSE]
    ELSE [Reinited(b) EXCEPT !.gauge = "converting"]

(* batteryPoll.  What fails in it that could have worked is a fault:        *)
(* preempted reads, a controller that is not set up, a diagnosis that comes *)
(* to nothing.                                                              *)
Poll ==
    \E elapsed \in 1 .. 2, preempted, works \in BOOLEAN :
        LET miss == Within(MISSES + 1, batt.miss + 1)
            try == Within(REINIT + 1, batt.try + elapsed)
            age == Within(BATT_STALE_MS + 1, batt.age + elapsed)
            reinit == ReinitDue(miss, try)
            after == IF reinit /\ works THEN Reinited(bus) ELSE bus
            diagnose == batt.ok /\ age > BATT_STALE_MS
            read == Answers /\ ~preempted
        IN  /\ faults' = faults + (IF preempted THEN 1 ELSE 0) + (IF works THEN 0 ELSE 1)
            /\ faults' =< MAX_FAULTS
            /\ IF read
               THEN /\ batt' = [ok |-> TRUE, miss |-> 0, age |-> 0, try |-> try]
                    /\ UNCHANGED bus
               ELSE /\ batt' = [ok |-> batt.ok /\ ~diagnose, age |-> age,
                                try |-> IF reinit THEN 0 ELSE try,
                                miss |-> IF diagnose /\ works
                                            /\ (after.held \/ after.gauge # "converting")
                                         THEN 0 ELSE miss]
                    /\ bus' = IF diagnose THEN Diagnosed(after, works) ELSE after

(* A transaction is cut short, by a poll's preemption or anyone's, and      *)
(* wedges the controller; a slave is left with the line; the gauge resets.  *)
Fault ==
    /\ faults < MAX_FAULTS /\ faults' = faults + 1
    /\ \/ bus' = [bus EXCEPT !.wedged = TRUE]
       \/ bus' = [bus EXCEPT !.held = TRUE]
       \/ bus' = [bus EXCEPT !.gauge = "powered down"]
    /\ UNCHANGED batt

BatteryNext == Poll \/ Fault

BatterySpec == BatteryInit /\ [][BatteryNext]_batteryVars /\ WF_batteryVars(Poll)

-----------------------------------------------------------------------------
BatteryTypeOK ==
    /\ bus \in [wedged : BOOLEAN, held : BOOLEAN, gauge : {"converting", "powered down"}]
    /\ batt \in [ok : BOOLEAN, miss : 0 .. MISSES + 1, age : 0 .. BATT_STALE_MS + 1,
                 try : 0 .. REINIT + 1]

(* A wedged controller "does not recover on its own" (tab5_map.cpp:3096),   *)
(* and is recovered: while nothing else is wrong with the bus, there is a   *)
(* reading again, however often setting it up has failed.                   *)
WedgeClears ==
    bus.wedged ~> (batt.ok /\ batt.age = 0) \/ bus.held \/ bus.gauge # "converting"
=============================================================================
