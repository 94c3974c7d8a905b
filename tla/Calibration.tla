---------------------------- MODULE Calibration ----------------------------
(***************************************************************************)
(* compass.cpp's calibration: a sweep started or cancelled from the         *)
(* settings panel, the readings it adds up, what becomes of the correction  *)
(* when the device has been turned far enough, and the blob a later boot    *)
(* starts from.  How the file is replaced is in SavedFiles.                 *)
(*                                                                          *)
(* Readings are told apart by the sweep they were taken in.  What the fit   *)
(* makes of them, and how unequal the gains come out, is left open.         *)
(***************************************************************************)
EXTENDS Integers, FiniteSets

CONSTANTS
    TURNS,      \* orientations that make CAL_RANGE_TARGET on every axis
    POINTS,     \* readings fit_solve asks for; they are counted no further
    UNEVEN,     \* gain spreads are 0 .. UNEVEN, and 0 is within 15 %
    MAX_SWEEPS  \* bound of the model

ASSUME CalAssumption ==
    /\ {TURNS, POINTS, MAX_SWEEPS} \subseteq Nat \ {0} /\ UNEVEN \in Nat

VARIABLES
    ok,          \* s_ok: the compass was found at this boot
    correction,  \* s_offset and s_scale: the sweeps they come from, the spread
                 \* of the gains; s_calibrated and s_fitted
    sums,        \* s_ata, s_atb: the sweeps in them; s_fit_n
    sweep,       \* s_cal_on, s_cal_refine; which sweep, orientations seen
    blob,        \* what the file restores: a correction and sums, or neither
    refused      \* not in the code: the sweeps rejected for their gains

calVars == <<ok, correction, sums, sweep, blob, refused>>

Sweeps == 1 .. MAX_SWEEPS

Uncorrected == [known |-> FALSE, fitted |-> FALSE, from |-> {}, spread |-> 0]
NoSums == [from |-> {}, points |-> 0]
NoBlob == [correction |-> Uncorrected, sums |-> NoSums]

CalInit ==
    /\ ok \in BOOLEAN
    /\ correction = Uncorrected /\ sums = NoSums /\ blob = NoBlob
    /\ sweep = [on |-> FALSE, refine |-> FALSE, no |-> 0, seen |-> 0]
    /\ refused = {}

(* The row of the settings panel starts a sweep, or cancels the one that    *)
(* runs.  A sweep refines what there is: the sums are halved and kept.      *)
StartSweep ==
    /\ ok /\ ~sweep.on /\ sweep.no < MAX_SWEEPS
    /\ sweep' = [on |-> TRUE, refine |-> correction.known, no |-> sweep.no + 1, seen |-> 0]
    /\ sums' = IF correction.known THEN sums ELSE NoSums
    /\ UNCHANGED <<ok, correction, blob, refused>>

CancelSweep ==
    /\ sweep.on
    /\ sweep' = [sweep EXCEPT !.on = FALSE]
    /\ UNCHANGED <<ok, correction, sums, blob, refused>>

(* calSave: the new blob, or the old one, or none if the renaming fails.    *)
BlobSaved(c, s) == blob' \in {[correction |-> c, sums |-> s], blob, NoBlob}

(* The gain spreads a fit of the sums may come out with; it may also fail.  *)
FitSolve(s) == IF s.points = POINTS THEN 0 .. UNEVEN ELSE {}

(* What calibrate_finish does to the correction and the sums. *)
Outcome(c, s, refusal) ==
    /\ correction' = c /\ sums' = s
    /\ refused' = refused \cup refusal

(* Mutant: the readings of a rejected sweep stay in the sums. *)
RejectKeeping(s) == Outcome(correction, s, {sweep.no})

(* The gains are unequal, and more so than those they would replace. *)
Reject(s) == Outcome(correction, NoSums, {sweep.no})

Fitted(s) ==
    \E spread \in FitSolve(s) :
        IF sweep.refine /\ spread > 0 /\ spread > correction.spread
        THEN Reject(s) /\ UNCHANGED blob
        ELSE LET fit == [known |-> TRUE, fitted |-> TRUE, from |-> s.from, spread |-> spread]
             IN  /\ Outcome(fit, s, {})
                 /\ BlobSaved(fit, s)

(* No fit: a refinement is dropped, a first sweep falls back to min/max,    *)
(* whose gains are all one.                                                 *)
NotFitted(s) ==
    IF sweep.refine THEN Outcome(correction, s, {}) /\ UNCHANGED blob
    ELSE LET ranges == [known |-> TRUE, fitted |-> FALSE, from |-> {sweep.no}, spread |-> 0]
         IN  /\ Outcome(ranges, s, {})
             /\ BlobSaved(ranges, s)

(* A reading: the device was turned since the last one, or not.  With the   *)
(* last orientation the sweep ends, and loop() saves in the same pass what  *)
(* became of it.                                                            *)
Reading(turned) ==
    LET s == [from |-> sums.from \cup {sweep.no},
              points |-> IF sums.points = POINTS THEN POINTS ELSE sums.points + 1]
        seen == sweep.seen + turned
    IN  /\ sweep.on
        /\ sweep' = [sweep EXCEPT !.seen = seen, !.on = seen < TURNS]
        /\ IF seen < TURNS THEN Outcome(correction, s, {}) /\ UNCHANGED blob
           ELSE Fitted(s) \/ NotFitted(s)
        /\ UNCHANGED ok

(* Switched off and on: the blob is loaded if there is a compass and the    *)
(* file can be read.  What is added up and not saved is gone.               *)
CalReboot ==
    \E found \in BOOLEAN, read \in BOOLEAN :
        /\ ok' = found
        /\ correction' = IF found /\ read THEN blob.correction ELSE Uncorrected
        /\ sums' = IF found /\ read THEN blob.sums ELSE NoSums
        /\ sweep' = [sweep EXCEPT !.on = FALSE, !.refine = FALSE, !.seen = 0]
        /\ UNCHANGED <<blob, refused>>

CalNext ==
    \/ StartSweep
    \/ CancelSweep
    \/ \E turned \in {0, 1} : Reading(turned)
    \/ CalReboot

CalSpec == CalInit /\ [][CalNext]_calVars

-----------------------------------------------------------------------------
Corrections == [known : BOOLEAN, fitted : BOOLEAN, from : SUBSET Sweeps, spread : 0 .. UNEVEN]

CalTypeOK ==
    /\ ok \in BOOLEAN /\ {correction, blob.correction} \subseteq Corrections
    /\ {sums, blob.sums} \subseteq [from : SUBSET Sweeps, points : 0 .. POINTS]
    /\ sweep.no \in 0 .. MAX_SWEEPS /\ sweep.seen \in 0 .. TURNS
    /\ correction.known => correction.from # {}
    /\ refused \subseteq Sweeps

(* "Drop the contaminated samples rather than leaving them to poison the    *)
(* next refine as well" (compass.cpp:924-925): no correction, in use or on  *)
(* the card, rests on readings of a sweep that was rejected for its gains,  *)
(* whatever was swept, cancelled and restarted after it.                    *)
RejectedForgotten ==
    refused \cap (correction.from \cup blob.correction.from \cup blob.sums.from) = {}

(* Not so for the others: readings of a sweep that was cancelled, or whose  *)
(* fit did not converge, stay in the sums the next one adds to.             *)
=============================================================================
