----------------------------- MODULE SavedFiles -----------------------------
(***************************************************************************)
(* The small files the device keeps on its card: how each is written, what  *)
(* a boot makes of what it finds, and what is left when the power goes, a   *)
(* call of the file system fails, or there is no card at all.               *)
(*                                                                          *)
(* A file is a version of the data and the number of writes of it that are  *)
(* on the card.  No two files share a path, and loop() and the task that    *)
(* saves the receiver's database never write the same one, so a behaviour   *)
(* is the life of one of them.                                              *)
(***************************************************************************)
EXTENDS Integers, Sequences, FiniteSets

CONSTANT MAX_VERSION  \* bound: how often the data in memory changes

ASSUME SavedFilesAssumption == MAX_VERSION \in Nat

VARIABLES
    file,     \* which file this is
    card,     \* what is at its path and at its temporary's, and if a card is there
    saving,   \* where in its script the save is, and whether all writes succeeded
    memory,   \* the version held in memory, and whether it is to be saved
    past      \* the last version saved, and whether the save's window was hit

filesVars == <<file, card, saving, memory, past>>

-----------------------------------------------------------------------------
SavedKinds == {"pins", "cred", "lastfix", "cal", "aop", "aps"}
ViaTemp == {"cal", "aop", "aps"}

Absent == [version |-> 0, writes |-> -1]
NotSaving == [step |-> 0, version |-> 0, ok |-> TRUE]

(* wp_save_all: the header and the list. *)
PinsScript == <<"open", "write", "write", "close">>

(* save_secret, with what went before it: the record and its HMAC. *)
CredScript == <<"remove", "open", "write", "write", "close">>

(* lastFixSave *)
LastFixScript == <<"open", "write", "close">>

(* calSave *)
CalScript == <<"open", "write", "close", "remove", "rename">>

(* aopSave: the header and the database. *)
AopScript == <<"open", "write", "write", "close", "remove", "rename">>

(* Mutant: the old table makes room for the new one. *)
TableScriptRemovingFirst ==
    <<"remove", "clear", "open", "write", "write", "close", "rename">>

(* wifiloc_flush: the header line and the rows. *)
TableScript == <<"clear", "open", "write", "write", "close", "remove", "rename">>

Script ==
    CASE file = "pins" -> PinsScript
      [] file = "cred" -> CredScript
      [] file = "lastfix" -> LastFixScript
      [] file = "cal" -> CalScript
      [] file = "aop" -> AopScript
      [] OTHER -> TableScript

Writes == Cardinality({i \in DOMAIN Script : Script[i] = "write"})

(* Where a save writes. *)
WrittenPath == IF file \in ViaTemp THEN "temp" ELSE "target"

(* wp_begin: the header, and the whole records that are there. *)
PinsAccepted(content) == content.writes >= 1

(* wifistore_load: the HMAC covers everything before it. *)
CredAccepted(content) == content.writes = 2

(* lastFixLoad: the record is read in one piece. *)
FixAccepted(content) == content.writes = 1

(* calLoad and compass_cal_import: the size is this build's. *)
CalAccepted(content) == content.writes = 1

(* aopRestore: the header says how much there is to be read. *)
DatabaseAccepted(content) == content.writes = 2

(* wifiloc_begin: the header line, and the rows that are there. *)
TableAccepted(content) == content.writes >= 1

(* What a boot would load now; version 0 is nothing. *)
Loaded(content) ==
    LET accepted == CASE file = "pins" -> PinsAccepted(content)
                      [] file = "cred" -> CredAccepted(content)
                      [] file = "lastfix" -> FixAccepted(content)
                      [] file = "cal" -> CalAccepted(content)
                      [] file = "aop" -> DatabaseAccepted(content)
                      [] OTHER -> TableAccepted(content)
    IN  IF accepted
        THEN [version |-> content.version, whole |-> content.writes = Writes]
        ELSE [version |-> 0, whole |-> TRUE]

-----------------------------------------------------------------------------
FilesInit ==
    /\ file \in SavedKinds
    /\ card \in [target : {Absent}, temp : {Absent}, there : BOOLEAN]
    /\ saving = NotSaving
    /\ memory = [version |-> 0, dirty |-> FALSE]
    /\ past = [saved |-> 0, exposed |-> FALSE]

(* A calibration, a fix, a survey, a network that was joined: in loop(),    *)
(* which saves all but the receiver's database itself.                      *)
Change ==
    /\ memory.version < MAX_VERSION
    /\ saving.step = 0 \/ file = "aop"
    /\ memory' = [version |-> memory.version + 1, dirty |-> TRUE]
    /\ UNCHANGED <<file, card, saving, past>>

(* A save of what is in memory now.  The table stays to be saved until it   *)
(* has been, the others do not.                                             *)
BeginSave ==
    /\ saving.step = 0 /\ card.there /\ memory.dirty
    /\ saving' = [step |-> 1, version |-> memory.version, ok |-> TRUE]
    /\ memory' = [memory EXCEPT !.dirty = file = "aps"]
    /\ UNCHANGED <<file, card, past>>

(* Without a card an open fails, and the table is not to be saved any more. *)
SaveNowhere ==
    /\ saving.step = 0 /\ ~card.there /\ memory.dirty
    /\ memory' = [memory EXCEPT !.dirty = FALSE]
    /\ UNCHANGED <<file, card, saving, past>>

At(op) == saving.step > 0 /\ Script[saving.step] = op
NextStep == [saving EXCEPT !.step = @ + 1]

(* A file that is replaced in place is gone from the first step that        *)
(* touches it until the last write is out.                                  *)
Exposed == [past EXCEPT !.exposed = TRUE]

(* remove, of the file or of a temporary left behind; not looked at. *)
RemoveOld ==
    /\ At("remove") \/ At("clear")
    /\ card' = [card EXCEPT ![IF At("clear") THEN "temp" ELSE "target"] = Absent]
    /\ saving' = NextStep
    /\ UNCHANGED <<file, memory, past>>

Open ==
    /\ At("open")
    /\ card' = [card EXCEPT ![WrittenPath] = [version |-> saving.version, writes |-> 0]]
    /\ saving' = NextStep
    /\ UNCHANGED <<file, memory, past>>

OpenFailed ==
    /\ At("open")
    /\ saving' = NotSaving
    /\ past' = IF file = "cred" THEN Exposed ELSE past
    /\ UNCHANGED <<file, card, memory>>

Write ==
    /\ At("write")
    /\ IF saving.ok
       THEN card' = [card EXCEPT ![WrittenPath].writes = @ + 1]
       ELSE UNCHANGED card
    /\ saving' = NextStep
    /\ UNCHANGED <<file, memory, past>>

(* A write that comes up short.  What comes after it on the card is no more. *)
WriteFailed ==
    /\ At("write") /\ saving.ok
    /\ saving' = [NextStep EXCEPT !.ok = FALSE]
    /\ past' = IF file \in ViaTemp THEN past ELSE Exposed
    /\ UNCHANGED <<file, card, memory>>

(* Mutant: what the writes returned is not looked at. *)
GivesUpNever == FALSE

(* After a failed write the temporary is removed and the file is kept. *)
GivesUp == file \in ViaTemp /\ ~saving.ok

Saved(version) ==
    /\ past' = [saved |-> version, exposed |-> FALSE]
    /\ saving' = NotSaving

Close ==
    /\ At("close")
    /\ IF GivesUp
       THEN /\ card' = [card EXCEPT !.temp = Absent]
            /\ saving' = NotSaving
            /\ UNCHANGED past
       ELSE /\ UNCHANGED card
            /\ IF saving.step < Len(Script)
               THEN saving' = NextStep /\ UNCHANGED past
               ELSE IF saving.ok THEN Saved(saving.version)
               ELSE saving' = NotSaving /\ UNCHANGED past
    /\ UNCHANGED <<file, memory>>

(* The table is not to be saved any more, even if the rename fails. *)
Renamed == [memory EXCEPT !.dirty = @ /\ file # "aps"]

Rename ==
    /\ At("rename")
    /\ card' = [card EXCEPT !.target = card.temp, !.temp = Absent]
    /\ memory' = Renamed
    /\ Saved(saving.version)
    /\ UNCHANGED file

(* Nothing is done about a rename that fails. *)
RenameFailed ==
    /\ At("rename")
    /\ saving' = NotSaving
    /\ memory' = Renamed
    /\ past' = Exposed
    /\ UNCHANGED <<file, card>>

(* What a loss of power leaves of a file that was open. *)
Cut(content) == {[content EXCEPT !.writes = n] : n \in 0 .. content.writes}

FileIsOpen == saving.step > 1 /\ \E i \in 1 .. saving.step - 1 :
                  Script[i] = "open" /\ \A j \in i .. saving.step - 1 : Script[j] # "close"

(* A cut hits the window of a save in place, or between remove and rename.  *)
InWindow ==
    IF file \in ViaTemp THEN At("rename")
    ELSE saving.step > 1

(* Power goes and comes back, perhaps without a card: a boot loads the file, *)
(* and removes a calibration that fails its checks.                         *)
Restart ==
    \E there \in BOOLEAN, found \in IF FileIsOpen THEN Cut(card[WrittenPath])
                                    ELSE {card[WrittenPath]} :
        LET left == [[card EXCEPT ![WrittenPath] = found] EXCEPT !.there = there]
            boot == IF there THEN Loaded(left.target).version ELSE 0
        IN  /\ card' = IF there /\ file = "cal" /\ boot = 0
                       THEN [left EXCEPT !.target = Absent] ELSE left
            /\ memory' = [version |-> boot, dirty |-> FALSE]
            /\ saving' = NotSaving
            /\ past' = IF InWindow THEN Exposed ELSE past
            /\ UNCHANGED file

FilesNext ==
    \/ Change \/ BeginSave \/ SaveNowhere
    \/ RemoveOld \/ Open \/ OpenFailed \/ Write \/ WriteFailed \/ Close
    \/ Rename \/ RenameFailed
    \/ Restart

FilesSpec == FilesInit /\ [][FilesNext]_filesVars

-----------------------------------------------------------------------------
FilesTypeOK ==
    /\ file \in SavedKinds
    /\ {card.target, card.temp} \subseteq
           [version : 0 .. MAX_VERSION, writes : -1 .. Writes]
    /\ saving.step \in 0 .. Len(Script)
    /\ memory \in [version : 0 .. MAX_VERSION, dirty : BOOLEAN]
    /\ past \in [saved : 0 .. MAX_VERSION, exposed : BOOLEAN]

(* "An interrupted write must not leave a file that is valid enough to      *)
(* load" (wifiloc.cpp:387-391, tab5_map.cpp:2706-2710, 2821-2823): whenever *)
(* the power goes, a boot loads a whole version or nothing.  Of the list of  *)
(* pins what survived is kept (waypoints.cpp:58-60).                        *)
NoHalfLoaded == file # "pins" => Loaded(card.target).whole

(* What was saved is what a boot loads, however many later saves failed or  *)
(* were cut, unless one was hit in its window: a record replaced in place   *)
(* while it is rewritten, one replaced by renaming only between the removal *)
(* of the old and the renaming of the new.                                  *)
KeptUnlessExposed ==
    saving.step = 0 /\ ~past.exposed => Loaded(card.target).version = past.saved
=============================================================================
