------------------------------ MODULE ApTable ------------------------------
(***************************************************************************)
(* wifiloc.cpp's table of access points: what a learning scan folds into    *)
(* it, which records a locating scan may use, and the table's way to the    *)
(* card and back.  Places are on a line.  Strengths are left out: what is   *)
(* heard too weakly is not in the set that is heard.  Averages and weights  *)
(* are left out with them, so an estimate is the set of records it is made  *)
(* from.                                                                    *)
(***************************************************************************)
EXTENDS Integers, FiniteSets, FiniteSetsExt

CONSTANTS
    Addresses,
    Spots,             \* where the device learns, as integers
    WIFILOC_MAX,       \* records the table can hold
    WIFILOC_MIN_OBS,   \* observations before a record is used; n stops here
    WIFILOC_MIN_APS,   \* records an estimate needs
    WIFILOC_MOBILE_M   \* a record whose extent is larger is of something that moves

ASSUME ApTableAssumption ==
    /\ IsFiniteSet(Addresses) /\ Spots \subseteq Nat
    /\ {WIFILOC_MAX, WIFILOC_MIN_OBS, WIFILOC_MIN_APS, WIFILOC_MOBILE_M} \subseteq Nat
    /\ WIFILOC_MIN_OBS > 0

VARIABLES
    table,     \* s_tab, by address
    unsaved,   \* s_dirty > 0
    stored,    \* /wifiloc.csv, by address
    cardThere, \* storage_available()
    estimate   \* s_est_valid and the records used

apVars == <<table, unsaved, stored, cardThere, estimate>>

-----------------------------------------------------------------------------
(* heard is not in the code: every place the record was learned at. *)
NoRecord == [n |-> 0, low |-> 0, high |-> 0, mobile |-> FALSE, heard |-> {}]
EmptyTable == [a \in Addresses |-> NoRecord]

Recorded(records) == {a \in Addresses : records[a].n > 0}

(* Mutant: the observation before decides about a record. *)
FoldedJudgedFirst(record, spot) ==
    LET low == IF record.n = 0 \/ spot < record.low THEN spot ELSE record.low
        high == IF record.n = 0 \/ spot > record.high THEN spot ELSE record.high
        n == IF record.n < WIFILOC_MIN_OBS THEN record.n + 1 ELSE record.n
    IN  [n |-> n, low |-> low, high |-> high, heard |-> record.heard \cup {spot},
         mobile |-> record.mobile \/ (record.n >= WIFILOC_MIN_OBS /\ high - low > WIFILOC_MOBILE_M)]

(* One observation: the extent grows to take it in, and once there are      *)
(* enough of them a record that covers too much is mobile for good.         *)
Folded(record, spot) ==
    LET low == IF record.n = 0 \/ spot < record.low THEN spot ELSE record.low
        high == IF record.n = 0 \/ spot > record.high THEN spot ELSE record.high
        n == IF record.n < WIFILOC_MIN_OBS THEN record.n + 1 ELSE record.n
    IN  [n |-> n, low |-> low, high |-> high, heard |-> record.heard \cup {spot},
         mobile |-> record.mobile \/ (n >= WIFILOC_MIN_OBS /\ high - low > WIFILOC_MOBILE_M)]

(* locate leaves out what is mobile or not yet well known. *)
Locatable(record) == ~record.mobile /\ record.n >= WIFILOC_MIN_OBS

-----------------------------------------------------------------------------
ApInit ==
    /\ table = EmptyTable
    /\ unsaved = FALSE
    /\ stored = EmptyTable
    /\ cardThere \in BOOLEAN
    /\ estimate = [valid |-> FALSE, from |-> {}]

(* learn: of the addresses that are new, as many get a record as there is   *)
(* room for, in the order of the scan.                                      *)
Learn ==
    \E heard \in SUBSET Addresses, spot \in Spots :
        LET known == heard \cap Recorded(table)
            room == WIFILOC_MAX - Cardinality(Recorded(table))
            new == heard \ known
        IN  \E added \in kSubset(IF Cardinality(new) < room THEN Cardinality(new) ELSE room, new) :
                /\ table' = [a \in Addresses |-> IF a \in known \cup added
                                                 THEN Folded(table[a], spot) ELSE table[a]]
                /\ unsaved' = (unsaved \/ known \cup added # {})
                /\ UNCHANGED <<stored, cardThere, estimate>>

(* locate: no estimate leaves the last one. *)
Locate ==
    \E heard \in SUBSET Addresses :
        LET used == {a \in heard : Locatable(table[a])}
        IN  /\ Cardinality(used) >= WIFILOC_MIN_APS
            /\ estimate' = [valid |-> TRUE, from |-> used]
            /\ UNCHANGED <<table, unsaved, stored, cardThere>>

(* wifiloc_flush, when it is due, with the tile cache, or because of the    *)
(* power button; a write that fails is tried again.                         *)
FlushTable ==
    /\ unsaved
    /\ \/ ~cardThere /\ unsaved' = FALSE /\ UNCHANGED stored
       \/ cardThere /\ unsaved' = FALSE /\ stored' = table
       \/ cardThere /\ UNCHANGED <<unsaved, stored>>
    /\ UNCHANGED <<table, cardThere, estimate>>

(* wifiloc_set_enabled(false): the estimate goes at once, and the table is  *)
(* flushed.                                                                 *)
SwitchOff ==
    /\ estimate' = [valid |-> FALSE, from |-> {}]
    /\ IF unsaved /\ cardThere
       THEN \/ stored' = table /\ unsaved' = FALSE
            \/ UNCHANGED <<stored, unsaved>>
       ELSE unsaved' = FALSE /\ UNCHANGED stored
    /\ UNCHANGED <<table, cardThere>>

(* Power goes and comes back, perhaps without the card: wifiloc_begin       *)
(* starts from an empty table and takes the rows of the file.               *)
RestartTable ==
    \E there \in BOOLEAN :
        /\ cardThere' = there
        /\ table' = IF there THEN stored ELSE EmptyTable
        /\ unsaved' = FALSE
        /\ estimate' = [valid |-> FALSE, from |-> {}]
        /\ UNCHANGED stored

ApNext == Learn \/ Locate \/ FlushTable \/ SwitchOff \/ RestartTable

ApSpec == ApInit /\ [][ApNext]_apVars

-----------------------------------------------------------------------------
ApRecords == [n : 0 .. WIFILOC_MIN_OBS, low : {0} \cup Spots, high : {0} \cup Spots,
              mobile : BOOLEAN, heard : SUBSET Spots]

ApTypeOK ==
    /\ \A a \in Addresses : table[a] \in ApRecords /\ stored[a] \in ApRecords
    /\ Cardinality(Recorded(table)) =< WIFILOC_MAX
    /\ unsaved \in BOOLEAN /\ cardThere \in BOOLEAN
    /\ estimate \in [valid : BOOLEAN, from : SUBSET Addresses]

(* A record that locates was learned in one neighbourhood, whenever and     *)
(* across however many boots it was learned (wifiloc.cpp:462-474, 500-503): *)
(* what moves is never mistaken for a place once there is enough of it to   *)
(* tell.                                                                    *)
OnlyFixedLocate ==
    \A a \in Addresses :
        Locatable(table[a]) =>
            \A s, t \in table[a].heard : s - t =< WIFILOC_MOBILE_M
=============================================================================
