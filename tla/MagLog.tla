------------------------------- MODULE MagLog -------------------------------
(***************************************************************************)
(* maglog.cpp: rows are taken once a period while the course is usable,     *)
(* buffered, and appended to the card on several occasions.  Sizes are in   *)
(* rows.  Time is in units of the row period and stops being told apart     *)
(* past the flush interval.                                                 *)
(***************************************************************************)
EXTENDS Integers

CONSTANTS
    MAGLOG_BUF,        \* rows the buffer holds
    MAGLOG_FLUSH_MS,   \* the flush interval
    MAGLOG_MAX_BYTES,  \* rows on the card at which logging stops
    HELD_TIME          \* how long the setup portal holds loop()

ASSUME MagLogAssumption ==
    /\ {MAGLOG_BUF, MAGLOG_FLUSH_MS, MAGLOG_MAX_BYTES, HELD_TIME} \subseteq Nat
    /\ MAGLOG_BUF > 0 /\ MAGLOG_MAX_BYTES > 0

VARIABLES
    log,      \* s_available, s_enabled, s_full and s_bytes
    buffer,   \* s_len, and for how long its oldest row has been there
    timers,   \* s_lastFlush and s_lastWrite, as times since
    heldUp    \* whether loop() was held since the oldest row was buffered

magVars == <<log, buffer, timers, heldUp>>

-----------------------------------------------------------------------------
FlushOverdue == MAGLOG_FLUSH_MS + 2
Until(limit, t) == IF t > limit THEN limit ELSE t
EmptyBuffer == [rows |-> 0, oldest |-> 0]

(* The variables as one record, for the steps a pass is made of. *)
Logger == [log |-> log, buffer |-> buffer, timers |-> timers, heldUp |-> heldUp]

Becomes(l) ==
    /\ log' = l.log /\ buffer' = l.buffer /\ timers' = l.timers
    /\ heldUp' = (l.heldUp /\ l.buffer.rows > 0)

Aged(elapsed) ==
    [Logger EXCEPT
        !.timers.flush = Until(FlushOverdue, @ + elapsed),
        !.timers.write = Until(1, @ + elapsed),
        !.buffer.oldest = IF buffer.rows = 0 THEN 0
                          ELSE Until(FlushOverdue + HELD_TIME, @ + elapsed)]

Logging(l) == l.log.available /\ l.log.enabled /\ ~l.log.full

(* maglog_flush; if the append fails the rows are dropped. *)
Flushed(l, appended) ==
    IF ~l.log.available \/ l.buffer.rows = 0 THEN l
    ELSE IF ~appended THEN [l EXCEPT !.buffer = EmptyBuffer]
    ELSE [l EXCEPT !.log.card = @ + l.buffer.rows,
                   !.log.full = @ \/ l.log.card + l.buffer.rows >= MAGLOG_MAX_BYTES,
                   !.buffer = EmptyBuffer,
                   !.timers.flush = 0]

(* Mutant: there is no second opportunity. *)
FlushedIfDueNever(l, appended) == l

(* maglog_flush_if_due *)
FlushedIfDue(l, appended) ==
    IF l.timers.flush >= MAGLOG_FLUSH_MS THEN Flushed(l, appended) ELSE l

WithRow(l) ==
    [l EXCEPT !.buffer.rows = @ + 1, !.timers.write = 0]

(* maglog_poll: within the period only a flush that is overdue; past it a   *)
(* row, if course and sample are good, with room made for it first.         *)
Polled(l, good, appended) ==
    LET overdue == l.timers.flush > MAGLOG_FLUSH_MS
        roomy == IF l.buffer.rows >= MAGLOG_BUF THEN Flushed(l, appended) ELSE l
        row == WithRow(roomy)
    IN  CASE ~Logging(l) -> l
          [] Logging(l) /\ l.timers.write < 1 ->
                 IF overdue THEN Flushed(l, appended) ELSE l
          [] Logging(l) /\ l.timers.write >= 1 /\ ~good -> l
          [] OTHER -> IF row.timers.flush > MAGLOG_FLUSH_MS
                      THEN Flushed(row, appended) ELSE row

-----------------------------------------------------------------------------
(* maglog_begin on a card with so many rows, or with no card. *)
Begun(available, rows) ==
    /\ log' = [available |-> available, enabled |-> FALSE,
               full |-> available /\ rows >= MAGLOG_MAX_BYTES, card |-> rows]
    /\ buffer' = EmptyBuffer
    /\ timers' = [flush |-> 0, write |-> 1]
    /\ heldUp' = FALSE

MagInit ==
    /\ log \in [available : BOOLEAN, enabled : {FALSE}, full : {FALSE}, card : {0}]
    /\ buffer = EmptyBuffer
    /\ timers = [flush |-> 0, write |-> 1]
    /\ heldUp = FALSE

(* A pass of loop(): the poll once there is a picture, then flushIfIdle     *)
(* and, with the tile cache or the power button, a flush at any time.       *)
LogPass ==
    \E elapsed \in 0 .. 1, painted, good, anyway, first, second, third \in BOOLEAN :
        LET polled == IF painted THEN Polled(Aged(elapsed), good, first) ELSE Aged(elapsed)
            idled == FlushedIfDue(polled, second)
        IN  Becomes(IF anyway THEN Flushed(idled, third) ELSE idled)

(* The settings row: switching off flushes. *)
SwitchLog ==
    \E appended \in BOOLEAN :
        LET switched == [Logger EXCEPT !.log.enabled = ~Logging(Logger)]
        IN  /\ log.available
            /\ Becomes(IF Logging(Logger) THEN Flushed(switched, appended) ELSE switched)

(* The portal holds loop() until it is done. *)
Hold == Becomes([Aged(HELD_TIME) EXCEPT !.heldUp = TRUE])

(* Power goes, in the middle of an append or not, and comes back. *)
RestartLog ==
    \E available \in BOOLEAN, rows \in log.card .. log.card + buffer.rows :
        /\ rows = log.card \/ log.available
        /\ Begun(available, rows)

MagNext == LogPass \/ SwitchLog \/ Hold \/ RestartLog

MagSpec == MagInit /\ [][MagNext]_magVars

-----------------------------------------------------------------------------
(* The cap may be overshot by one buffer and the row it made room for.      *)
MagTypeOK ==
    /\ log \in [available : BOOLEAN, enabled : BOOLEAN, full : BOOLEAN,
                card : 0 .. MAGLOG_MAX_BYTES + MAGLOG_BUF]
    /\ buffer.rows \in 0 .. MAGLOG_BUF
    /\ timers.flush \in 0 .. FlushOverdue /\ timers.write \in 0 .. 1

(* "Thirty seconds of exposure to a power cut is the trade"                 *)
(* (maglog.cpp:31-33): no row waits in memory past the flush interval and   *)
(* the pass it ends in, also when the fix is lost, logging is switched off  *)
(* or the log is full - unless loop() itself is held.                       *)
LoggedSoon == buffer.rows > 0 /\ ~heldUp => buffer.oldest =< MAGLOG_FLUSH_MS + 1
=============================================================================
