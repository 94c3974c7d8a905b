----------------------------- MODULE App_proofs -----------------------------
(***************************************************************************)
(* What holds of the parts MC_App puts together, for every value of their   *)
(* constants: each part is proved correct under its own specification, and  *)
(* a behaviour of the application is one of each part.                      *)
(***************************************************************************)
EXTENDS MC_App, FiniteSetTheorems, SequenceTheorems, TLAPS

-----------------------------------------------------------------------------
(***************************************************************************)
(* Portal                                                                   *)
(***************************************************************************)
PortalClock == 0 .. PORTAL_TICKS
PortalMessages ==
    {"none", "at least 8", "cannot derive", "writing failed", "could not connect"}
PortalScans == {"none", "running", "failed", "done"}
PortalResults == {"none", "not connected"}
Portals == [open : BOOLEAN, left : PortalClock, done : BOOLEAN,
            message : PortalMessages, scan : PortalScans, result : PortalResults]

LEMMA PortalFields ==
    /\ {0, PORTAL_TICKS} \subseteq PortalClock
    /\ \A t \in PortalClock : t > 0 => t - 1 \in PortalClock
    /\ {"none", "at least 8", "cannot derive", "writing failed", "could not connect"}
           \subseteq PortalMessages
    /\ {"none", "running", "failed", "done"} \subseteq PortalScans
    /\ {"none", "not connected"} \subseteq PortalResults
    /\ ClosedPortal \in Portals
BY PortalAssumption DEF PortalClock, PortalMessages, PortalScans, PortalResults, Portals,
   ClosedPortal

PortalInv == PortalTypeOK /\ portal \in Portals /\ StoredJoins

LEMMA PortalStep == PortalInv /\ [PortalNext]_portalVars => PortalInv'
<1> SUFFICES ASSUME PortalInv, [PortalNext]_portalVars PROVE PortalInv'
    OBVIOUS
<1> USE DEF PortalInv, PortalTypeOK
<1>1. (network \in [kind : {"wpa2", "sae"}, reachable : BOOLEAN])' /\ network'.kind = network.kind
    BY DEF PortalNext, portalVars, BootWifi, OpenPortal, ShowRoot, Rescan, PortalScanEnds,
       SubmitUnusable, Submit, ShowResult, PortalPass, LeavePortal, Reach, PortalRestart
<1>2. (radioMode \in {"off", "sta", "ap_sta"})'
    BY DEF PortalNext, portalVars, BootWifi, OpenPortal, ShowRoot, Rescan, PortalScanEnds,
       SubmitUnusable, Submit, ShowResult, PortalPass, LeavePortal, Reach, PortalRestart
<1>3. (joined \in BOOLEAN)'
    BY <1>1 DEF PortalNext, portalVars, BootWifi, OpenPortal, ShowRoot, Rescan, PortalScanEnds,
       SubmitUnusable, Submit, ShowResult, PortalPass, LeavePortal, Reach, PortalRestart
<1>4. ASSUME ~UNCHANGED credential
      PROVE  (credential \in Credentials /\ StoredJoins)'
  <2>1. PICK password \in {"right", "wrong"} : Submit(password)
    BY <1>4 DEF PortalNext, portalVars, BootWifi, OpenPortal, ShowRoot, Rescan, PortalScanEnds,
       SubmitUnusable, ShowResult, PortalPass, LeavePortal, Reach, PortalRestart
  <2>2. PICK byKey \in BOOLEAN, byPassphrase \in BOOLEAN, saved \in BOOLEAN :
           /\ byKey => Accepts([password |-> password, kind |-> "psk"])
           /\ byPassphrase => Accepts([password |-> password, kind |-> "passphrase"])
           /\ saved => byKey \/ byPassphrase
           /\ \/ saved /\ credential' = StoredAs(password, byKey)
              \/ credential' = NoCredential
    BY <1>4, <2>1 DEF Submit, MayJoin
  <2>3. CASE credential' = NoCredential
    BY <2>3 DEF StoredJoins, Credentials
  <2>4. CASE credential' # NoCredential
    <3>1. credential' = [password |-> password, kind |-> IF byKey THEN "psk" ELSE "passphrase"]
      BY <2>2, <2>4 DEF StoredAs
    <3>2. credential'.password = password /\ credential'.kind = IF byKey THEN "psk" ELSE "passphrase"
      BY <3>1
    <3>3. Accepts(credential)'
      BY <1>1, <2>2, <2>4, <3>2 DEF Accepts
    <3> QED BY <2>1, <3>1, <3>3 DEF StoredJoins, Credentials
  <2> QED BY <2>3, <2>4
<1>5. ASSUME UNCHANGED credential
      PROVE  (credential \in Credentials /\ StoredJoins)'
    BY <1>1, <1>5 DEF StoredJoins, Accepts
<1>6. (portal \in Portals)'
  <2>1. CASE UNCHANGED portal \/ portal' = ClosedPortal
    BY <2>1, PortalFields
  <2>2. CASE OpenPortal
    <3>1. portal' = [open |-> TRUE, left |-> PORTAL_TICKS, done |-> FALSE, message |-> "none",
                     scan |-> "running", result |-> "none"]
      BY <2>2 DEF OpenPortal, ClosedPortal
    <3> QED BY <3>1, PortalFields DEF Portals
  <2>3. CASE ShowRoot
    BY <2>3, PortalFields DEF ShowRoot, Portals
  <2>4. CASE Rescan
    BY <2>4, PortalFields DEF Rescan, Portals
  <2>5. CASE SubmitUnusable
    BY <2>5, PortalFields DEF SubmitUnusable, Portals
  <2>6. CASE ShowResult
    BY <2>6, PortalFields DEF ShowResult, Portals
  <2>7. CASE PortalPass
    BY <2>7, PortalFields DEF PortalPass, Portals
  <2>8. ASSUME NEW result \in {"failed", "done"}, PortalScanEnds(result)
        PROVE  (portal \in Portals)'
    BY <2>8, PortalFields DEF PortalScanEnds, Portals
  <2>9. ASSUME NEW password \in {"right", "wrong"}, Submit(password)
        PROVE  (portal \in Portals)'
    <3>1. PICK saved \in BOOLEAN, m \in PortalMessages :
             portal' = [portal EXCEPT !.done = saved, !.message = m]
      BY <2>9, PortalFields DEF Submit
    <3> QED BY <3>1 DEF Portals
  <2> QED BY <2>1, <2>2, <2>3, <2>4, <2>5, <2>6, <2>7, <2>8, <2>9
          DEF PortalNext, portalVars, BootWifi, LeavePortal, Reach, PortalRestart
<1>7. (portal.left \in 0 .. PORTAL_TICKS)'
    BY <1>6 DEF Portals, PortalClock
<1> QED BY <1>1, <1>2, <1>3, <1>4, <1>5, <1>6, <1>7

(* What the next boot finds on the card is what the network accepts,        *)
(* whatever was typed and however the attempts went (portal.h:7-10).        *)
THEOREM StoredCredentialsJoin == PortalSpec => [](PortalTypeOK /\ StoredJoins)
<1>1. ASSUME PortalInit PROVE PortalInv
  <2>1. network \in [kind : {"wpa2", "sae"}, reachable : BOOLEAN]
    BY <1>1 DEF PortalInit
  <2>2. radioMode \in {"off", "sta", "ap_sta"} /\ joined \in BOOLEAN
    BY <1>1 DEF PortalInit
  <2>3. credential \in Credentials /\ StoredJoins
    BY <1>1 DEF PortalInit, Credentials, StoredJoins
  <2>4. portal.left \in 0 .. PORTAL_TICKS
    BY <1>1, PortalAssumption DEF PortalInit, ClosedPortal
  <2>5. portal \in Portals
    BY <1>1, PortalFields DEF PortalInit
  <2> QED BY <2>1, <2>2, <2>3, <2>4, <2>5 DEF PortalInv, PortalTypeOK
<1>2. PortalInv => PortalTypeOK /\ StoredJoins
    BY DEF PortalInv
<1> QED BY <1>1, <1>2, PortalStep, PTL DEF PortalSpec

-----------------------------------------------------------------------------
(***************************************************************************)
(* The magnetometer log                                                     *)
(***************************************************************************)
RowCounts == 0 .. MAGLOG_BUF
WriteAges == 0 .. 1
FlushAges == 0 .. FlushOverdue
MagLogs == [available : BOOLEAN, enabled : BOOLEAN, full : BOOLEAN, card : Nat]
MagBuffers == [rows : RowCounts, oldest : Nat]
MagTimers == [flush : FlushAges, write : WriteAges]
Loggers == [log : MagLogs, buffer : MagBuffers, timers : MagTimers, heldUp : BOOLEAN]

(* Rows are only there if there is a card, and there is room for them on it.*)
RowsFit(l) ==
    /\ l.log.card + l.buffer.rows =< MAGLOG_MAX_BYTES + MAGLOG_BUF
    /\ l.log.available /\ ~l.log.full => l.log.card < MAGLOG_MAX_BYTES
    /\ l.buffer.rows > 0 => l.log.available
    /\ l.buffer.rows = 0 => l.buffer.oldest = 0

(* The oldest row was not there yet at the last flush. *)
SinceFlush(l) == l.buffer.rows > 0 /\ ~l.heldUp => l.buffer.oldest =< l.timers.flush

SoundLogger(l) == l \in Loggers /\ RowsFit(l) /\ SinceFlush(l)

(* Between two passes no flush is due. *)
NotDue(l) == l.buffer.rows > 0 /\ ~l.heldUp => l.timers.flush < MAGLOG_FLUSH_MS

LEMMA MagFacts ==
    /\ {MAGLOG_BUF, MAGLOG_FLUSH_MS, MAGLOG_MAX_BYTES, HELD_TIME} \subseteq Nat
    /\ MAGLOG_BUF > 0 /\ MAGLOG_MAX_BYTES > 0
    /\ FlushOverdue \in Nat
BY MagLogAssumption DEF FlushOverdue

(* What the fields of a logger are. *)
LEMMA LoggerFields ==
    ASSUME NEW l \in Loggers
    PROVE  /\ l.log \in MagLogs /\ l.buffer \in MagBuffers /\ l.timers \in MagTimers
           /\ l.heldUp \in BOOLEAN
           /\ l.log.available \in BOOLEAN /\ l.log.full \in BOOLEAN /\ l.log.card \in Nat
           /\ l.buffer.rows \in Nat /\ l.buffer.rows =< MAGLOG_BUF /\ l.buffer.oldest \in Nat
           /\ l.timers.flush \in Nat /\ l.timers.flush =< FlushOverdue
           /\ l.timers.write \in 0 .. 1
BY MagFacts DEF Loggers, MagLogs, MagBuffers, MagTimers, RowCounts, WriteAges, FlushAges

(* A flush leaves nothing in the buffer, whether it succeeds or not.        *)
LEMMA FlushedSound ==
    ASSUME NEW l, SoundLogger(l), NEW appended \in BOOLEAN
    PROVE  /\ SoundLogger(Flushed(l, appended))
           /\ Flushed(l, appended).buffer.rows = 0
           /\ Flushed(l, appended).log.available = l.log.available
           /\ Flushed(l, appended).log.card =< l.log.card + l.buffer.rows
<1> DEFINE f == Flushed(l, appended)
<1> USE DEF SoundLogger, RowsFit, SinceFlush
<1>0. l \in Loggers
    OBVIOUS
<1>1. CASE ~l.log.available \/ l.buffer.rows = 0
    BY <1>1, LoggerFields DEF Flushed
<1>2. CASE l.log.available /\ l.buffer.rows # 0 /\ ~appended
  <2>1. f = [l EXCEPT !.buffer = EmptyBuffer]
    BY <1>2 DEF Flushed
  <2>2. EmptyBuffer \in MagBuffers
    BY MagFacts DEF EmptyBuffer, MagBuffers, RowCounts
  <2>3. f \in Loggers
    BY <1>0, <2>1, <2>2 DEF Loggers
  <2>4. f.log = l.log /\ f.buffer.rows = 0 /\ f.buffer.oldest = 0
    BY <1>0, <2>1 DEF Loggers, EmptyBuffer
  <2> QED BY <2>3, <2>4, LoggerFields, MagFacts
<1>3. CASE l.log.available /\ l.buffer.rows # 0 /\ appended
  <2> DEFINE size == l.log.card + l.buffer.rows
             full == l.log.full \/ size >= MAGLOG_MAX_BYTES
  <2>1. f = [l EXCEPT !.log.card = size, !.log.full = full, !.buffer = EmptyBuffer,
                      !.timers.flush = 0]
    BY <1>3 DEF Flushed
  <2>2. EmptyBuffer \in MagBuffers /\ 0 \in FlushAges
    BY MagFacts DEF EmptyBuffer, MagBuffers, RowCounts, FlushAges
  <2>3. size \in Nat /\ full \in BOOLEAN
    BY LoggerFields
  <2> HIDE DEF size, full
  <2>4. f = [log |-> [available |-> l.log.available, enabled |-> l.log.enabled, full |-> full,
                      card |-> size],
             buffer |-> EmptyBuffer,
             timers |-> [flush |-> 0, write |-> l.timers.write], heldUp |-> l.heldUp]
    BY <1>0, <2>1 DEF Loggers, MagLogs, MagTimers
  <2>5. f \in Loggers
    BY <1>0, <2>2, <2>3, <2>4 DEF Loggers, MagLogs, MagTimers
  <2>6. /\ f.log.card = size /\ f.log.full = full /\ f.log.available = l.log.available
        /\ f.buffer.rows = 0 /\ f.buffer.oldest = 0
    BY <2>4 DEF EmptyBuffer
  <2> QED BY <2>3, <2>5, <2>6, LoggerFields, MagFacts DEF size, full
<1> QED BY <1>1, <1>2, <1>3

LEMMA FlushedIfDueSound ==
    ASSUME NEW l, SoundLogger(l), NEW appended \in BOOLEAN
    PROVE  /\ SoundLogger(FlushedIfDue(l, appended))
           /\ NotDue(FlushedIfDue(l, appended))
<1>1. CASE l.timers.flush >= MAGLOG_FLUSH_MS
    BY <1>1, FlushedSound DEF FlushedIfDue, NotDue
<1>2. CASE ~(l.timers.flush >= MAGLOG_FLUSH_MS)
    BY <1>2, LoggerFields, MagFacts DEF FlushedIfDue, NotDue, SoundLogger
<1> QED BY <1>1, <1>2

(* A row is only taken while the log is not full, and room is made first.   *)
LEMMA WithRowSound ==
    ASSUME NEW l, SoundLogger(l), l.log.available,
           l.buffer.rows < MAGLOG_BUF,
           l.log.card + l.buffer.rows < MAGLOG_MAX_BYTES + MAGLOG_BUF
    PROVE  SoundLogger(WithRow(l))
<1> USE DEF SoundLogger, RowsFit, SinceFlush
<1> DEFINE rows == l.buffer.rows + 1
<1>1. l \in Loggers
    OBVIOUS
<1>2. rows \in RowCounts /\ 0 \in WriteAges /\ rows > 0
    BY <1>1, LoggerFields, MagFacts DEF RowCounts, WriteAges
<1>3. WithRow(l) = [l EXCEPT !.buffer.rows = rows, !.timers.write = 0]
    BY DEF WithRow
<1> HIDE DEF rows
<1>4. WithRow(l) = [log |-> l.log, buffer |-> [rows |-> rows, oldest |-> l.buffer.oldest],
                    timers |-> [flush |-> l.timers.flush, write |-> 0], heldUp |-> l.heldUp]
    BY <1>1, <1>3 DEF Loggers, MagBuffers, MagTimers
<1>5. WithRow(l) \in Loggers
    BY <1>1, <1>2, <1>4 DEF Loggers, MagBuffers, MagTimers
<1>6. /\ WithRow(l).log = l.log /\ WithRow(l).buffer.rows = rows
      /\ WithRow(l).buffer.oldest = l.buffer.oldest
      /\ WithRow(l).timers.flush = l.timers.flush /\ WithRow(l).heldUp = l.heldUp
    BY <1>4
<1>7. l.buffer.rows = 0 => l.buffer.oldest =< l.timers.flush
    BY <1>1, LoggerFields
<1> QED BY <1>1, <1>2, <1>5, <1>6, <1>7, LoggerFields, MagFacts DEF rows

LEMMA PolledSound ==
    ASSUME NEW l, SoundLogger(l), NEW good \in BOOLEAN, NEW appended \in BOOLEAN
    PROVE  SoundLogger(Polled(l, good, appended))
<1> DEFINE roomy == IF l.buffer.rows >= MAGLOG_BUF THEN Flushed(l, appended) ELSE l
           row == WithRow(roomy)
           last == IF row.timers.flush > MAGLOG_FLUSH_MS THEN Flushed(row, appended) ELSE row
<1>1. CASE Polled(l, good, appended) \in {l, Flushed(l, appended)}
    BY <1>1, FlushedSound
<1>2. CASE Logging(l) /\ Polled(l, good, appended) = last
  <2>1. l \in Loggers /\ l.log.available /\ l.log.card < MAGLOG_MAX_BYTES
    BY <1>2 DEF Logging, SoundLogger, RowsFit
  <2>2. /\ SoundLogger(roomy) /\ roomy.log.available
        /\ roomy.buffer.rows < MAGLOG_BUF
        /\ roomy.log.card + roomy.buffer.rows < MAGLOG_MAX_BYTES + MAGLOG_BUF
    <3>1. CASE l.buffer.rows >= MAGLOG_BUF
      <4>1. SoundLogger(roomy) /\ roomy.buffer.rows = 0 /\ roomy \in Loggers
        BY <3>1, FlushedSound DEF SoundLogger
      <4>2. roomy.log.available /\ roomy.log.card =< l.log.card + l.buffer.rows
        BY <2>1, <3>1, FlushedSound
      <4>3. roomy.log.card < MAGLOG_MAX_BYTES + MAGLOG_BUF
        BY <2>1, <4>1, <4>2, LoggerFields, MagFacts
      <4> QED BY <4>1, <4>2, <4>3, LoggerFields, MagFacts
    <3>2. CASE ~(l.buffer.rows >= MAGLOG_BUF)
      BY <2>1, <3>2, LoggerFields, MagFacts
    <3> QED BY <3>1, <3>2
  <2>3. SoundLogger(row)
    BY <2>2, WithRowSound
  <2> HIDE DEF row
  <2>4. SoundLogger(last)
    BY <2>3, FlushedSound
  <2> QED BY <1>2, <2>4
<1>3. \/ Polled(l, good, appended) \in {l, Flushed(l, appended)}
      \/ Logging(l) /\ Polled(l, good, appended) = last
  <2>1. CASE ~Logging(l)
    BY <2>1 DEF Polled
  <2>2. CASE Logging(l) /\ l.timers.write < 1
    BY <2>2 DEF Polled
  <2>3. CASE Logging(l) /\ ~(l.timers.write < 1) /\ ~good
    BY <2>3, LoggerFields DEF Polled, SoundLogger
  <2>4. CASE Logging(l) /\ ~(l.timers.write < 1) /\ good
    BY <2>4, LoggerFields DEF Polled, SoundLogger
  <2> QED BY <2>1, <2>2, <2>3, <2>4
<1> QED BY <1>1, <1>2, <1>3

LEMMA AgedSound ==
    ASSUME SoundLogger(Logger), NotDue(Logger), NEW elapsed \in Nat
    PROVE  /\ Aged(elapsed) \in Loggers /\ RowsFit(Aged(elapsed))
           /\ elapsed =< 1 => SinceFlush(Aged(elapsed))
<1> DEFINE flush == Until(FlushOverdue, timers.flush + elapsed)
           write == Until(1, timers.write + elapsed)
           oldest == IF buffer.rows = 0 THEN 0
                     ELSE Until(FlushOverdue + HELD_TIME, buffer.oldest + elapsed)
<1>1. /\ Logger \in Loggers /\ RowsFit(Logger) /\ SinceFlush(Logger)
      /\ Logger.log = log /\ Logger.buffer = buffer /\ Logger.timers = timers
      /\ Logger.heldUp = heldUp
    BY DEF Logger, SoundLogger
<1>2. flush \in FlushAges /\ write \in WriteAges /\ oldest \in Nat
    BY <1>1, LoggerFields, MagFacts DEF FlushAges, WriteAges, Until
<1>3. ASSUME elapsed =< 1, buffer.rows > 0, ~heldUp PROVE oldest =< flush
    BY <1>1, <1>3, LoggerFields, MagFacts DEF SinceFlush, NotDue, Until, FlushOverdue
<1>4. Aged(elapsed) = [Logger EXCEPT !.timers.flush = flush, !.timers.write = write,
                                     !.buffer.oldest = oldest]
    BY <1>1 DEF Aged
<1>5. buffer.rows = 0 => oldest = 0
    OBVIOUS
<1> HIDE DEF flush, write, oldest
<1>6. Aged(elapsed) = [log |-> log, buffer |-> [rows |-> buffer.rows, oldest |-> oldest],
                       timers |-> [flush |-> flush, write |-> write], heldUp |-> heldUp]
    BY <1>1, <1>4 DEF Logger, Loggers, MagBuffers, MagTimers
<1>7. Aged(elapsed) \in Loggers
    BY <1>1, <1>2, <1>6 DEF Loggers, MagBuffers, MagTimers
<1>8. /\ Aged(elapsed).log = log /\ Aged(elapsed).buffer.rows = buffer.rows
      /\ Aged(elapsed).buffer.oldest = oldest /\ Aged(elapsed).timers.flush = flush
      /\ Aged(elapsed).heldUp = heldUp
    BY <1>6
<1> QED BY <1>1, <1>3, <1>5, <1>7, <1>8 DEF RowsFit, SinceFlush

MagInv == SoundLogger(Logger) /\ NotDue(Logger)

(* The variables become a logger that is sound and has no flush due.        *)
LEMMA BecomesSound ==
    ASSUME NEW l, SoundLogger(l), NotDue(l), Becomes(l)
    PROVE  MagInv'
<1>1. /\ l \in Loggers /\ RowsFit(l) /\ SinceFlush(l)
      /\ l.buffer.rows \in Nat /\ l.heldUp \in BOOLEAN
    BY LoggerFields DEF SoundLogger
<1>2. Logger' = [log |-> l.log, buffer |-> l.buffer, timers |-> l.timers,
                 heldUp |-> l.heldUp /\ l.buffer.rows > 0]
    BY DEF Becomes, Logger
<1>3. Logger' \in Loggers
    BY <1>1, <1>2 DEF Loggers
<1>4. /\ Logger'.log = l.log /\ Logger'.buffer = l.buffer /\ Logger'.timers = l.timers
      /\ Logger'.buffer.rows > 0 => (Logger'.heldUp <=> l.heldUp)
    BY <1>1, <1>2
<1>5. RowsFit(Logger')
    BY <1>1, <1>4 DEF RowsFit
<1>6. SinceFlush(Logger') /\ NotDue(Logger')
    BY <1>1, <1>4 DEF SinceFlush, NotDue
<1>7. SoundLogger(Logger') /\ NotDue(Logger')
    BY <1>3, <1>5, <1>6 DEF SoundLogger
<1> QED BY <1>7 DEF MagInv, SoundLogger, RowsFit, SinceFlush, NotDue, Logger

(* A logger whose buffer is empty has no flush due. *)
LEMMA EmptyNotDue ==
    ASSUME NEW l, l.buffer.rows = 0 PROVE NotDue(l)
BY DEF NotDue

LEMMA MagStep == MagInv /\ [MagNext]_magVars => MagInv'
<1> SUFFICES ASSUME MagInv, [MagNext]_magVars PROVE MagInv'
    OBVIOUS
<1>0. /\ SoundLogger(Logger) /\ NotDue(Logger) /\ Logger \in Loggers
      /\ Logger.log = log /\ Logger.buffer = buffer /\ Logger.timers = timers
      /\ Logger.heldUp = heldUp
    BY DEF MagInv, SoundLogger, Logger
<1>1. CASE LogPass
  <2>1. PICK elapsed \in 0 .. 1, painted \in BOOLEAN, good \in BOOLEAN, anyway \in BOOLEAN,
             first \in BOOLEAN, second \in BOOLEAN, third \in BOOLEAN :
           LET polled == IF painted THEN Polled(Aged(elapsed), good, first) ELSE Aged(elapsed)
               idled == FlushedIfDue(polled, second)
           IN  Becomes(IF anyway THEN Flushed(idled, third) ELSE idled)
    BY <1>1 DEF LogPass
  <2> DEFINE polled == IF painted THEN Polled(Aged(elapsed), good, first) ELSE Aged(elapsed)
             idled == FlushedIfDue(polled, second)
             flushed == IF anyway THEN Flushed(idled, third) ELSE idled
  <2>2. SoundLogger(Aged(elapsed))
    BY <1>0, AgedSound DEF SoundLogger
  <2>3. SoundLogger(polled)
    BY <2>2, PolledSound
  <2>4. SoundLogger(idled) /\ NotDue(idled)
    <3> HIDE DEF polled
    <3> QED BY <2>3, FlushedIfDueSound
  <2>5. SoundLogger(flushed) /\ NotDue(flushed)
    <3> HIDE DEF idled
    <3> QED BY <2>4, FlushedSound, EmptyNotDue
  <2>6. Becomes(flushed)
    BY <2>1
  <2> HIDE DEF flushed
  <2> QED BY <2>5, <2>6, BecomesSound
<1>2. CASE SwitchLog
  <2> DEFINE on == ~Logging(Logger)
             switched == [Logger EXCEPT !.log.enabled = on]
  <2>1. PICK appended \in BOOLEAN :
           Becomes(IF Logging(Logger) THEN Flushed(switched, appended) ELSE switched)
    BY <1>2 DEF SwitchLog
  <2>2. on \in BOOLEAN
    BY DEF Logging
  <2>3. switched \in Loggers
    <3> HIDE DEF on
    <3>1. switched = [log |-> [log EXCEPT !.enabled = on], buffer |-> buffer,
                      timers |-> timers, heldUp |-> heldUp]
      BY <1>0 DEF Loggers, Logger
    <3> QED BY <1>0, <2>2, <3>1 DEF Loggers, MagLogs
  <2>4. /\ switched.log.available = log.available /\ switched.log.full = log.full
        /\ switched.log.card = log.card /\ switched.buffer = buffer
        /\ switched.timers = timers /\ switched.heldUp = heldUp
    <3> HIDE DEF on
    <3> QED BY <1>0 DEF Loggers, MagLogs, Logger
  <2> HIDE DEF switched
  <2>5. SoundLogger(switched) /\ NotDue(switched)
    BY <1>0, <2>3, <2>4 DEF SoundLogger, RowsFit, SinceFlush, NotDue
  <2> QED BY <2>1, <2>5, FlushedSound, EmptyNotDue, BecomesSound
<1>3. CASE Hold
  <2> DEFINE held == [Aged(HELD_TIME) EXCEPT !.heldUp = TRUE]
  <2>1. Aged(HELD_TIME) \in Loggers /\ RowsFit(Aged(HELD_TIME))
    BY <1>0, AgedSound, MagFacts
  <2>2. /\ held \in Loggers /\ held.log = Aged(HELD_TIME).log
        /\ held.buffer = Aged(HELD_TIME).buffer /\ held.heldUp = TRUE
    BY <2>1 DEF Loggers
  <2>3. Becomes(held)
    BY <1>3 DEF Hold
  <2> HIDE DEF held
  <2>4. SoundLogger(held) /\ NotDue(held)
    BY <2>1, <2>2 DEF SoundLogger, RowsFit, SinceFlush, NotDue
  <2> QED BY <2>3, <2>4, BecomesSound
<1>4. CASE RestartLog
  <2>1. PICK available \in BOOLEAN, rows \in log.card .. log.card + buffer.rows :
           Begun(available, rows)
    BY <1>4 DEF RestartLog
  <2>2. /\ log.card \in Nat /\ buffer.rows \in Nat
        /\ log.card + buffer.rows =< MAGLOG_MAX_BYTES + MAGLOG_BUF
    BY <1>0, LoggerFields DEF SoundLogger, RowsFit
  <2>3. rows \in Nat /\ rows =< MAGLOG_MAX_BYTES + MAGLOG_BUF
    BY <2>1, <2>2, MagFacts
  <2> DEFINE full == available /\ rows >= MAGLOG_MAX_BYTES
  <2>4. Logger' = [log |-> [available |-> available, enabled |-> FALSE, full |-> full,
                            card |-> rows],
                   buffer |-> [rows |-> 0, oldest |-> 0],
                   timers |-> [flush |-> 0, write |-> 1], heldUp |-> FALSE]
    BY <2>1 DEF Begun, Logger, EmptyBuffer
  <2>5. full \in BOOLEAN /\ 0 \in RowCounts /\ 0 \in FlushAges /\ 1 \in WriteAges
    BY MagFacts DEF RowCounts, FlushAges, WriteAges
  <2>6. available /\ ~full => rows < MAGLOG_MAX_BYTES
    BY <2>3, MagFacts
  <2> HIDE DEF full
  <2>7. Logger' \in Loggers
    BY <2>3, <2>4, <2>5 DEF Loggers, MagLogs, MagBuffers, MagTimers
  <2>8. SoundLogger(Logger') /\ NotDue(Logger')
    BY <2>3, <2>4, <2>6, <2>7, MagFacts DEF SoundLogger, RowsFit, SinceFlush, NotDue
  <2> QED BY <2>8 DEF MagInv, SoundLogger, RowsFit, SinceFlush, NotDue, Logger
<1>5. CASE UNCHANGED magVars
    BY <1>5 DEF magVars, MagInv, SoundLogger, RowsFit, SinceFlush, NotDue, Logger
<1> QED BY <1>1, <1>2, <1>3, <1>4, <1>5 DEF MagNext

(* No row waits in memory past the flush interval, whatever of fix, card    *)
(* and switch comes and goes, unless loop() itself is held                  *)
(* (maglog.cpp:31-33); and the log overshoots its cap by no more than one   *)
(* buffer.                                                                  *)
THEOREM RowsReachTheCard == MagSpec => [](MagTypeOK /\ LoggedSoon)
<1>1. ASSUME MagInit PROVE MagInv
  <2>1. PICK available \in BOOLEAN :
           Logger = [log |-> [available |-> available, enabled |-> FALSE, full |-> FALSE,
                              card |-> 0],
                     buffer |-> [rows |-> 0, oldest |-> 0],
                     timers |-> [flush |-> 0, write |-> 1], heldUp |-> FALSE]
    BY <1>1 DEF MagInit, Logger, EmptyBuffer
  <2>2. 0 \in RowCounts /\ 0 \in FlushAges /\ 1 \in WriteAges
    BY MagFacts DEF RowCounts, FlushAges, WriteAges
  <2>3. Logger \in Loggers
    BY <2>1, <2>2 DEF Loggers, MagLogs, MagBuffers, MagTimers
  <2> QED BY <2>1, <2>3, MagFacts DEF MagInv, SoundLogger, RowsFit, SinceFlush, NotDue
<1>2. ASSUME MagInv PROVE MagTypeOK /\ LoggedSoon
  <2>1. /\ Logger \in Loggers /\ RowsFit(Logger) /\ SinceFlush(Logger) /\ NotDue(Logger)
        /\ Logger.log = log /\ Logger.buffer = buffer /\ Logger.timers = timers
        /\ Logger.heldUp = heldUp
    BY <1>2 DEF MagInv, SoundLogger, Logger
  <2>2. log.card \in 0 .. MAGLOG_MAX_BYTES + MAGLOG_BUF
    BY <2>1, LoggerFields, MagFacts DEF RowsFit
  <2>3. log \in [available : BOOLEAN, enabled : BOOLEAN, full : BOOLEAN,
                 card : 0 .. MAGLOG_MAX_BYTES + MAGLOG_BUF]
    BY <2>1, <2>2, LoggerFields DEF MagLogs
  <2>4. /\ buffer.rows \in 0 .. MAGLOG_BUF
        /\ timers.flush \in 0 .. FlushOverdue /\ timers.write \in 0 .. 1
    BY <2>1, LoggerFields, MagFacts
  <2>5. LoggedSoon
    BY <2>1, LoggerFields, MagFacts DEF SinceFlush, NotDue, LoggedSoon
  <2> QED BY <2>3, <2>4, <2>5 DEF MagTypeOK
<1> QED BY <1>1, <1>2, MagStep, PTL DEF MagSpec

-----------------------------------------------------------------------------
(***************************************************************************)
(* Calibration                                                              *)
(***************************************************************************)
SweepNumbers == 0 .. MAX_SWEEPS
Turnings == 0 .. TURNS
Spreads == 0 .. UNEVEN
PointCounts == 0 .. POINTS
Sums == [from : SUBSET Sweeps, points : PointCounts]
SweepStates == [on : BOOLEAN, refine : BOOLEAN, no : SweepNumbers, seen : Turnings]
Fits == [known : BOOLEAN, fitted : BOOLEAN, from : SUBSET Sweeps, spread : Spreads]

CalTyped ==
    /\ ok \in BOOLEAN /\ correction \in Fits /\ sums \in Sums
    /\ sweep \in SweepStates
    /\ blob \in [correction : Fits, sums : Sums]
    /\ refused \in SUBSET Sweeps
    /\ correction.known => correction.from # {}
    /\ blob.correction.known => blob.correction.from # {}

(* The sweeps that a correction in use, or what is on the card, rests on.   *)
Settled == correction.from \cup blob.correction.from \cup blob.sums.from

(* A sweep is no later than the last, what was rejected is nowhere, and     *)
(* the sweep that runs has not been judged.                                 *)
CalTraced ==
    /\ \A i \in Settled \cup sums.from \cup refused : i =< sweep.no
    /\ refused \cap (Settled \cup sums.from) = {}
    /\ sweep.on => /\ sweep.no \in Sweeps /\ sweep.seen < TURNS
                   /\ sweep.no \notin Settled \cup refused

CalInv == CalTyped /\ CalTraced

LEMMA CalFacts ==
    /\ TURNS \in Nat /\ POINTS \in Nat /\ MAX_SWEEPS \in Nat /\ UNEVEN \in Nat
    /\ TURNS > 0 /\ POINTS > 0 /\ MAX_SWEEPS > 0
    /\ 0 \in SweepNumbers /\ 0 \in Turnings /\ 0 \in Spreads /\ 0 \in PointCounts
    /\ Uncorrected \in Fits /\ NoSums \in Sums
    /\ NoBlob \in [correction : Fits, sums : Sums]
    /\ \A i \in Sweeps : i \in SweepNumbers /\ i \in Nat
    /\ \A i \in SweepNumbers : i < MAX_SWEEPS => i + 1 \in Sweeps /\ i \in Nat
<1>1. /\ TURNS \in Nat /\ POINTS \in Nat /\ MAX_SWEEPS \in Nat /\ UNEVEN \in Nat
      /\ TURNS > 0 /\ POINTS > 0 /\ MAX_SWEEPS > 0
    BY CalAssumption
<1>2. 0 \in SweepNumbers /\ 0 \in Turnings /\ 0 \in Spreads /\ 0 \in PointCounts
    BY <1>1 DEF SweepNumbers, Turnings, Spreads, PointCounts
<1>3. Uncorrected \in Fits /\ NoSums \in Sums
    BY <1>2 DEF Uncorrected, NoSums, Fits, Sums
<1>4. NoBlob \in [correction : Fits, sums : Sums]
    BY <1>3 DEF NoBlob
<1>5. /\ \A i \in Sweeps : i \in SweepNumbers /\ i \in Nat
      /\ \A i \in SweepNumbers : i < MAX_SWEEPS => i + 1 \in Sweeps /\ i \in Nat
    BY <1>1 DEF Sweeps, SweepNumbers
<1> QED BY <1>1, <1>2, <1>3, <1>4, <1>5

(* What a sweep that ends may leave: its correction is new or the old one,  *)
(* and the card has what is in use or what it had; or it is rejected and    *)
(* the sums are empty.                                                      *)
LEMMA OutcomeTraced ==
    ASSUME CalInv, sweep.on, sweep'.no = sweep.no, sweep'.on => sweep'.seen < TURNS,
           CalTyped',
           sweep'.on => Settled' = Settled /\ refused' = refused,
           \/ /\ refused' = refused
              /\ Settled' \cup sums'.from \subseteq Settled \cup sums.from \cup {sweep.no}
           \/ /\ refused' = refused \cup {sweep.no}
              /\ Settled' = Settled /\ sums'.from = {}
    PROVE  CalInv'
<1>1. sweep.no \in Nat /\ sweep.no \in Sweeps
    BY CalFacts DEF CalInv, CalTraced
<1>2. refused \subseteq Nat /\ Settled \cup sums.from \subseteq Nat
    BY CalFacts DEF CalInv, CalTyped, Settled, Fits, Sums
<1>3. (\A i \in Settled \cup sums.from \cup refused : i =< sweep.no)'
    BY <1>1, <1>2 DEF CalInv, CalTraced
<1>4. (refused \cap (Settled \cup sums.from) = {})'
    BY <1>1 DEF CalInv, CalTraced
<1>5. (sweep.on => /\ sweep.no \in Sweeps /\ sweep.seen < TURNS
                   /\ sweep.no \notin Settled \cup refused)'
    BY <1>1 DEF CalInv, CalTraced
<1> QED BY <1>3, <1>4, <1>5 DEF CalInv, CalTraced

LEMMA CalStep == CalInv /\ [CalNext]_calVars => CalInv'
<1> SUFFICES ASSUME CalInv, [CalNext]_calVars PROVE CalInv'
    OBVIOUS
<1>0. /\ ok \in BOOLEAN /\ correction \in Fits /\ sums \in Sums /\ sweep \in SweepStates
      /\ blob \in [correction : Fits, sums : Sums] /\ refused \in SUBSET Sweeps
      /\ blob.correction \in Fits /\ blob.sums \in Sums
      /\ sweep.no \in SweepNumbers /\ sweep.seen \in Turnings
      /\ sweep.no \in Nat /\ sweep.seen \in Nat
      /\ sums.from \in SUBSET Sweeps /\ sums.points \in PointCounts
    BY CalFacts DEF CalInv, CalTyped, SweepStates, SweepNumbers, Turnings, Sums
<1>1. CASE StartSweep
  <2>1. sweep' = [on |-> TRUE, refine |-> correction.known, no |-> sweep.no + 1, seen |-> 0]
    BY <1>1 DEF StartSweep
  <2>2. sweep.no + 1 \in Sweeps /\ sweep.no + 1 \in SweepNumbers /\ sweep.no + 1 > sweep.no
    BY <1>0, <1>1, CalFacts DEF StartSweep
  <2>3. sweep' \in SweepStates
    BY <1>0, <2>1, <2>2, CalFacts DEF SweepStates, Fits
  <2>4. sums' \in Sums /\ sums'.from \subseteq sums.from
    BY <1>0, <1>1, CalFacts DEF StartSweep, NoSums
  <2>5. CalTyped'
    BY <1>0, <1>1, <2>3, <2>4 DEF StartSweep, CalInv, CalTyped
  <2>6. Settled' = Settled /\ refused' = refused
    BY <1>1 DEF StartSweep, Settled
  <2>7. \A i \in Settled \cup sums.from \cup refused : i \in Nat /\ i =< sweep.no
    BY <1>0, CalFacts DEF CalInv, CalTraced, Settled, Fits, Sums
  <2>8. CalTraced'
    BY <1>0, <2>1, <2>2, <2>4, <2>6, <2>7, CalFacts DEF CalInv, CalTraced
  <2> QED BY <2>5, <2>8 DEF CalInv
<1>2. CASE CancelSweep
  <2>1. sweep' = [sweep EXCEPT !.on = FALSE] /\ UNCHANGED <<ok, correction, sums, blob, refused>>
    BY <1>2 DEF CancelSweep
  <2>2. sweep' \in SweepStates /\ sweep'.no = sweep.no /\ ~sweep'.on
    BY <1>0, <2>1 DEF SweepStates
  <2> QED BY <2>1, <2>2 DEF CalInv, CalTyped, CalTraced, Settled
<1>3. ASSUME NEW turned \in {0, 1}, Reading(turned) PROVE CalInv'
  <2> DEFINE points == IF sums.points = POINTS THEN POINTS ELSE sums.points + 1
             s == [from |-> sums.from \cup {sweep.no}, points |-> points]
             seen == sweep.seen + turned
  <2>1. /\ sweep.on /\ sweep' = [sweep EXCEPT !.seen = seen, !.on = seen < TURNS]
        /\ UNCHANGED ok
        /\ seen < TURNS => Outcome(correction, s, {}) /\ UNCHANGED blob
        /\ ~(seen < TURNS) => Fitted(s) \/ NotFitted(s)
    BY <1>3 DEF Reading
  <2>2. sweep.no \in Sweeps /\ sweep.seen < TURNS /\ seen \in Turnings
    BY <1>0, <2>1, CalFacts DEF CalInv, CalTraced, Turnings
  <2>3. points \in PointCounts
    BY <1>0, CalFacts DEF PointCounts
  <2>4. s \in Sums /\ s.from = sums.from \cup {sweep.no}
    <3> HIDE DEF points
    <3> QED BY <1>0, <2>2, <2>3 DEF Sums
  <2>5. /\ sweep' \in SweepStates /\ sweep'.no = sweep.no
        /\ sweep'.seen = seen /\ (sweep'.on <=> seen < TURNS)
    <3> DEFINE on == seen < TURNS
    <3>1. on \in BOOLEAN /\ sweep' = [sweep EXCEPT !.seen = seen, !.on = on]
      BY <2>1
    <3> HIDE DEF seen, on
    <3>2. sweep' \in SweepStates /\ sweep'.no = sweep.no /\ sweep'.seen = seen /\ sweep'.on = on
      BY <1>0, <2>2, <3>1 DEF SweepStates
    <3> QED BY <3>2 DEF on
  <2> HIDE DEF s, seen
  <2>6. ASSUME Outcome(correction, s, {}), UNCHANGED blob PROVE CalInv'
    <3>1. CalTyped'
      BY <1>0, <2>1, <2>4, <2>5, <2>6 DEF Outcome, CalInv, CalTyped
    <3>2. Settled' = Settled /\ refused' = refused /\ sums'.from = sums.from \cup {sweep.no}
      BY <2>4, <2>6 DEF Outcome, Settled
    <3> QED BY <2>1, <2>5, <3>1, <3>2, OutcomeTraced
  <2>7. ASSUME NEW c \in Fits, c.from # {}, c.from \subseteq s.from,
               Outcome(c, s, {}), BlobSaved(c, s), ~(seen < TURNS)
        PROVE  CalInv'
    <3>1. correction' = c /\ sums' = s /\ refused' = refused
      BY <2>7 DEF Outcome
    <3>2. \/ blob' = [correction |-> c, sums |-> s] \/ blob' = blob \/ blob' = NoBlob
      BY <2>7 DEF BlobSaved
    <3>3. /\ blob' \in [correction : Fits, sums : Sums]
          /\ blob'.correction.known => blob'.correction.from # {}
          /\ blob'.correction.from \cup blob'.sums.from \subseteq Settled \cup s.from
      <4>1. CASE blob' = [correction |-> c, sums |-> s]
        BY <2>4, <2>7, <4>1
      <4>2. CASE blob' = blob
        BY <1>0, <4>2 DEF CalInv, CalTyped, Settled
      <4>3. CASE blob' = NoBlob
        BY <4>3, CalFacts DEF NoBlob, NoSums, Uncorrected
      <4> QED BY <3>2, <4>1, <4>2, <4>3
    <3>4. CalTyped'
      BY <1>0, <2>1, <2>4, <2>5, <2>7, <3>1, <3>3 DEF CalTyped
    <3>5. Settled' \cup sums'.from \subseteq Settled \cup sums.from \cup {sweep.no}
      BY <2>4, <2>7, <3>1, <3>3 DEF Settled
    <3>6. ~sweep'.on
      BY <2>5, <2>7
    <3> QED BY <2>1, <2>5, <3>1, <3>4, <3>5, <3>6, OutcomeTraced
  <2>8. ASSUME Reject(s), UNCHANGED blob, ~(seen < TURNS) PROVE CalInv'
    <3>1. /\ correction' = correction /\ sums' = NoSums
          /\ refused' = refused \cup {sweep.no}
      BY <2>8 DEF Reject, Outcome
    <3>2. CalTyped'
      BY <1>0, <2>1, <2>2, <2>5, <2>8, <3>1, CalFacts DEF CalInv, CalTyped
    <3>3. Settled' = Settled /\ sums'.from = {}
      BY <2>8, <3>1 DEF Settled, NoSums
    <3>4. ~sweep'.on
      BY <2>5, <2>8
    <3>5. \/ /\ refused' = refused
             /\ Settled' \cup sums'.from \subseteq Settled \cup sums.from \cup {sweep.no}
          \/ /\ refused' = refused \cup {sweep.no}
             /\ Settled' = Settled /\ sums'.from = {}
      BY <3>1, <3>3
    <3>6. sweep.on /\ sweep'.no = sweep.no
      BY <2>1, <2>5
    <3> QED BY <3>2, <3>4, <3>5, <3>6, OutcomeTraced
  <2>9. ASSUME Fitted(s), ~(seen < TURNS) PROVE CalInv'
    <3>1. PICK spread \in FitSolve(s) :
             IF sweep.refine /\ spread > 0 /\ spread > correction.spread
             THEN Reject(s) /\ UNCHANGED blob
             ELSE LET fit == [known |-> TRUE, fitted |-> TRUE, from |-> s.from,
                              spread |-> spread]
                  IN  Outcome(fit, s, {}) /\ BlobSaved(fit, s)
      BY <2>9 DEF Fitted
    <3>2. spread \in Spreads
      BY DEF FitSolve, Spreads
    <3> DEFINE fit == [known |-> TRUE, fitted |-> TRUE, from |-> s.from, spread |-> spread]
    <3>3. fit \in Fits /\ fit.from = s.from /\ fit.from # {}
      BY <2>2, <2>4, <3>2 DEF Fits, Sums
    <3>4. \/ Reject(s) /\ UNCHANGED blob
          \/ Outcome(fit, s, {}) /\ BlobSaved(fit, s)
      BY <3>1
    <3> HIDE DEF fit
    <3> QED BY <2>7, <2>8, <2>9, <3>3, <3>4
  <2>10. ASSUME NotFitted(s), ~(seen < TURNS) PROVE CalInv'
    <3> DEFINE ranges == [known |-> TRUE, fitted |-> FALSE, from |-> {sweep.no}, spread |-> 0]
    <3>1. \/ Outcome(correction, s, {}) /\ UNCHANGED blob
          \/ Outcome(ranges, s, {}) /\ BlobSaved(ranges, s)
      BY <2>10 DEF NotFitted
    <3>2. ranges \in Fits /\ ranges.from = {sweep.no}
      BY <2>2, CalFacts DEF Fits
    <3> HIDE DEF ranges
    <3> QED BY <2>4, <2>6, <2>7, <2>10, <3>1, <3>2
  <2> QED BY <2>1, <2>6, <2>9, <2>10
<1>4. CASE CalReboot
  <2>1. PICK found \in BOOLEAN, read \in BOOLEAN :
           /\ ok' = found
           /\ correction' = IF found /\ read THEN blob.correction ELSE Uncorrected
           /\ sums' = IF found /\ read THEN blob.sums ELSE NoSums
           /\ sweep' = [sweep EXCEPT !.on = FALSE, !.refine = FALSE, !.seen = 0]
           /\ UNCHANGED <<blob, refused>>
    BY <1>4 DEF CalReboot
  <2>2. sweep' \in SweepStates /\ sweep'.no = sweep.no /\ ~sweep'.on
    BY <1>0, <2>1, CalFacts DEF SweepStates
  <2>3. /\ correction' \in Fits /\ sums' \in Sums
        /\ correction'.from \cup sums'.from \subseteq Settled
        /\ correction'.known => correction'.from # {}
    BY <1>0, <2>1, CalFacts DEF CalInv, CalTyped, Settled, Uncorrected, NoSums
  <2>4. CalTyped'
    BY <1>0, <2>1, <2>2, <2>3 DEF CalInv, CalTyped
  <2>5. Settled' \cup sums'.from \subseteq Settled /\ refused' = refused
    BY <2>1, <2>3 DEF Settled
  <2>6. CalTraced'
    BY <2>2, <2>5 DEF CalInv, CalTraced
  <2> QED BY <2>4, <2>6 DEF CalInv
<1>5. CASE UNCHANGED calVars
    BY <1>5 DEF calVars, CalInv, CalTyped, CalTraced, Settled
<1> QED BY <1>1, <1>2, <1>3, <1>4, <1>5 DEF CalNext

(* No correction, in use or on the card, rests on a sweep that was          *)
(* rejected for its gains (compass.cpp:924-925).                            *)
THEOREM RejectedSweepsAreForgotten == CalSpec => [](CalTypeOK /\ RejectedForgotten)
<1>1. CalInit => CalInv
    BY CalFacts DEF CalInit, CalInv, CalTyped, CalTraced, Settled, SweepStates, Uncorrected,
       NoSums, NoBlob
<1>2. CalInv => CalTypeOK /\ RejectedForgotten
    BY DEF CalInv, CalTyped, CalTraced, CalTypeOK, RejectedForgotten, Settled, Corrections,
       Fits, Sums, Spreads, PointCounts, SweepStates, SweepNumbers, Turnings
<1> QED BY <1>1, <1>2, CalStep, PTL DEF CalSpec

-----------------------------------------------------------------------------
(***************************************************************************)
(* The receiver's rate                                                      *)
(***************************************************************************)
Settling == 0 .. SETTLE
AnchorAges == 0 .. ANCHORED
Bands == DOMAIN RateFor
FixModes == {0, 2, 3}
PendingRates == {NoRate} \cup Rates
RateStates == [now : Rates, pending : PendingRates, since : Settling]
WantedStates == [rate : Rates, since : Settling]
FixStates == [mode : FixModes, band : Bands, at : Grounds]
Anchors == [set : BOOLEAN, at : Grounds, age : AnchorAges]

RateTyped ==
    /\ fix \in FixStates /\ busy \in BOOLEAN
    /\ rate \in RateStates /\ wanted \in WantedStates
    /\ anchor \in Anchors /\ dim \in BOOLEAN

(* The rate that is pending has been wanted without a break for as long as  *)
(* it is pending. *)
PendingIsWanted ==
    rate.pending # NoRate => wanted.rate = rate.pending /\ wanted.since >= rate.since

RateInv == RateTyped /\ PendingIsWanted

LEMMA RateFacts ==
    /\ SETTLE \in Nat /\ ANCHORED \in Nat
    /\ Rates = {1, 2, 5} /\ NoRate \notin Rates
    /\ Bands = {"fast", "walk", "idle"}
    /\ \A b \in Bands : RateFor[b] \in Rates
    /\ NoFix \in FixStates /\ NoAnchor \in Anchors
    /\ Fixes \subseteq FixStates
    /\ \A s \in Settling : s \in Nat /\ s =< SETTLE
    /\ \A n \in Nat : n =< SETTLE => n \in Settling
    /\ \A n \in Nat : UpTo(ANCHORED, n) \in AnchorAges
<1>1. SETTLE \in Nat /\ ANCHORED \in Nat /\ Grounds # {}
    BY RateAssumption
<1>2. Bands = {"fast", "walk", "idle"}
    BY DEF Bands, RateFor
<1>3. RateFor["fast"] = 1 /\ RateFor["walk"] = 2 /\ RateFor["idle"] = 5
    BY DEF RateFor
<1>4. Rates = {1, 2, 5}
    BY <1>2, <1>3 DEF Rates, Bands
<1>5. NoRate \notin Rates
    BY <1>4 DEF NoRate
<1>6. \A b \in Bands : RateFor[b] \in Rates
    BY DEF Rates, Bands
<1>7. (CHOOSE g \in Grounds : TRUE) \in Grounds
    BY <1>1
<1>8. NoFix \in FixStates /\ NoFix.at \in Grounds
    BY <1>2, <1>7 DEF NoFix, FixStates, FixModes
<1>9. 0 \in AnchorAges
    BY <1>1 DEF AnchorAges
<1>10. NoAnchor \in Anchors
    BY <1>8, <1>9 DEF NoAnchor, Anchors
<1>11. Fixes \subseteq FixStates
  <2>1. \A f \in [mode : {2}, band : {"idle"}, at : Grounds] : f \in FixStates
    BY <1>2 DEF FixStates, FixModes
  <2>2. \A f \in [mode : {3}, band : Bands, at : Grounds] : f \in FixStates
    BY DEF FixStates, FixModes
  <2> QED BY <1>8, <2>1, <2>2 DEF Fixes, Bands
<1>12. /\ \A s \in Settling : s \in Nat /\ s =< SETTLE
       /\ \A n \in Nat : n =< SETTLE => n \in Settling
       /\ \A n \in Nat : UpTo(ANCHORED, n) \in AnchorAges
    BY <1>1 DEF Settling, AnchorAges, UpTo
<1> QED BY <1>1, <1>2, <1>4, <1>5, <1>6, <1>8, <1>10, <1>11, <1>12

LEMMA WantFor == ASSUME RateInv PROVE Want(fix, busy) \in Rates
<1>1. fix.band \in Bands
    BY DEF RateInv, RateTyped, FixStates
<1> QED BY <1>1, RateFacts DEF Want, Bands, RateFor

(* What a pass does to the rate and to what was wanted.                     *)
LEMMA RatePassed ==
    ASSUME RateInv, RatePass
    PROVE  /\ rate' \in RateStates /\ wanted' \in WantedStates /\ PendingIsWanted'
           /\ rate'.now # rate.now => wanted'.rate = rate'.now /\ wanted'.since >= SETTLE
<1> DEFINE want == Want(fix, busy)
<1>1. PICK elapsed \in 0 .. 1 :
         /\ rate' = RateNext(rate, want, elapsed)
         /\ wanted' = IF want = wanted.rate
                      THEN [wanted EXCEPT !.since = UpTo(SETTLE, wanted.since + elapsed)]
                      ELSE [rate |-> want, since |-> 0]
    BY DEF RatePass
<1>2. /\ want \in Rates /\ want # NoRate /\ SETTLE \in Nat
      /\ rate \in RateStates /\ rate.now \in Rates /\ rate.pending \in PendingRates
      /\ rate.since \in Nat /\ rate.since =< SETTLE
      /\ wanted \in WantedStates /\ wanted.since \in Nat /\ wanted.since =< SETTLE
      /\ NoRate \in PendingRates /\ want \in PendingRates /\ 0 \in Settling
    BY WantFor, RateFacts DEF RateInv, RateTyped, RateStates, WantedStates, PendingRates
<1> HIDE DEF want
<1> DEFINE older == wanted.since + elapsed
           longer == rate.since + elapsed
<1>3. /\ UpTo(SETTLE, older) \in Settling
      /\ older >= SETTLE => UpTo(SETTLE, older) = SETTLE
      /\ older < SETTLE => UpTo(SETTLE, older) = older
    BY <1>1, <1>2, RateFacts DEF UpTo
<1>4. longer \in Nat /\ older \in Nat /\ (rate.since =< wanted.since => longer =< older)
    BY <1>1, <1>2
<1>5. wanted' \in WantedStates /\ wanted'.rate = want
      /\ wanted'.since = IF want = wanted.rate THEN UpTo(SETTLE, older) ELSE 0
    BY <1>1, <1>2, <1>3 DEF WantedStates
<1>6. CASE want = rate.now
  <2>1. rate' = [rate EXCEPT !.pending = NoRate, !.since = 0]
    BY <1>1, <1>6 DEF RateNext
  <2>2. rate' \in RateStates /\ rate'.now = rate.now /\ rate'.pending = NoRate
    BY <1>2, <2>1 DEF RateStates
  <2> QED BY <1>5, <2>2 DEF PendingIsWanted
<1>7. CASE want # rate.now /\ want # rate.pending
  <2>1. rate' = [rate EXCEPT !.pending = want, !.since = 0]
    BY <1>1, <1>7 DEF RateNext
  <2>2. rate' \in RateStates /\ rate'.now = rate.now /\ rate'.pending = want /\ rate'.since = 0
    BY <1>2, <2>1 DEF RateStates
  <2>3. wanted'.since >= 0
    BY <1>3, <1>5, RateFacts
  <2> QED BY <1>5, <2>2, <2>3 DEF PendingIsWanted
<1>8. CASE want # rate.now /\ want = rate.pending
  <2>1. wanted.rate = want /\ wanted.since >= rate.since
    BY <1>2, <1>8 DEF RateInv, PendingIsWanted
  <2>2. CASE longer < SETTLE
    <3>1. rate' = [rate EXCEPT !.since = longer]
      BY <1>1, <1>8, <2>2 DEF RateNext
    <3>2. longer \in Settling
      BY <1>2, <1>4, <2>2, RateFacts
    <3> HIDE DEF longer
    <3>3. rate' \in RateStates /\ rate'.now = rate.now /\ rate'.pending = want
          /\ rate'.since = longer
      BY <1>2, <1>8, <3>1, <3>2 DEF RateStates
    <3>4. wanted'.since >= longer
      BY <1>2, <1>3, <1>4, <1>5, <2>1, <2>2
    <3> QED BY <1>5, <3>3, <3>4 DEF PendingIsWanted
  <2>3. CASE ~(longer < SETTLE)
    <3>1. rate' = [now |-> want, pending |-> NoRate, since |-> 0]
      BY <1>1, <1>8, <2>3 DEF RateNext
    <3>2. rate' \in RateStates /\ rate'.now = want /\ rate'.pending = NoRate
      BY <1>2, <3>1 DEF RateStates
    <3>3. wanted'.since = SETTLE
      BY <1>2, <1>3, <1>4, <1>5, <2>1, <2>3
    <3> QED BY <1>2, <1>5, <3>2, <3>3 DEF PendingIsWanted
  <2> QED BY <2>2, <2>3
<1> QED BY <1>6, <1>7, <1>8

LEMMA RateStep == RateInv /\ [RateNextStep]_rateVars => RateInv'
<1> SUFFICES ASSUME RateInv, [RateNextStep]_rateVars PROVE RateInv'
    OBVIOUS
<1>1. CASE RatePass
  <2>1. fix' \in FixStates /\ busy' \in BOOLEAN
    BY <1>1 DEF RatePass, RateInv, RateTyped
  <2>2. PICK elapsed \in 0 .. 1 : \E h :
           LET aged == [anchor EXCEPT !.age = UpTo(ANCHORED, anchor.age + elapsed)]
           IN  anchor' = AnchorNext(fix, h, aged) /\ dim' = DimNext(fix, h, aged, rate'.now)
    BY <1>1 DEF RatePass
  <2> DEFINE age == UpTo(ANCHORED, anchor.age + elapsed)
             aged == [anchor EXCEPT !.age = age]
  <2>3. /\ anchor \in Anchors /\ fix \in FixStates /\ fix.at \in Grounds
        /\ anchor.age + elapsed \in Nat /\ 0 \in AnchorAges
    BY RateFacts DEF RateInv, RateTyped, Anchors, FixStates, AnchorAges
  <2>4. age \in AnchorAges
    BY <2>3, RateFacts
  <2>5. aged \in Anchors
    <3> HIDE DEF age
    <3> QED BY <2>3, <2>4 DEF Anchors
  <2>6. AnchorHere(fix) \in Anchors
    BY <2>3 DEF AnchorHere, Anchors
  <2>7. PICK h : anchor' = AnchorNext(fix, h, aged) /\ dim' = DimNext(fix, h, aged, rate'.now)
    BY <2>2
  <2> HIDE DEF aged
  <2>8. AnchorNext(fix, h, aged) \in {aged, NoAnchor, AnchorHere(fix)}
    <3>1. CASE ~Idle(h)
      BY <3>1 DEF AnchorNext
    <3>2. CASE Idle(h) /\ fix.mode # 3
      BY <3>2 DEF AnchorNext
    <3>3. CASE Idle(h) /\ fix.mode = 3 /\ (~aged.set \/ fix.at # aged.at)
      BY <3>3 DEF AnchorNext
    <3>4. CASE Idle(h) /\ fix.mode = 3 /\ ~(~aged.set \/ fix.at # aged.at)
      BY <3>4 DEF AnchorNext
    <3> QED BY <3>1, <3>2, <3>3, <3>4
  <2>9. anchor' \in Anchors
    BY <2>5, <2>6, <2>7, <2>8, RateFacts
  <2>10. dim' \in BOOLEAN
    BY <2>7 DEF DimNext
  <2> QED BY <1>1, <2>1, <2>9, <2>10, RatePassed DEF RateInv, RateTyped
<1>2. CASE RateInput
  <2>1. fix' \in FixStates /\ busy' \in BOOLEAN
    BY <1>2, RateFacts DEF RateInput, RateInv, RateTyped
  <2> QED BY <1>2, <2>1 DEF RateInput, RateInv, RateTyped, PendingIsWanted
<1>3. CASE UNCHANGED rateVars
    BY <1>3 DEF rateVars, RateInv, RateTyped, PendingIsWanted
<1> QED BY <1>1, <1>2, <1>3 DEF RateNextStep

(* A rate is only ever set that was wanted at every pass of a whole         *)
(* settling time (tab5_map.cpp:300-305, 327-331).                           *)
THEOREM RatesSettle == RateSpec => []RateTypeOK /\ RateHeld
<1>1. RateInit => RateInv
  <2> SUFFICES ASSUME RateInit PROVE RateInv
    OBVIOUS
  <2>1. 0 \in Settling /\ RateFor["fast"] \in Rates /\ NoRate \in PendingRates
    BY RateFacts DEF PendingRates, RateFor
  <2>2. rate \in RateStates /\ wanted \in WantedStates /\ rate.pending = NoRate
    BY <2>1 DEF RateInit, RateStates, WantedStates
  <2> QED BY <2>2, RateFacts DEF RateInit, RateInv, RateTyped, PendingIsWanted
<1>2. RateInv => RateTypeOK
    BY DEF RateInv, RateTyped, RateTypeOK, RateStates, PendingRates, Settling, Anchors, AnchorAges
<1>3. RateInv /\ [RateNextStep]_rateVars =>
          [rate'.now # rate.now => wanted'.rate = rate'.now /\ wanted'.since >= SETTLE]_rateVars
    BY RatePassed DEF RateNextStep, RateInput, rateVars
<1> QED BY <1>1, <1>2, <1>3, RateStep, PTL DEF RateSpec, RateHeld

-----------------------------------------------------------------------------
(***************************************************************************)
(* The table of access points                                               *)
(***************************************************************************)
Observations == 0 .. WIFILOC_MIN_OBS
Extremes == {0} \cup Spots
Records == [n : Observations, low : Extremes, high : Extremes, mobile : BOOLEAN,
            heard : SUBSET Spots]

(* A record's extent takes in every place it was heard at, and is small     *)
(* unless the record is not to be used.                                     *)
Spanned(r) ==
    /\ r.n = 0 => r.heard = {}
    /\ \A s \in r.heard : r.low =< s /\ s =< r.high
    /\ Locatable(r) => r.high - r.low =< WIFILOC_MOBILE_M

TableSound(records) ==
    /\ records \in [Addresses -> Records]
    /\ \A a \in Addresses : Spanned(records[a])
    /\ Cardinality(Recorded(records)) =< WIFILOC_MAX

ApInv ==
    /\ TableSound(table) /\ TableSound(stored)
    /\ unsaved \in BOOLEAN /\ cardThere \in BOOLEAN
    /\ estimate \in [valid : BOOLEAN, from : SUBSET Addresses]

LEMMA ApFacts ==
    /\ IsFiniteSet(Addresses) /\ Spots \subseteq Nat
    /\ WIFILOC_MAX \in Nat /\ WIFILOC_MIN_OBS \in Nat /\ WIFILOC_MOBILE_M \in Nat
    /\ WIFILOC_MIN_OBS > 0
BY ApTableAssumption

LEMMA RecordFields ==
    ASSUME NEW r \in Records
    PROVE  /\ r.n \in Nat /\ r.n =< WIFILOC_MIN_OBS
           /\ r.low \in Nat /\ r.high \in Nat /\ r.low \in Extremes /\ r.high \in Extremes
           /\ r.mobile \in BOOLEAN /\ r.heard \subseteq Spots
<1>1. /\ r.n \in Observations /\ r.low \in Extremes /\ r.high \in Extremes
      /\ r.mobile \in BOOLEAN /\ r.heard \subseteq Spots
    BY DEF Records
<1>2. Extremes \subseteq Nat
    BY ApFacts DEF Extremes
<1>3. r.n \in Nat /\ r.n =< WIFILOC_MIN_OBS
    BY <1>1, ApFacts DEF Observations
<1> QED BY <1>1, <1>2, <1>3

(* One more observation keeps a record's extent around what it heard.       *)
LEMMA FoldedSpanned ==
    ASSUME NEW r \in Records, Spanned(r), NEW spot \in Spots
    PROVE  /\ Folded(r, spot) \in Records /\ Spanned(Folded(r, spot))
           /\ Folded(r, spot).n > 0
<1> DEFINE low == IF r.n = 0 \/ spot < r.low THEN spot ELSE r.low
           high == IF r.n = 0 \/ spot > r.high THEN spot ELSE r.high
           n == IF r.n < WIFILOC_MIN_OBS THEN r.n + 1 ELSE r.n
           heard == r.heard \cup {spot}
           mobile == r.mobile \/ (n >= WIFILOC_MIN_OBS /\ high - low > WIFILOC_MOBILE_M)
<1>1. Folded(r, spot) = [n |-> n, low |-> low, high |-> high, heard |-> heard,
                         mobile |-> mobile]
    BY DEF Folded
<1>2. n \in Observations /\ n > 0
    BY RecordFields, ApFacts DEF Observations
<1>3. /\ low \in Extremes /\ high \in Extremes /\ low \in Nat /\ high \in Nat
      /\ heard \in SUBSET Spots /\ mobile \in BOOLEAN
    BY RecordFields, ApFacts DEF Extremes
<1>4. \A s \in heard : low =< s /\ s =< high
  <2> SUFFICES ASSUME NEW s \in heard PROVE low =< s /\ s =< high
      OBVIOUS
  <2>1. spot \in Nat /\ s \in Nat /\ (s # spot => r.n # 0 /\ r.low =< s /\ s =< r.high)
    BY <1>3, ApFacts DEF Spanned
  <2> QED BY <2>1, RecordFields
<1>5. ~mobile /\ n >= WIFILOC_MIN_OBS => high - low =< WIFILOC_MOBILE_M
    BY <1>3, ApFacts
<1> HIDE DEF low, high, n, heard, mobile
<1>6. Folded(r, spot) \in Records
    BY <1>1, <1>2, <1>3 DEF Records
<1>7. /\ Folded(r, spot).n = n /\ Folded(r, spot).low = low /\ Folded(r, spot).high = high
      /\ Folded(r, spot).heard = heard /\ Folded(r, spot).mobile = mobile
    BY <1>1
<1>8. n # 0
    BY <1>2 DEF Observations
<1> QED BY <1>2, <1>4, <1>5, <1>6, <1>7, <1>8 DEF Spanned, Locatable

LEMMA EmptyTableSound == TableSound(EmptyTable)
<1>1. NoRecord \in Records /\ Spanned(NoRecord) /\ NoRecord.n = 0
  <2>1. 0 \in Observations /\ 0 \in Extremes /\ {} \in SUBSET Spots
    BY ApFacts DEF Observations, Extremes
  <2>2. NoRecord \in Records
    BY <2>1 DEF NoRecord, Records
  <2>3. Spanned(NoRecord)
    BY ApFacts DEF NoRecord, Spanned, Locatable
  <2> QED BY <2>2, <2>3 DEF NoRecord
<1>2. EmptyTable \in [Addresses -> Records] /\ \A a \in Addresses : EmptyTable[a] = NoRecord
    BY <1>1 DEF EmptyTable
<1>3. Recorded(EmptyTable) = {}
    BY <1>1, <1>2 DEF Recorded
<1>4. Cardinality(Recorded(EmptyTable)) = 0
    BY <1>3, FS_EmptySet
<1> QED BY <1>1, <1>2, <1>4, ApFacts DEF TableSound

(* A scan adds no more records than there is room for.                      *)
LEMMA LearnSound == ASSUME ApInv, Learn PROVE TableSound(table')
<1>1. PICK heard \in SUBSET Addresses, spot \in Spots :
         LET known == heard \cap Recorded(table)
             room == WIFILOC_MAX - Cardinality(Recorded(table))
             new == heard \ known
         IN  \E added \in kSubset(IF Cardinality(new) < room THEN Cardinality(new) ELSE room, new) :
                 table' = [a \in Addresses |-> IF a \in known \cup added
                                               THEN Folded(table[a], spot) ELSE table[a]]
    BY DEF Learn
<1> DEFINE known == heard \cap Recorded(table)
           room == WIFILOC_MAX - Cardinality(Recorded(table))
           new == heard \ known
           size == IF Cardinality(new) < room THEN Cardinality(new) ELSE room
<1>2. PICK added \in kSubset(size, new) :
         table' = [a \in Addresses |-> IF a \in known \cup added
                                       THEN Folded(table[a], spot) ELSE table[a]]
    BY <1>1
<1>3. /\ TableSound(table) /\ table \in [Addresses -> Records]
      /\ Recorded(table) \subseteq Addresses
    BY DEF ApInv, TableSound, Recorded
<1>4. added \subseteq new /\ Cardinality(added) = size
    BY <1>2 DEF kSubset
<1>5. /\ IsFiniteSet(Recorded(table)) /\ IsFiniteSet(added) /\ IsFiniteSet(new)
      /\ new \subseteq Addresses
    BY <1>3, <1>4, ApFacts, FS_Subset
<1>6. /\ Cardinality(Recorded(table)) \in Nat /\ Cardinality(new) \in Nat
      /\ Cardinality(added) \in Nat
    BY <1>5, FS_CardinalityType
<1>7. size =< room
    BY <1>6, ApFacts
<1>8. Recorded(table) \cap added = {}
    BY <1>4
<1> HIDE DEF known, new, size
<1>9. table' \in [Addresses -> Records]
      /\ \A a \in Addresses : Spanned(table'[a])
  <2>1. \A a \in Addresses : table[a] \in Records /\ Spanned(table[a])
    BY <1>3 DEF TableSound
  <2>2. \A a \in Addresses : Folded(table[a], spot) \in Records /\ Spanned(Folded(table[a], spot))
    BY <2>1, FoldedSpanned
  <2> QED BY <1>2, <2>1, <2>2
<1>10. Recorded(table') = Recorded(table) \cup added
  <2>1. \A a \in Addresses : Folded(table[a], spot).n > 0
    BY <1>3, FoldedSpanned DEF TableSound
  <2>2. known \subseteq Recorded(table)
    BY DEF known
  <2>3. added \subseteq Addresses
    BY <1>4, <1>5
  <2> QED BY <1>2, <1>3, <2>1, <2>2, <2>3 DEF Recorded
<1>11. Cardinality(Recorded(table')) = Cardinality(Recorded(table)) + Cardinality(added)
  <2>1. Cardinality(Recorded(table) \cup added)
            = Cardinality(Recorded(table)) + Cardinality(added) - Cardinality(Recorded(table) \cap added)
    BY <1>5, FS_Union
  <2>2. Cardinality(Recorded(table) \cap added) = 0
    BY <1>8, FS_EmptySet
  <2> QED BY <1>6, <1>10, <2>1, <2>2
<1>12. Cardinality(Recorded(table')) =< WIFILOC_MAX
    BY <1>4, <1>6, <1>7, <1>11, ApFacts
<1> QED BY <1>9, <1>12 DEF TableSound

LEMMA ApStep == ApInv /\ [ApNext]_apVars => ApInv'
<1> SUFFICES ASSUME ApInv, [ApNext]_apVars PROVE ApInv'
    OBVIOUS
<1> USE DEF ApInv
<1>1. CASE Learn
  <2>1. TableSound(table)'
    BY <1>1, LearnSound DEF TableSound, Recorded, Spanned, Locatable
  <2>2. unsaved' \in BOOLEAN /\ UNCHANGED <<stored, cardThere, estimate>>
    BY <1>1 DEF Learn
  <2>3. TableSound(stored)'
    BY <2>2 DEF TableSound, Recorded, Spanned, Locatable
  <2> QED BY <2>1, <2>2, <2>3
<1>2. CASE ~Learn
  <2>1. table' \in {table, stored, EmptyTable} /\ stored' \in {stored, table}
    BY <1>2 DEF ApNext, apVars, Locate, FlushTable, SwitchOff, RestartTable
  <2>2. (unsaved \in BOOLEAN /\ cardThere \in BOOLEAN)'
    BY <1>2 DEF ApNext, apVars, Locate, FlushTable, SwitchOff, RestartTable
  <2>3. (estimate \in [valid : BOOLEAN, from : SUBSET Addresses])'
    <3>1. \/ UNCHANGED estimate
          \/ \E v \in BOOLEAN, used \in SUBSET Addresses : estimate' = [valid |-> v, from |-> used]
      BY <1>2 DEF ApNext, apVars, Locate, FlushTable, SwitchOff, RestartTable
    <3> QED BY <3>1
  <2>4. TableSound(table') /\ TableSound(stored')
    BY <2>1, EmptyTableSound
  <2>5. TableSound(table)' /\ TableSound(stored)'
    BY <2>4 DEF TableSound, Recorded, Spanned, Locatable
  <2> QED BY <2>2, <2>3, <2>5
<1> QED BY <1>1, <1>2

(* A record that locates was learned in one neighbourhood, across however   *)
(* many boots (wifiloc.cpp:462-474, 500-503), and the table never holds     *)
(* more than it has room for.                                               *)
THEOREM OnlyFixedPointsLocate == ApSpec => [](ApTypeOK /\ OnlyFixedLocate)
<1>1. ASSUME ApInit PROVE ApInv
  <2>1. TableSound(table) /\ TableSound(stored)
    BY <1>1, EmptyTableSound DEF ApInit
  <2>2. estimate \in [valid : BOOLEAN, from : SUBSET Addresses]
    BY <1>1 DEF ApInit
  <2> QED BY <1>1, <2>1, <2>2 DEF ApInit, ApInv
<1>2. ASSUME ApInv PROVE ApTypeOK /\ OnlyFixedLocate
  <2>1. \A a \in Addresses : table[a] \in Records /\ stored[a] \in Records
    BY <1>2 DEF ApInv, TableSound
  <2>2. ApTypeOK
    BY <1>2, <2>1 DEF ApInv, ApTypeOK, TableSound, ApRecords, Records, Observations, Extremes
  <2>3. ASSUME NEW a \in Addresses, Locatable(table[a]),
               NEW s \in table[a].heard, NEW t \in table[a].heard
        PROVE  s - t =< WIFILOC_MOBILE_M
    <3>1. table[a] \in Records /\ Spanned(table[a])
      BY <1>2 DEF ApInv, TableSound
    <3>2. s \in Nat /\ t \in Nat /\ s =< table[a].high /\ table[a].low =< t
      BY <3>1, RecordFields, ApFacts DEF Spanned
    <3>3. table[a].high - table[a].low =< WIFILOC_MOBILE_M
      BY <2>3, <3>1 DEF Spanned
    <3> QED BY <3>1, <3>2, <3>3, RecordFields, ApFacts
  <2> QED BY <2>2, <2>3 DEF OnlyFixedLocate
<1> QED BY <1>1, <1>2, ApStep, PTL DEF ApSpec

-----------------------------------------------------------------------------
(***************************************************************************)
(* The palette and the backlight                                            *)
(***************************************************************************)
ThemeNames == {"auto", "day", "night"}
BrightNames == {"auto", "low", "medium", "high"}
Levels == {"full", "dusk", "night", "dim"}
Screens == [off : BOOLEAN, brightness : Levels, backlight : {"none"} \cup Levels]
SettingStates == [theme : ThemeNames, bright : BrightNames]

ThemeTyped ==
    /\ settings \in SettingStates
    /\ dark \in BOOLEAN /\ pressed \in BOOLEAN
    /\ flip \in Nat /\ flip =< DWELL + 1 /\ calm \in Nat
    /\ screen \in Screens

(* A palette that is not the wanted one has been waited for since the last  *)
(* change, and no longer than it may be.                                    *)
PaletteComes == dark # WantDark => calm =< flip /\ calm =< DWELL

(* A screen that is on is lit at its level, and its level is the one that   *)
(* was wanted at the pass before.                                           *)
LitAsWanted ==
    /\ screen.backlight = IF screen.off THEN "none" ELSE screen.brightness
    /\ calm > 0 => screen.brightness \in {"dim", BrightnessWanted(dark, FALSE)}

ThemeInv == ThemeTyped /\ PaletteComes /\ LitAsWanted

LEMMA WantedTypes ==
    ASSUME dark \in BOOLEAN
    PROVE  /\ WantDark \in BOOLEAN
           /\ \A d, i \in BOOLEAN : BrightnessWanted(d, i) \in Levels
BY DEF WantDark, SunIsUp, BrightnessWanted, BrightnessAuto, Levels

(* What follows a mode in its list is one of the list. *)
LEMMA AfterModes ==
    /\ \A m \in ThemeNames : After(ThemeModes, m) \in ThemeNames
    /\ \A m \in BrightNames : After(BrightModes, m) \in BrightNames
<1>1. ASSUME NEW m \in ThemeNames PROVE After(ThemeModes, m) \in ThemeNames
  <2> DEFINE i == CHOOSE k \in DOMAIN ThemeModes : ThemeModes[k] = m
  <2>1. /\ DOMAIN ThemeModes = {1, 2, 3} /\ Len(ThemeModes) = 3
        /\ ThemeModes[1] = "auto" /\ ThemeModes[2] = "day" /\ ThemeModes[3] = "night"
    BY DEF ThemeModes
  <2>2. \E k \in DOMAIN ThemeModes : ThemeModes[k] = m
    BY <2>1 DEF ThemeNames
  <2>3. i \in {1, 2, 3}
    BY <2>1, <2>2
  <2>4. After(ThemeModes, m) = ThemeModes[IF i = 3 THEN 1 ELSE i + 1]
    BY <2>1 DEF After
  <2> HIDE DEF i
  <2> QED BY <2>1, <2>3, <2>4 DEF ThemeNames
<1>2. ASSUME NEW m \in BrightNames PROVE After(BrightModes, m) \in BrightNames
  <2> DEFINE i == CHOOSE k \in DOMAIN BrightModes : BrightModes[k] = m
  <2>1. /\ DOMAIN BrightModes = {1, 2, 3, 4} /\ Len(BrightModes) = 4
        /\ BrightModes[1] = "auto" /\ BrightModes[2] = "low" /\ BrightModes[3] = "medium"
        /\ BrightModes[4] = "high"
    BY DEF BrightModes
  <2>2. \E k \in DOMAIN BrightModes : BrightModes[k] = m
    BY <2>1 DEF BrightNames
  <2>3. i \in {1, 2, 3, 4}
    BY <2>1, <2>2
  <2>4. After(BrightModes, m) = BrightModes[IF i = 4 THEN 1 ELSE i + 1]
    BY <2>1 DEF After
  <2> HIDE DEF i
  <2> QED BY <2>1, <2>3, <2>4 DEF BrightNames
<1> QED BY <1>1, <1>2

LEMMA ThemeApplied == ASSUME ThemeInv, ApplyTheme PROVE ThemeInv'
<1>1. PICK elapsed \in 0 .. 1, idle \in BOOLEAN :
         LET since == IF flip + elapsed > DWELL THEN DWELL + 1 ELSE flip + elapsed
         IN  /\ idle => ~screen.off
             /\ dark' = IF Flips(since) THEN WantDark ELSE dark
             /\ flip' = IF Flips(since) THEN 0 ELSE since
             /\ calm' = IF calm + elapsed > DWELL THEN DWELL + 1 ELSE calm + elapsed
             /\ pressed' = FALSE
             /\ screen' = LevelFollows(BrightnessWanted(dark', idle))
             /\ UNCHANGED <<settings, sky>>
    BY DEF ApplyTheme
<1> DEFINE since == IF flip + elapsed > DWELL THEN DWELL + 1 ELSE flip + elapsed
<1>2. /\ settings \in SettingStates /\ dark \in BOOLEAN /\ WantDark \in BOOLEAN
      /\ flip \in Nat /\ flip =< DWELL + 1 /\ calm \in Nat /\ screen \in Screens
      /\ DWELL \in Nat /\ elapsed \in Nat
    BY <1>1, WantedTypes, ThemeAssumption DEF ThemeInv, ThemeTyped
<1>3. since \in Nat /\ since =< DWELL + 1
    BY <1>2
<1>4. dark' \in BOOLEAN /\ flip' \in Nat /\ flip' =< DWELL + 1 /\ calm' \in Nat
    BY <1>1, <1>2, <1>3
<1>5. PaletteComes'
  <2>1. CASE Flips(since)
    <3>1. dark' = WantDark
      BY <1>1, <2>1
    <3>2. WantDark' = dark'
      BY <1>1, <1>2, <3>1 DEF WantDark, SunIsUp
    <3> QED BY <3>2 DEF PaletteComes
  <2>2. CASE ~Flips(since)
    <3>1. dark' = dark /\ flip' = since
      BY <1>1, <2>2
    <3>2. WantDark' = WantDark
      <4>1. settings' = settings /\ sky' = sky
        BY <1>1
      <4> QED BY <3>1, <4>1 DEF WantDark, SunIsUp
    <3>3. ASSUME dark # WantDark PROVE calm' =< flip' /\ calm' =< DWELL
      <4>1. calm =< flip /\ calm =< DWELL
        BY <3>3 DEF ThemeInv, PaletteComes
      <4>2. since =< DWELL
        BY <1>2, <1>3, <2>2, <3>3 DEF Flips
      <4>3. since = flip + elapsed
        BY <1>2, <4>2
      <4>4. calm' = IF calm + elapsed > DWELL THEN DWELL + 1 ELSE calm + elapsed
        BY <1>1
      <4> QED BY <1>2, <3>1, <4>1, <4>2, <4>3, <4>4
    <3> QED BY <3>1, <3>2, <3>3 DEF PaletteComes
  <2> QED BY <2>1, <2>2
<1> DEFINE level == BrightnessWanted(dark', idle)
<1>6. level \in Levels /\ BrightnessWanted(dark, FALSE)' = BrightnessWanted(dark', FALSE)
      /\ level \in {"dim", BrightnessWanted(dark', FALSE)}
    BY <1>1, <1>2, <1>4, WantedTypes DEF BrightnessWanted, BrightnessAuto
<1>7. screen' = LevelFollows(level)
    BY <1>1
<1> HIDE DEF level
<1>8. /\ screen' \in Screens /\ screen'.off = screen.off /\ screen'.brightness = level
      /\ screen'.backlight = IF screen.off THEN "none" ELSE level
  <2> DEFINE light == IF screen.off THEN "none"
                      ELSE IF level # screen.brightness THEN level ELSE screen.backlight
  <2>1. screen' = [screen EXCEPT !.brightness = level, !.backlight = light]
    BY <1>7 DEF LevelFollows
  <2>2. light = IF screen.off THEN "none" ELSE level
    BY DEF ThemeInv, LitAsWanted
  <2>3. light \in {"none"} \cup Levels
    BY <1>6, <2>2
  <2> HIDE DEF light
  <2>4. screen' \in Screens /\ screen'.off = screen.off /\ screen'.brightness = level
        /\ screen'.backlight = light
    BY <1>2, <1>6, <2>1, <2>3 DEF Screens
  <2> QED BY <2>2, <2>4
<1>9. LitAsWanted'
    BY <1>6, <1>8 DEF LitAsWanted
<1>10. ThemeTyped'
    BY <1>1, <1>2, <1>4, <1>8 DEF ThemeTyped
<1> QED BY <1>5, <1>9, <1>10 DEF ThemeInv

LEMMA ThemeStep == ThemeInv /\ [ThemeNext]_themeVars => ThemeInv'
<1> SUFFICES ASSUME ThemeInv, [ThemeNext]_themeVars PROVE ThemeInv'
    OBVIOUS
<1>0. /\ settings \in SettingStates /\ settings.theme \in ThemeNames
      /\ settings.bright \in BrightNames
      /\ flip \in Nat /\ screen \in Screens /\ DWELL \in Nat
      /\ screen.brightness \in Levels
    BY ThemeAssumption DEF ThemeInv, ThemeTyped, SettingStates, Screens
<1>1. CASE ThemeTap
  <2>1. settings' \in SettingStates
    <3>1. CASE settings' = [settings EXCEPT !.theme = After(ThemeModes, @)]
      BY <1>0, <3>1, AfterModes DEF SettingStates
    <3>2. CASE settings' = [settings EXCEPT !.bright = After(BrightModes, @)]
      BY <1>0, <3>2, AfterModes DEF SettingStates
    <3> QED BY <1>1, <3>1, <3>2 DEF ThemeTap
  <2>2. pressed' \in BOOLEAN /\ calm' = 0 /\ UNCHANGED <<sky, dark, flip, screen>>
    BY <1>1 DEF ThemeTap, ThemeInv, ThemeTyped
  <2>3. ThemeTyped'
    BY <2>1, <2>2 DEF ThemeInv, ThemeTyped
  <2> QED BY <1>0, <2>2, <2>3 DEF ThemeInv, PaletteComes, LitAsWanted
<1>2. CASE Sleep \/ WakeUp
  <2>1. /\ screen' \in Screens
        /\ screen'.backlight = IF screen'.off THEN "none" ELSE screen'.brightness
    <3>1. CASE Sleep
      BY <1>0, <3>1 DEF Sleep, Screens
    <3>2. CASE WakeUp
      BY <1>0, <3>2 DEF WakeUp, Lit, Screens
    <3> QED BY <1>2, <3>1, <3>2
  <2>2. calm' = 0 /\ UNCHANGED <<settings, sky, dark, flip, pressed>>
    BY <1>2 DEF Sleep, WakeUp
  <2> QED BY <1>0, <2>1, <2>2 DEF ThemeInv, ThemeTyped, PaletteComes, LitAsWanted
<1>3. CASE ApplyTheme
    BY <1>3, ThemeApplied
<1>4. CASE ThemeSky
  <2>1. calm' = 0 /\ UNCHANGED <<settings, dark, flip, pressed, screen>>
    BY <1>4 DEF ThemeSky
  <2> QED BY <1>0, <2>1 DEF ThemeInv, ThemeTyped, PaletteComes, LitAsWanted
<1>5. CASE UNCHANGED themeVars
    BY <1>5 DEF themeVars, ThemeInv, ThemeTyped, PaletteComes, LitAsWanted, WantDark, SunIsUp,
       BrightnessWanted, BrightnessAuto
<1> QED BY <1>1, <1>2, <1>3, <1>4, <1>5 DEF ThemeNext

(* When nothing has changed for as long as an automatic palette may wait,   *)
(* palette and backlight are what is wanted, whatever sun, settings and     *)
(* sleep did before (tab5_map.cpp:810-822, 1208-1217).                      *)
THEOREM PaletteIsTrue == ThemeSpec => [](ThemeTypeOK /\ ThemeTrue)
<1>1. ASSUME ThemeInit PROVE ThemeInv
  <2>1. /\ settings = [theme |-> "auto", bright |-> "auto"]
        /\ dark \in BOOLEAN /\ flip = DWELL + 1 /\ pressed = FALSE /\ calm = 0
        /\ screen = [off |-> FALSE, brightness |-> IF dark THEN "night" ELSE "full",
                     backlight |-> IF dark THEN "night" ELSE "full"]
    BY <1>1 DEF ThemeInit
  <2>2. settings \in SettingStates
    BY <2>1 DEF SettingStates, ThemeNames, BrightNames
  <2>3. screen \in Screens /\ ~screen.off /\ screen.backlight = screen.brightness
    <3>1. CASE dark
      BY <2>1, <3>1 DEF Screens, Levels
    <3>2. CASE ~dark
      BY <2>1, <3>2 DEF Screens, Levels
    <3> QED BY <3>1, <3>2
  <2>4. ThemeTyped
    <3>1. flip \in Nat /\ flip =< DWELL + 1 /\ calm \in Nat
      BY <2>1, ThemeAssumption
    <3>2. dark \in BOOLEAN /\ pressed \in BOOLEAN
      BY <2>1
    <3> QED BY <2>2, <2>3, <3>1, <3>2 DEF ThemeTyped
  <2>5. PaletteComes
    BY <2>1, ThemeAssumption DEF PaletteComes
  <2>6. LitAsWanted
    BY <2>1, <2>3 DEF LitAsWanted
  <2> QED BY <2>4, <2>5, <2>6 DEF ThemeInv
<1>2. ASSUME ThemeInv PROVE ThemeTypeOK /\ ThemeTrue
  <2>1. ThemeTypeOK
    BY <1>2, ThemeAssumption DEF ThemeInv, ThemeTyped, ThemeTypeOK, SettingStates, Screens, ThemeNames,
       BrightNames, Levels
  <2>2. calm \in Nat /\ DWELL \in Nat
    BY <1>2, ThemeAssumption DEF ThemeInv, ThemeTyped
  <2>3. ASSUME calm > DWELL
        PROVE  /\ dark = WantDark
               /\ IF screen.off THEN screen.backlight = "none"
                  ELSE screen.backlight \in {"dim", BrightnessWanted(dark, FALSE)}
    <3>1. dark = WantDark
      BY <1>2, <2>2, <2>3 DEF ThemeInv, PaletteComes
    <3>2. calm > 0
      BY <2>2, <2>3
    <3> QED BY <1>2, <3>1, <3>2 DEF ThemeInv, LitAsWanted
  <2> QED BY <2>1, <2>3 DEF ThemeTrue
<1> QED BY <1>1, <1>2, ThemeStep, PTL DEF ThemeSpec

-----------------------------------------------------------------------------
(***************************************************************************)
(* The saved files                                                          *)
(***************************************************************************)
Versions == 0 .. MAX_VERSION
WriteCounts == {-1, 0, 1, 2}
Contents == [version : Versions, writes : WriteCounts]
CardStates == [target : Contents, temp : Contents, there : BOOLEAN]
SavingStates == [step : Nat, version : Versions, ok : BOOLEAN]
MemoryStates == [version : Versions, dirty : BOOLEAN]
PastStates == [saved : Versions, exposed : BOOLEAN]

(* Where in a file's script it is opened and closed, and what is written in *)
(* between. *)
OpenStep(f) == IF f \in {"cred", "aps"} THEN 2 ELSE 1
WriteSteps(f) == IF f \in {"lastfix", "cal"} THEN 1 ELSE 2
CloseStep(f) == OpenStep(f) + WriteSteps(f) + 1
LastStep(f) == IF f \in ViaTemp THEN CloseStep(f) + 2 ELSE CloseStep(f)

Step(f, i) ==
    CASE i < OpenStep(f) -> IF f = "cred" THEN "remove" ELSE "clear"
      [] i = OpenStep(f) -> "open"
      [] i > OpenStep(f) /\ i < CloseStep(f) -> "write"
      [] i = CloseStep(f) -> "close"
      [] i = CloseStep(f) + 1 -> "remove"
      [] OTHER -> "rename"

LEMMA StepNumbers ==
    ASSUME NEW f \in SavedKinds
    PROVE  /\ OpenStep(f) \in {1, 2} /\ WriteSteps(f) \in {1, 2}
           /\ CloseStep(f) = OpenStep(f) + WriteSteps(f) + 1
           /\ LastStep(f) = IF f \in ViaTemp THEN CloseStep(f) + 2 ELSE CloseStep(f)
           /\ (f \in ViaTemp <=> f \in {"cal", "aop", "aps"})
BY DEF SavedKinds, ViaTemp, OpenStep, WriteSteps, CloseStep, LastStep

(* The scripts have one shape. *)
LEMMA ScriptShape ==
    ASSUME file \in SavedKinds
    PROVE  /\ Len(Script) = LastStep(file) /\ DOMAIN Script = 1 .. LastStep(file)
           /\ \A i \in 1 .. LastStep(file) : Script[i] = Step(file, i)
<1> USE DEF OpenStep, WriteSteps, CloseStep, LastStep, ViaTemp
<1>1. CASE file = "pins"
  <2>1. Script = <<"open", "write", "write", "close">>
    BY <1>1 DEF Script, PinsScript
  <2>2. LastStep(file) = 4
    BY <1>1
  <2>3. \A i \in 1 .. 4 : i = 1 \/ i = 2 \/ i = 3 \/ i = 4
    OBVIOUS
  <2>4. Step(file, 1) = "open" /\ Step(file, 2) = "write" /\ Step(file, 3) = "write"
        /\ Step(file, 4) = "close"
    BY <1>1 DEF Step
  <2> QED BY <2>1, <2>2, <2>3, <2>4
<1>2. CASE file = "cred"
  <2>1. Script = <<"remove", "open", "write", "write", "close">>
    BY <1>2 DEF Script, CredScript
  <2>2. LastStep(file) = 5
    BY <1>2
  <2>3. \A i \in 1 .. 5 : i = 1 \/ i = 2 \/ i = 3 \/ i = 4 \/ i = 5
    OBVIOUS
  <2>4. /\ Step(file, 1) = "remove" /\ Step(file, 2) = "open" /\ Step(file, 3) = "write"
        /\ Step(file, 4) = "write" /\ Step(file, 5) = "close"
    BY <1>2 DEF Step
  <2> QED BY <2>1, <2>2, <2>3, <2>4
<1>3. CASE file = "lastfix"
  <2>1. Script = <<"open", "write", "close">>
    BY <1>3 DEF Script, LastFixScript
  <2>2. LastStep(file) = 3
    BY <1>3
  <2>3. \A i \in 1 .. 3 : i = 1 \/ i = 2 \/ i = 3
    OBVIOUS
  <2>4. Step(file, 1) = "open" /\ Step(file, 2) = "write" /\ Step(file, 3) = "close"
    BY <1>3 DEF Step
  <2> QED BY <2>1, <2>2, <2>3, <2>4
<1>4. CASE file = "cal"
  <2>1. Script = <<"open", "write", "close", "remove", "rename">>
    BY <1>4 DEF Script, CalScript
  <2>2. LastStep(file) = 5
    BY <1>4
  <2>3. \A i \in 1 .. 5 : i = 1 \/ i = 2 \/ i = 3 \/ i = 4 \/ i = 5
    OBVIOUS
  <2>4. /\ Step(file, 1) = "open" /\ Step(file, 2) = "write" /\ Step(file, 3) = "close"
        /\ Step(file, 4) = "remove" /\ Step(file, 5) = "rename"
    BY <1>4 DEF Step
  <2> QED BY <2>1, <2>2, <2>3, <2>4
<1>5. CASE file = "aop"
  <2>1. Script = <<"open", "write", "write", "close", "remove", "rename">>
    BY <1>5 DEF Script, AopScript
  <2>2. LastStep(file) = 6
    BY <1>5
  <2>3. \A i \in 1 .. 6 : i = 1 \/ i = 2 \/ i = 3 \/ i = 4 \/ i = 5 \/ i = 6
    OBVIOUS
  <2>4. /\ Step(file, 1) = "open" /\ Step(file, 2) = "write" /\ Step(file, 3) = "write"
        /\ Step(file, 4) = "close" /\ Step(file, 5) = "remove" /\ Step(file, 6) = "rename"
    BY <1>5 DEF Step
  <2> QED BY <2>1, <2>2, <2>3, <2>4
<1>6. CASE file = "aps"
  <2>1. Script = <<"clear", "open", "write", "write", "close", "remove", "rename">>
    BY <1>6 DEF Script, TableScript
  <2>2. LastStep(file) = 7
    BY <1>6
  <2>3. \A i \in 1 .. 7 : i = 1 \/ i = 2 \/ i = 3 \/ i = 4 \/ i = 5 \/ i = 6 \/ i = 7
    OBVIOUS
  <2>4. /\ Step(file, 1) = "clear" /\ Step(file, 2) = "open" /\ Step(file, 3) = "write"
        /\ Step(file, 4) = "write" /\ Step(file, 5) = "close" /\ Step(file, 6) = "remove"
        /\ Step(file, 7) = "rename"
    BY <1>6 DEF Step
  <2> QED BY <2>1, <2>2, <2>3, <2>4
<1> QED BY <1>1, <1>2, <1>3, <1>4, <1>5, <1>6 DEF SavedKinds

LEMMA WritesAre == ASSUME file \in SavedKinds PROVE Writes = WriteSteps(file)
<1>1. \A i \in 1 .. LastStep(file) :
         Script[i] = "write" <=> i \in OpenStep(file) + 1 .. CloseStep(file) - 1
    BY ScriptShape, StepNumbers DEF Step
<1>2. {i \in DOMAIN Script : Script[i] = "write"} = OpenStep(file) + 1 .. CloseStep(file) - 1
    BY <1>1, ScriptShape, StepNumbers
<1>3. Cardinality(OpenStep(file) + 1 .. CloseStep(file) - 1) = WriteSteps(file)
    BY StepNumbers, FS_Interval
<1> QED BY <1>2, <1>3 DEF Writes

(* What a boot accepts. *)
Whole(f, content) ==
    IF f \in {"pins", "aps"} THEN content.writes >= 1 ELSE content.writes = WriteSteps(f)

LEMMA LoadedIs ==
    ASSUME file \in SavedKinds, NEW content
    PROVE  Loaded(content) =
               IF Whole(file, content)
               THEN [version |-> content.version, whole |-> content.writes = WriteSteps(file)]
               ELSE [version |-> 0, whole |-> TRUE]
BY WritesAre DEF SavedKinds, Loaded, Whole, WriteSteps, PinsAccepted, CredAccepted, FixAccepted,
   CalAccepted, DatabaseAccepted, TableAccepted

LoadedVersion(f, content) == IF Whole(f, content) THEN content.version ELSE 0

(* The file a save writes, and whether it has touched the one a boot loads. *)
Draft == IF file \in ViaTemp THEN card.temp ELSE card.target
Touched ==
    IF file \in ViaTemp THEN saving.step = LastStep(file) ELSE saving.step > 1

FilesTyped ==
    /\ file \in SavedKinds
    /\ card \in CardStates /\ saving \in SavingStates
    /\ memory \in MemoryStates /\ past \in PastStates
    /\ saving.step =< LastStep(file)

(* As long as its writes succeed a save's file holds what was written.      *)
DraftComes ==
    saving.step > OpenStep(file) /\ saving.ok =>
        /\ Draft.version = saving.version
        /\ Draft.writes = IF saving.step =< CloseStep(file)
                          THEN saving.step - OpenStep(file) - 1 ELSE WriteSteps(file)

(* A save does not go on to replace the file after a write that failed, and *)
(* one in place has lost it.                                                *)
FailuresCount ==
    ~saving.ok => /\ saving.step > OpenStep(file) /\ saving.step =< CloseStep(file)
                  /\ file \notin ViaTemp => past.exposed

(* The file a boot loads is what was saved, while it is not being replaced. *)
TargetKept ==
    /\ ~past.exposed /\ ~Touched => LoadedVersion(file, card.target) = past.saved
    /\ file = "aps" => card.target.writes # 1
    /\ card.target.writes =< WriteSteps(file) /\ card.temp.writes =< WriteSteps(file)

FilesInv == FilesTyped /\ DraftComes /\ FailuresCount /\ TargetKept

LEMMA StepsAt ==
    ASSUME file \in SavedKinds, saving.step \in Nat, saving.step =< LastStep(file)
    PROVE  /\ At("open") <=> saving.step = OpenStep(file)
           /\ At("write") <=> saving.step > OpenStep(file) /\ saving.step < CloseStep(file)
           /\ At("close") <=> saving.step = CloseStep(file)
           /\ At("rename") <=> file \in ViaTemp /\ saving.step = CloseStep(file) + 2
           /\ At("clear") <=> file = "aps" /\ saving.step = 1
           /\ At("remove") <=> \/ file = "cred" /\ saving.step = 1
                               \/ file \in ViaTemp /\ saving.step = CloseStep(file) + 1
<1>1. ASSUME saving.step > 0 PROVE Script[saving.step] = Step(file, saving.step)
    BY <1>1, ScriptShape, StepNumbers
<1>2. OpenStep(file) = 2 <=> file \in {"cred", "aps"}
    BY DEF OpenStep
<1> QED BY <1>1, <1>2, StepNumbers DEF At, Step

LEMMA ContentFields ==
    /\ MAX_VERSION \in Nat /\ 0 \in Versions
    /\ \A v \in Versions : v \in Nat /\ v =< MAX_VERSION
    /\ \A v \in Versions : v < MAX_VERSION => v + 1 \in Versions
    /\ \A c \in Contents : c.version \in Versions /\ c.writes \in WriteCounts
    /\ WriteCounts = {-1, 0, 1, 2}
    /\ Absent \in Contents /\ Absent.version = 0 /\ Absent.writes = -1
<1>1. MAX_VERSION \in Nat /\ 0 \in Versions
    BY SavedFilesAssumption DEF Versions
<1>2. Absent \in Contents
    BY <1>1 DEF Absent, Contents, WriteCounts
<1> QED BY <1>1, <1>2, SavedFilesAssumption DEF Versions, Contents, WriteCounts, Absent

LEMMA AbsentLoads == \A f \in SavedKinds : LoadedVersion(f, Absent) = 0
BY ContentFields DEF LoadedVersion

LEMMA FilesFields ==
    ASSUME FilesInv
    PROVE  /\ file \in SavedKinds
           /\ card \in CardStates /\ card.target \in Contents /\ card.temp \in Contents
           /\ card.there \in BOOLEAN
           /\ saving \in SavingStates /\ saving.step \in Nat /\ saving.version \in Versions
           /\ saving.ok \in BOOLEAN /\ saving.step =< LastStep(file)
           /\ memory \in MemoryStates /\ memory.version \in Versions
           /\ past \in PastStates /\ past.saved \in Versions /\ past.exposed \in BOOLEAN
BY DEF FilesInv, FilesTyped, CardStates, SavingStates, MemoryStates, PastStates

(* A save that has not begun, or has just, is sound whatever came before.   *)
LEMMA NotSavingFields ==
    /\ NotSaving \in SavingStates /\ NotSaving.step = 0 /\ NotSaving.ok = TRUE
    /\ NextStep.step = saving.step + 1 \/ saving \notin SavingStates
BY ContentFields DEF NotSaving, NextStep, SavingStates

(* The steps of a save that goes on. *)
LEMMA NextStepFields ==
    ASSUME saving \in SavingStates
    PROVE  /\ NextStep \in SavingStates /\ NextStep.step = saving.step + 1
           /\ NextStep.version = saving.version /\ NextStep.ok = saving.ok
BY DEF NextStep, SavingStates

LEMMA ExposedFields ==
    ASSUME past \in PastStates
    PROVE  Exposed \in PastStates /\ Exposed.exposed = TRUE /\ Exposed.saved = past.saved
BY DEF Exposed, PastStates

(* What changes only the memory, or ends a save that has not touched the    *)
(* file or has been counted.                                                *)
LEMMA SaveEnded ==
    ASSUME FilesInv, file' = file, card' \in CardStates, memory' \in MemoryStates,
           card'.target = card.target, card'.temp \in {card.temp, Absent},
           saving' = NotSaving,
           past' \in PastStates,
           ~past'.exposed => past' = past /\ ~Touched
    PROVE  FilesInv'
<1> USE FilesFields, StepNumbers, ContentFields, NotSavingFields
<1>1. FilesTyped'
    BY DEF FilesInv, FilesTyped
<1>2. DraftComes' /\ FailuresCount'
    BY DEF DraftComes, FailuresCount
<1>3. TargetKept'
    BY DEF FilesInv, TargetKept
<1> QED BY <1>1, <1>2, <1>3 DEF FilesInv

LEMMA FilesStep == FilesInv /\ [FilesNext]_filesVars => FilesInv'
<1> SUFFICES ASSUME FilesInv, [FilesNext]_filesVars PROVE FilesInv'
    OBVIOUS
<1>0. /\ file \in SavedKinds /\ saving.step \in Nat
      /\ OpenStep(file) \in {1, 2} /\ WriteSteps(file) \in {1, 2}
      /\ CloseStep(file) = OpenStep(file) + WriteSteps(file) + 1
      /\ LastStep(file) = IF file \in ViaTemp THEN CloseStep(file) + 2 ELSE CloseStep(file)
    BY FilesFields, StepNumbers
<1>1. CASE Change
  <2>1. UNCHANGED <<file, card, saving, past>>
    BY <1>1 DEF Change
  <2>2. memory' \in MemoryStates
    BY <1>1, FilesFields, ContentFields DEF Change, MemoryStates
  <2> QED BY <2>1, <2>2
          DEF FilesInv, FilesTyped, DraftComes, FailuresCount, TargetKept, Draft, Touched
<1>2. CASE BeginSave
  <2>1. /\ UNCHANGED <<file, card, past>> /\ saving.step = 0
        /\ saving' = [step |-> 1, version |-> memory.version, ok |-> TRUE]
        /\ memory' = [memory EXCEPT !.dirty = (file = "aps")]
    BY <1>2 DEF BeginSave
  <2>2. memory' \in MemoryStates /\ saving' \in SavingStates
    BY <2>1, FilesFields DEF MemoryStates, SavingStates
  <2>3. saving'.step = 1 /\ saving'.ok = TRUE
    BY <2>1
  <2>4. ~Touched
    BY <1>0, <2>1 DEF Touched
  <2>5. FilesTyped'
    BY <1>0, <2>1, <2>2, <2>3 DEF FilesInv, FilesTyped
  <2>6. DraftComes' /\ FailuresCount'
    BY <1>0, <2>1, <2>3 DEF DraftComes, FailuresCount
  <2>7. TargetKept'
    BY <2>1, <2>4 DEF FilesInv, TargetKept
  <2> QED BY <2>5, <2>6, <2>7 DEF FilesInv
<1>3. CASE SaveNowhere
  <2>1. UNCHANGED <<file, card, saving, past>>
    BY <1>3 DEF SaveNowhere
  <2>2. memory' \in MemoryStates
    BY <1>3, FilesFields DEF SaveNowhere, MemoryStates
  <2> QED BY <2>1, <2>2
          DEF FilesInv, FilesTyped, DraftComes, FailuresCount, TargetKept, Draft, Touched
<1>4. CASE RemoveOld
  <2>1. UNCHANGED <<file, memory, past>> /\ saving' = NextStep
    BY <1>4 DEF RemoveOld
  <2>2. \/ /\ file = "aps" /\ saving.step = 1
           /\ card' = [card EXCEPT !.temp = Absent]
        \/ /\ file = "cred" /\ saving.step = 1
           /\ card' = [card EXCEPT !.target = Absent]
        \/ /\ file \in ViaTemp /\ saving.step = CloseStep(file) + 1
           /\ card' = [card EXCEPT !.target = Absent]
    <3>1. /\ At("remove") \/ At("clear")
          /\ card' = [card EXCEPT ![IF At("clear") THEN "temp" ELSE "target"] = Absent]
      BY <1>4 DEF RemoveOld
    <3>2. /\ At("clear") <=> file = "aps" /\ saving.step = 1
          /\ At("remove") <=> \/ file = "cred" /\ saving.step = 1
                              \/ file \in ViaTemp /\ saving.step = CloseStep(file) + 1
      BY FilesFields, StepsAt
    <3>3. CASE At("clear")
      BY <3>1, <3>2, <3>3
    <3>4. CASE ~At("clear")
      BY <3>1, <3>2, <3>4
    <3> QED BY <3>3, <3>4
  <2>3. /\ card' \in CardStates
        /\ card'.target = IF file = "aps" /\ saving.step = 1 THEN card.target ELSE Absent
        /\ card'.temp = IF file = "aps" /\ saving.step = 1 THEN Absent ELSE card.temp
    <3>1. file = "aps" /\ saving.step = 1 => saving.step # CloseStep(file) + 1
      BY <1>0
    <3>2. CASE card' = [card EXCEPT !.temp = Absent] /\ file = "aps" /\ saving.step = 1
      BY <3>2, FilesFields, ContentFields DEF CardStates
    <3>3. CASE card' = [card EXCEPT !.target = Absent] /\ ~(file = "aps" /\ saving.step = 1)
      BY <3>3, FilesFields, ContentFields DEF CardStates
    <3> QED BY <2>2, <3>1, <3>2, <3>3
  <2>4. /\ saving' \in SavingStates /\ saving'.step = saving.step + 1
        /\ saving'.version = saving.version /\ saving'.ok = saving.ok
    BY <2>1, FilesFields, NextStepFields
  <2>5. /\ file = "aps" => file \in ViaTemp /\ OpenStep(file) = 2
        /\ file = "cred" => file \notin ViaTemp /\ OpenStep(file) = 2
    BY DEF ViaTemp, OpenStep
  <2>6. FilesTyped'
    BY <1>0, <2>1, <2>2, <2>3, <2>4, <2>5 DEF FilesInv, FilesTyped
  <2>7. DraftComes'
    BY <1>0, <2>1, <2>2, <2>3, <2>4, <2>5 DEF FilesInv, DraftComes, Draft
  <2>8. FailuresCount'
    BY <1>0, <2>1, <2>2, <2>4, <2>5 DEF FilesInv, FailuresCount
  <2>9. TargetKept'
    <3>1. (file = "aps" => card.target.writes # 1)'
      BY <2>1, <2>3, ContentFields DEF FilesInv, TargetKept
    <3>2. (card.target.writes =< WriteSteps(file) /\ card.temp.writes =< WriteSteps(file))'
      BY <1>0, <2>1, <2>3, ContentFields DEF FilesInv, TargetKept
    <3>3. CASE file = "aps" /\ saving.step = 1
      BY <1>0, <2>1, <2>3, <2>4, <2>5, <3>1, <3>2, <3>3 DEF FilesInv, TargetKept, Touched
    <3>4. CASE ~(file = "aps" /\ saving.step = 1)
      <4>1. Touched'
        BY <1>0, <2>1, <2>2, <2>4, <2>5, <3>4 DEF Touched
      <4> QED BY <3>1, <3>2, <4>1 DEF TargetKept
    <3> QED BY <3>3, <3>4
  <2> QED BY <2>6, <2>7, <2>8, <2>9 DEF FilesInv
<1>5. CASE Open
  <2>1. /\ UNCHANGED <<file, memory, past>> /\ saving' = NextStep
        /\ card' = [card EXCEPT ![WrittenPath] = [version |-> saving.version, writes |-> 0]]
        /\ saving.step = OpenStep(file)
    BY <1>5, FilesFields, StepsAt DEF Open
  <2> DEFINE c == [version |-> saving.version, writes |-> 0]
  <2>2. c \in Contents /\ c.version = saving.version /\ c.writes = 0
    BY FilesFields DEF Contents, WriteCounts
  <2> HIDE DEF c
  <2>3. /\ card' \in CardStates
        /\ card'.target = IF file \in ViaTemp THEN card.target ELSE c
        /\ card'.temp = IF file \in ViaTemp THEN c ELSE card.temp
    <3>1. CASE file \in ViaTemp
      <4>1. card' = [card EXCEPT !.temp = c]
        BY <2>1, <3>1 DEF WrittenPath, c
      <4> QED BY <2>2, <3>1, <4>1, FilesFields DEF CardStates
    <3>2. CASE file \notin ViaTemp
      <4>1. card' = [card EXCEPT !.target = c]
        BY <2>1, <3>2 DEF WrittenPath, c
      <4> QED BY <2>2, <3>2, <4>1, FilesFields DEF CardStates
    <3> QED BY <3>1, <3>2
  <2>4. /\ saving' \in SavingStates /\ saving'.step = saving.step + 1
        /\ saving'.version = saving.version /\ saving'.ok = saving.ok
    BY <2>1, FilesFields, NextStepFields
  <2>5. FilesTyped'
    BY <1>0, <2>1, <2>3, <2>4 DEF FilesInv, FilesTyped
  <2>6. DraftComes'
    BY <1>0, <2>1, <2>2, <2>3, <2>4 DEF DraftComes, Draft
  <2>7. FailuresCount'
    BY <1>0, <2>1, <2>4 DEF FilesInv, FailuresCount
  <2>8. TargetKept'
    <3>1. file = "aps" => file \in ViaTemp
      BY DEF ViaTemp
    <3>2. ~Touched' => file \in ViaTemp /\ ~Touched
      BY <1>0, <2>1, <2>4 DEF Touched
    <3>3. c.writes =< WriteSteps(file)
      BY <1>0, <2>2
    <3> QED BY <2>1, <2>3, <3>1, <3>2, <3>3 DEF FilesInv, TargetKept
  <2> QED BY <2>5, <2>6, <2>7, <2>8 DEF FilesInv
<1>6. CASE OpenFailed
  <2>1. /\ saving' = NotSaving /\ UNCHANGED <<file, card, memory>>
        /\ past' = IF file = "cred" THEN Exposed ELSE past
        /\ saving.step = OpenStep(file)
    BY <1>6, FilesFields, StepsAt DEF OpenFailed
  <2>2. past' \in PastStates
    BY <2>1, FilesFields, ExposedFields
  <2>3. ~past'.exposed => past' = past /\ ~Touched
    <3>1. file = "cred" => past'.exposed
      BY <2>1, FilesFields, ExposedFields
    <3>2. file # "cred" => past' = past
      BY <2>1
    <3>3. file \notin ViaTemp /\ file # "cred" => OpenStep(file) = 1
      BY DEF ViaTemp, OpenStep
    <3>4. file # "cred" => ~Touched
      BY <1>0, <2>1, <3>3 DEF Touched
    <3> QED BY <3>1, <3>2, <3>4
  <2> QED BY <2>1, <2>2, <2>3, FilesFields, SaveEnded
<1>7. CASE Write
  <2>1. /\ UNCHANGED <<file, memory, past>> /\ saving' = NextStep
        /\ card' = IF saving.ok THEN [card EXCEPT ![WrittenPath].writes = @ + 1] ELSE card
        /\ saving.step > OpenStep(file) /\ saving.step < CloseStep(file)
    BY <1>7, FilesFields, StepsAt DEF Write
  <2>2. /\ saving' \in SavingStates /\ saving'.step = saving.step + 1
        /\ saving'.version = saving.version /\ saving'.ok = saving.ok
    BY <2>1, FilesFields, NextStepFields
  <2>3. Touched <=> file \notin ViaTemp
    BY <1>0, <2>1 DEF Touched
  <2>4. Touched' <=> file \notin ViaTemp
    BY <1>0, <2>1, <2>2 DEF Touched
  <2>5. file = "aps" => file \in ViaTemp
    BY DEF ViaTemp
  <2>6. CASE ~saving.ok
    <3>1. card' = card
      BY <2>1, <2>6
    <3>2. FilesTyped'
      BY <1>0, <2>1, <2>2, <3>1 DEF FilesInv, FilesTyped
    <3>3. DraftComes' /\ FailuresCount'
      BY <1>0, <2>1, <2>2, <2>6 DEF FilesInv, DraftComes, FailuresCount
    <3>4. TargetKept'
      BY <2>1, <2>3, <2>4, <3>1 DEF FilesInv, TargetKept
    <3> QED BY <3>2, <3>3, <3>4 DEF FilesInv
  <2>7. CASE saving.ok
    <3>1. /\ Draft.version = saving.version /\ Draft.writes = saving.step - OpenStep(file) - 1
          /\ Draft \in Contents
      BY <1>0, <2>1, <2>7, FilesFields DEF FilesInv, DraftComes, Draft
    <3> DEFINE n == Draft.writes + 1
               c == [Draft EXCEPT !.writes = n]
    <3>2. n \in {1, 2} /\ n =< WriteSteps(file) /\ n = saving.step - OpenStep(file)
      BY <1>0, <2>1, <3>1
    <3> HIDE DEF n
    <3>3. c \in Contents /\ c.version = saving.version /\ c.writes = n
      BY <3>1, <3>2 DEF Contents, WriteCounts
    <3>4. /\ card' \in CardStates
          /\ card'.target = IF file \in ViaTemp THEN card.target ELSE c
          /\ card'.temp = IF file \in ViaTemp THEN c ELSE card.temp
      <4>1. CASE file \in ViaTemp
        <5>1. WrittenPath = "temp" /\ Draft = card.temp
          BY <4>1 DEF WrittenPath, Draft
        <5>2. card' = [card EXCEPT !.temp = c]
          BY <2>1, <2>7, <5>1, FilesFields DEF CardStates, n
        <5> HIDE DEF c
        <5> QED BY <3>3, <4>1, <5>2, FilesFields DEF CardStates
      <4>2. CASE file \notin ViaTemp
        <5>1. WrittenPath = "target" /\ Draft = card.target
          BY <4>2 DEF WrittenPath, Draft
        <5>2. card' = [card EXCEPT !.target = c]
          BY <2>1, <2>7, <5>1, FilesFields DEF CardStates, n
        <5> HIDE DEF c
        <5> QED BY <3>3, <4>2, <5>2, FilesFields DEF CardStates
      <4> QED BY <4>1, <4>2
    <3> HIDE DEF c
    <3>5. FilesTyped'
      BY <1>0, <2>1, <2>2, <3>4 DEF FilesInv, FilesTyped
    <3>6. Draft' = c
      BY <2>1, <3>4 DEF Draft
    <3>7. DraftComes' /\ FailuresCount'
      BY <1>0, <2>1, <2>2, <2>7, <3>2, <3>3, <3>6 DEF DraftComes, FailuresCount
    <3>8. TargetKept'
      BY <2>1, <2>3, <2>4, <2>5, <3>2, <3>3, <3>4 DEF FilesInv, TargetKept
    <3> QED BY <3>5, <3>7, <3>8 DEF FilesInv
  <2> QED BY <2>6, <2>7
<1>8. CASE WriteFailed
  <2>1. /\ UNCHANGED <<file, card, memory>> /\ saving' = [NextStep EXCEPT !.ok = FALSE]
        /\ past' = IF file \in ViaTemp THEN past ELSE Exposed
        /\ saving.step > OpenStep(file) /\ saving.step < CloseStep(file)
    BY <1>8, FilesFields, StepsAt DEF WriteFailed
  <2>2. /\ saving' \in SavingStates /\ saving'.step = saving.step + 1 /\ saving'.ok = FALSE
    BY <2>1, FilesFields, NextStepFields DEF SavingStates
  <2>3. past' \in PastStates /\ (file \notin ViaTemp => past'.exposed)
    BY <2>1, FilesFields, ExposedFields
  <2>4. FilesTyped'
    BY <1>0, <2>1, <2>2, <2>3 DEF FilesInv, FilesTyped
  <2>5. DraftComes' /\ FailuresCount'
    BY <1>0, <2>1, <2>2, <2>3 DEF DraftComes, FailuresCount
  <2>6. TargetKept'
    <3>1. ~past'.exposed => past' = past /\ ~Touched
      BY <1>0, <2>1, <2>3 DEF Touched
    <3> QED BY <2>1, <3>1 DEF FilesInv, TargetKept
  <2> QED BY <2>4, <2>5, <2>6 DEF FilesInv
<1>9. CASE Close
  <2>1. /\ UNCHANGED <<file, memory>> /\ saving.step = CloseStep(file)
        /\ Len(Script) = LastStep(file)
    BY <1>9, FilesFields, StepsAt, ScriptShape DEF Close
  <2>2. (file \in ViaTemp => ~Touched) /\ saving.step > OpenStep(file)
    BY <1>0, <2>1 DEF Touched
  <2>3. CASE GivesUp
    <3>1. card' = [card EXCEPT !.temp = Absent] /\ saving' = NotSaving /\ UNCHANGED past
          /\ file \in ViaTemp
      BY <1>9, <2>3 DEF Close, GivesUp
    <3>2. card' \in CardStates /\ card'.target = card.target /\ card'.temp = Absent
      BY <3>1, FilesFields, ContentFields DEF CardStates
    <3>3. memory' \in MemoryStates /\ past' \in PastStates /\ ~Touched
      BY <2>1, <2>2, <3>1, FilesFields
    <3>4. file' = file /\ past' = past
      BY <2>1, <3>1
    <3> QED BY <3>1, <3>2, <3>3, <3>4, SaveEnded
  <2>4. CASE ~GivesUp /\ file \in ViaTemp
    <3>1. saving.ok /\ card' = card /\ saving' = NextStep /\ past' = past
      BY <1>0, <1>9, <2>1, <2>4, FilesFields DEF Close, GivesUp
    <3>2. /\ saving' \in SavingStates /\ saving'.step = saving.step + 1
          /\ saving'.version = saving.version /\ saving'.ok = saving.ok
      BY <3>1, FilesFields, NextStepFields
    <3>3. FilesTyped'
      BY <1>0, <2>1, <2>4, <3>1, <3>2 DEF FilesInv, FilesTyped
    <3>4. DraftComes' /\ FailuresCount'
      BY <1>0, <2>1, <2>2, <3>1, <3>2 DEF FilesInv, DraftComes, FailuresCount, Draft
    <3>5. TargetKept'
      BY <2>1, <2>2, <2>4, <3>1 DEF FilesInv, TargetKept
    <3> QED BY <3>3, <3>4, <3>5 DEF FilesInv
  <2>5. CASE file \notin ViaTemp
    <3>1. /\ card' = card /\ saving' = NotSaving
          /\ past' = IF saving.ok THEN [saved |-> saving.version, exposed |-> FALSE] ELSE past
      BY <1>0, <1>9, <2>1, <2>5, FilesFields DEF Close, GivesUp, Saved
    <3>2. CASE saving.ok
      <4>1. /\ card.target.version = saving.version
            /\ card.target.writes = WriteSteps(file)
        <5>1. Draft = card.target
          BY <2>5 DEF Draft
        <5>2. /\ Draft.version = saving.version
              /\ Draft.writes = saving.step - OpenStep(file) - 1
          BY <1>0, <2>1, <2>2, <3>2 DEF FilesInv, DraftComes
        <5>3. saving.step - OpenStep(file) - 1 = WriteSteps(file)
          BY <1>0, <2>1
        <5> QED BY <5>1, <5>2, <5>3
      <4>2. LoadedVersion(file, card.target) = saving.version
        BY <1>0, <4>1 DEF LoadedVersion, Whole
      <4>3. past' \in PastStates /\ past'.saved = saving.version
        BY <3>1, <3>2, FilesFields DEF PastStates
      <4>4. FilesTyped'
        BY <1>0, <2>1, <3>1, <4>3, NotSavingFields DEF FilesInv, FilesTyped
      <4>5. DraftComes' /\ FailuresCount'
        BY <1>0, <2>1, <3>1, NotSavingFields DEF DraftComes, FailuresCount
      <4>6. TargetKept'
        BY <2>1, <3>1, <4>2, <4>3 DEF FilesInv, TargetKept
      <4> QED BY <4>4, <4>5, <4>6 DEF FilesInv
    <3>3. CASE ~saving.ok
      <4>1. past' = past /\ past.exposed /\ file' = file
        BY <2>1, <2>5, <3>1, <3>3 DEF FilesInv, FailuresCount
      <4>2. past' \in PastStates /\ card' \in CardStates /\ memory' \in MemoryStates
        BY <2>1, <3>1, <4>1, FilesFields
      <4>3. card'.target = card.target /\ card'.temp = card.temp /\ past'.exposed
        BY <3>1, <4>1
      <4> QED BY <3>1, <4>1, <4>2, <4>3, SaveEnded
    <3> QED BY <3>2, <3>3
  <2> QED BY <2>3, <2>4, <2>5
<1>10. CASE Rename
  <2>1. /\ UNCHANGED file /\ saving' = NotSaving
        /\ past' = [saved |-> saving.version, exposed |-> FALSE]
        /\ card' = [card EXCEPT !.target = card.temp, !.temp = Absent]
        /\ memory' = [memory EXCEPT !.dirty = memory.dirty /\ file # "aps"]
        /\ file \in ViaTemp /\ saving.step = CloseStep(file) + 2
    BY <1>10, FilesFields, StepsAt DEF Rename, Saved, Renamed
  <2>2. saving.ok
    BY <1>0, <2>1 DEF FilesInv, FailuresCount
  <2>3. card.temp.version = saving.version /\ card.temp.writes = WriteSteps(file)
    BY <1>0, <2>1, <2>2 DEF FilesInv, DraftComes, Draft
  <2>4. /\ card' \in CardStates /\ card'.target = card.temp /\ card'.temp = Absent
    BY <2>1, FilesFields, ContentFields DEF CardStates
  <2>5. LoadedVersion(file, card.temp) = saving.version
    BY <1>0, <2>3 DEF LoadedVersion, Whole
  <2>6. past' \in PastStates /\ past'.saved = saving.version /\ memory' \in MemoryStates
    BY <2>1, FilesFields DEF PastStates, MemoryStates
  <2>7. FilesTyped'
    BY <1>0, <2>1, <2>4, <2>6, NotSavingFields DEF FilesTyped
  <2>8. DraftComes' /\ FailuresCount'
    BY <1>0, <2>1, NotSavingFields DEF DraftComes, FailuresCount
  <2>9. TargetKept'
    <3>1. file = "aps" => WriteSteps(file) = 2
      BY DEF WriteSteps
    <3> QED BY <1>0, <2>1, <2>3, <2>4, <2>5, <2>6, <3>1, ContentFields DEF TargetKept
  <2> QED BY <2>7, <2>8, <2>9 DEF FilesInv
<1>11. CASE RenameFailed
  <2>1. /\ saving' = NotSaving /\ UNCHANGED <<file, card>> /\ past' = Exposed
        /\ memory' = [memory EXCEPT !.dirty = memory.dirty /\ file # "aps"]
    BY <1>11 DEF RenameFailed, Renamed
  <2>2. memory' \in MemoryStates /\ past' \in PastStates /\ past'.exposed
    BY <2>1, FilesFields, ExposedFields DEF MemoryStates
  <2> QED BY <2>1, <2>2, FilesFields, SaveEnded
<1>12. CASE Restart
  <2>1. PICK there \in BOOLEAN,
             found \in IF FileIsOpen THEN Cut(card[WrittenPath]) ELSE {card[WrittenPath]} :
           LET left == [[card EXCEPT ![WrittenPath] = found] EXCEPT !.there = there]
               boot == IF there THEN Loaded(left.target).version ELSE 0
           IN  /\ card' = IF there /\ file = "cal" /\ boot = 0
                          THEN [left EXCEPT !.target = Absent] ELSE left
               /\ memory' = [version |-> boot, dirty |-> FALSE]
               /\ saving' = NotSaving
               /\ past' = IF InWindow THEN Exposed ELSE past
               /\ UNCHANGED file
    BY <1>12 DEF Restart
  <2> DEFINE left == [[card EXCEPT ![WrittenPath] = found] EXCEPT !.there = there]
             boot == IF there THEN Loaded(left.target).version ELSE 0
  <2>2. card[WrittenPath] = Draft /\ Draft \in Contents /\ Draft.writes =< WriteSteps(file)
    <3>1. CASE file \in ViaTemp
      BY <3>1, FilesFields DEF WrittenPath, Draft, FilesInv, TargetKept
    <3>2. CASE file \notin ViaTemp
      BY <3>2, FilesFields DEF WrittenPath, Draft, FilesInv, TargetKept
    <3> QED BY <3>1, <3>2
  <2>3. /\ found \in Contents /\ found.writes =< WriteSteps(file)
        /\ ~FileIsOpen => found = Draft
    <3>1. CASE ~FileIsOpen
      BY <2>1, <2>2, <3>1
    <3>2. CASE FileIsOpen
      <4>1. PICK n \in 0 .. Draft.writes : found = [Draft EXCEPT !.writes = n]
        BY <2>1, <2>2, <3>2 DEF Cut
      <4>2. n \in WriteCounts /\ n =< WriteSteps(file)
        BY <1>0, <2>2, ContentFields
      <4>3. found \in Contents /\ found.writes = n
        BY <2>2, <4>1, <4>2 DEF Contents
      <4> QED BY <3>2, <4>2, <4>3
    <3> QED BY <3>1, <3>2
  <2>4. /\ left \in CardStates
        /\ left.target = IF file \in ViaTemp THEN card.target ELSE found
        /\ left.temp = IF file \in ViaTemp THEN found ELSE card.temp
    <3>1. CASE file \in ViaTemp
      <4> DEFINE m == [card EXCEPT !.temp = found]
      <4>1. m \in CardStates /\ m.target = card.target /\ m.temp = found
        BY <2>3, FilesFields DEF CardStates
      <4>2. left = [m EXCEPT !.there = there]
        BY <3>1 DEF WrittenPath
      <4> HIDE DEF m, left
      <4> QED BY <2>1, <3>1, <4>1, <4>2 DEF CardStates
    <3>2. CASE file \notin ViaTemp
      <4> DEFINE m == [card EXCEPT !.target = found]
      <4>1. m \in CardStates /\ m.target = found /\ m.temp = card.temp
        BY <2>3, FilesFields DEF CardStates
      <4>2. left = [m EXCEPT !.there = there]
        BY <3>2 DEF WrittenPath
      <4> HIDE DEF m, left
      <4> QED BY <2>1, <3>2, <4>1, <4>2 DEF CardStates
    <3> QED BY <3>1, <3>2
  <2>5. /\ card' = IF there /\ file = "cal" /\ boot = 0 THEN [left EXCEPT !.target = Absent] ELSE left
        /\ memory' = [version |-> boot, dirty |-> FALSE] /\ saving' = NotSaving
        /\ past' = IF InWindow THEN Exposed ELSE past
        /\ file' = file
    BY <2>1
  <2> HIDE DEF left
  <2>6. /\ left.target \in Contents /\ left.target.version \in Versions
        /\ left.target.writes =< WriteSteps(file) /\ left.temp.writes =< WriteSteps(file)
    BY <2>3, <2>4, FilesFields, ContentFields DEF FilesInv, TargetKept
  <2>7. boot = IF there THEN LoadedVersion(file, left.target) ELSE 0
    BY FilesFields, LoadedIs DEF LoadedVersion
  <2>8. boot \in Versions
    BY <2>6, <2>7, ContentFields DEF LoadedVersion
  <2> HIDE DEF boot
  <2>9. /\ card' \in CardStates /\ card'.temp = left.temp
        /\ card'.target = IF there /\ file = "cal" /\ boot = 0 THEN Absent ELSE left.target
    BY <2>4, <2>5, ContentFields DEF CardStates
  <2>10. memory' \in MemoryStates
    BY <2>5, <2>8 DEF MemoryStates
  <2>11. past' \in PastStates /\ (~past'.exposed => past' = past /\ ~InWindow)
    BY <2>5, FilesFields, ExposedFields
  <2>12. FilesTyped'
    BY <1>0, <2>5, <2>9, <2>10, <2>11, NotSavingFields DEF FilesInv, FilesTyped
  <2>13. DraftComes' /\ FailuresCount'
    BY <1>0, <2>5, NotSavingFields DEF DraftComes, FailuresCount
  <2>14. ~InWindow => ~Touched /\ left.target = card.target
    <3>1. CASE file \in ViaTemp
      BY <1>0, <2>4, <3>1, FilesFields, StepsAt DEF InWindow, Touched
    <3>2. CASE file \notin ViaTemp
      <4>1. ~InWindow => ~FileIsOpen
        BY <3>2 DEF InWindow, FileIsOpen
      <4> QED BY <2>3, <2>4, <3>2, <4>1 DEF InWindow, Touched, Draft
    <3> QED BY <3>1, <3>2
  <2>15. LoadedVersion(file, card'.target) = LoadedVersion(file, left.target)
    BY <2>7, <2>9, FilesFields, AbsentLoads
  <2>16. ~past'.exposed => LoadedVersion(file, card'.target) = past'.saved
    BY <2>11, <2>14, <2>15 DEF FilesInv, TargetKept
  <2>17. file = "aps" => card'.target.writes # 1
    BY <2>4, <2>9 DEF FilesInv, TargetKept, ViaTemp
  <2>18. card'.target.writes =< WriteSteps(file) /\ card'.temp.writes =< WriteSteps(file)
    BY <1>0, <2>6, <2>9, ContentFields
  <2>19. TargetKept'
    BY <2>5, <2>16, <2>17, <2>18 DEF TargetKept
  <2> QED BY <2>12, <2>13, <2>19 DEF FilesInv
<1>13. CASE UNCHANGED filesVars
    BY <1>13 DEF filesVars, FilesInv, FilesTyped, DraftComes, FailuresCount, TargetKept, Draft, Touched
<1> QED BY <1>1, <1>2, <1>3, <1>4, <1>5, <1>6, <1>7, <1>8, <1>9, <1>10, <1>11, <1>12, <1>13
        DEF FilesNext

(* Whenever the power goes, a boot loads a whole version of a file or       *)
(* nothing (wifiloc.cpp:387-391, tab5_map.cpp:2706-2710, 2821-2823), and it *)
(* is the version saved last unless a save was hit while it replaced it.    *)
THEOREM SavedFilesSurvive == FilesSpec => [](FilesTypeOK /\ NoHalfLoaded /\ KeptUnlessExposed)
<1>1. ASSUME FilesInit PROVE FilesInv
  <2>1. /\ file \in SavedKinds /\ card.target = Absent /\ card.temp = Absent
        /\ saving = NotSaving /\ past = [saved |-> 0, exposed |-> FALSE]
        /\ memory = [version |-> 0, dirty |-> FALSE]
    BY <1>1 DEF FilesInit
  <2>2. card \in CardStates
    BY <1>1, ContentFields DEF FilesInit, CardStates
  <2>3. /\ OpenStep(file) \in {1, 2} /\ WriteSteps(file) \in {1, 2}
        /\ CloseStep(file) = OpenStep(file) + WriteSteps(file) + 1
        /\ LastStep(file) = IF file \in ViaTemp THEN CloseStep(file) + 2 ELSE CloseStep(file)
    BY <2>1, StepNumbers
  <2>4. FilesTyped
    BY <2>1, <2>2, <2>3, NotSavingFields, ContentFields DEF FilesTyped, MemoryStates, PastStates
  <2>5. DraftComes /\ FailuresCount
    BY <2>1, <2>3, NotSavingFields DEF DraftComes, FailuresCount
  <2>6. TargetKept
    BY <2>1, <2>3, ContentFields, AbsentLoads DEF TargetKept
  <2> QED BY <2>4, <2>5, <2>6 DEF FilesInv
<1>2. ASSUME FilesInv PROVE FilesTypeOK /\ NoHalfLoaded /\ KeptUnlessExposed
  <2>1. FilesTypeOK
    <3>1. {card.target, card.temp} \subseteq [version : 0 .. MAX_VERSION, writes : -1 .. Writes]
      <4>1. \A c \in Contents : c.writes =< Writes => c \in [version : 0 .. MAX_VERSION, writes : -1 .. Writes]
        <5> SUFFICES ASSUME NEW c \in Contents, c.writes =< Writes
                     PROVE  c \in [version : 0 .. MAX_VERSION, writes : -1 .. Writes]
            OBVIOUS
        <5>1. c.writes \in -1 .. Writes
          BY <1>2, FilesFields, ContentFields, WritesAre, StepNumbers
        <5> QED BY <5>1 DEF Contents, Versions
      <4> QED BY <1>2, <4>1, FilesFields, WritesAre DEF FilesInv, TargetKept
    <3>2. saving.step \in 0 .. Len(Script)
      BY <1>2, FilesFields, ScriptShape, StepNumbers
    <3> QED BY <1>2, <3>1, <3>2, FilesFields DEF FilesTypeOK, MemoryStates, PastStates, Versions
  <2>2. NoHalfLoaded
    <3>1. file = "aps" => card.target.writes # 1 /\ card.target.writes =< 2
      BY <1>2 DEF FilesInv, TargetKept, WriteSteps
    <3>2. card.target.writes \in {-1, 0, 1, 2}
      BY <1>2, FilesFields, ContentFields
    <3>3. file # "pins" /\ Whole(file, card.target) => card.target.writes = WriteSteps(file)
      BY <3>1, <3>2 DEF Whole, WriteSteps
    <3>4. Loaded(card.target) = IF Whole(file, card.target)
                                THEN [version |-> card.target.version,
                                      whole |-> card.target.writes = WriteSteps(file)]
                                ELSE [version |-> 0, whole |-> TRUE]
      BY <1>2, FilesFields, LoadedIs
    <3>5. CASE Whole(file, card.target)
      <4>1. Loaded(card.target).whole = (card.target.writes = WriteSteps(file))
        BY <3>4, <3>5
      <4> QED BY <3>3, <3>5, <4>1 DEF NoHalfLoaded
    <3>6. CASE ~Whole(file, card.target)
      BY <3>4, <3>6 DEF NoHalfLoaded
    <3> QED BY <3>5, <3>6
  <2>3. KeptUnlessExposed
    <3>1. saving.step = 0 => ~Touched
      BY <1>2, FilesFields, StepNumbers DEF Touched
    <3> QED BY <1>2, <3>1, FilesFields, LoadedIs DEF KeptUnlessExposed, FilesInv, TargetKept, LoadedVersion
  <2> QED BY <2>1, <2>2, <2>3
<1> QED BY <1>1, <1>2, FilesStep, PTL DEF FilesSpec

-----------------------------------------------------------------------------
(***************************************************************************)
(* Touch                                                                    *)
(***************************************************************************)
(* What the panel shows, and its signature, of a list, a target, a page, an *)
(* opening of the panel and a place.                                        *)
Places == Spans \cup {NoPlace}
GuidedBy(list, t) == IF t =< Len(list) THEN t ELSE 0
RangeOf(pin, v) == IF v = NoPlace THEN NoPlace ELSE Distance(v, pin.at)
RowsOf(page, g, s, v) ==
    [i \in 1 .. Len(page) |->
        [pin |-> page[i], range |-> RangeOf(page[i], v), active |-> g = s + i]]
RangesOf(page, v) == [i \in 1 .. Len(page) |-> RangeOf(page[i], v)]
ContentOf(list, t, s, v) ==
    [rows |-> RowsOf(Page(list, s), GuidedBy(list, t), s, v),
     saves |-> IF v = NoPlace THEN "no fix"
               ELSE IF Len(list) >= WP_MAX THEN "list full" ELSE "save here",
     guiding |-> GuidedBy(list, t) # 0,
     scrolls |-> Len(list) > PANEL_ROWS]
SignatureOf(list, t, s, e, v) ==
    <<e, Len(list), s, GuidedBy(list, t), v # NoPlace /\ Len(list) < WP_MAX,
      RangesOf(Page(list, s), v)>>

LEMMA ContentIs ==
    /\ Content = ContentOf(pins, target, ui.scroll, View)
    /\ Signature = SignatureOf(pins, target, ui.scroll, ui.epoch, View)
<1> DEFINE page == Page(pins, ui.scroll)
<1>1. Content.rows = RowsOf(page, Guided, ui.scroll, View)
    BY DEF Content, RowsOf, RangeOf
<1>2. DOMAIN Content.rows = 1 .. Len(page)
    BY <1>1 DEF RowsOf
<1>3. ASSUME NEW i \in 1 .. Len(page)
      PROVE  Content.rows[i].range = RangeOf(page[i], View)
    BY <1>1 DEF RowsOf
<1>4. Ranges = RangesOf(page, View)
    BY <1>2, <1>3 DEF Ranges, RangesOf
<1>5. Guided = GuidedBy(pins, target)
    BY DEF Guided, GuidedBy
<1>6. Content = ContentOf(pins, target, ui.scroll, View)
    BY <1>5 DEF Content, ContentOf, RowsOf, RangeOf
<1> QED BY <1>4, <1>5, <1>6 DEF Signature, SignatureOf

LEMMA PageIs ==
    ASSUME NEW list \in Seq(Points), NEW s \in Nat
    PROVE  /\ Page(list, s) \in Seq(Points)
           /\ s < Len(list) => Len(Page(list, s)) > 0
<1> DEFINE last == Lower(s + PANEL_ROWS, Len(list))
<1>1. Len(list) \in Nat
    BY LenProperties
<1>2. last \in Int /\ last =< Len(list) /\ (s < Len(list) => last >= s + 1)
    BY <1>1, TouchAssumption DEF Lower
<1>3. \A i \in s + 1 .. last : list[i] \in Points
    BY <1>1, <1>2, ElementOfSeq
<1> HIDE DEF last
<1>4. /\ SubSeq(list, s + 1, last) \in Seq(Points)
      /\ Len(SubSeq(list, s + 1, last)) = IF s + 1 =< last THEN last - (s + 1) + 1 ELSE 0
    BY <1>2, <1>3, SubSeqProperties
<1> QED BY <1>2, <1>4 DEF Page, last

(* What a signature does not tell is not shown either.                      *)
LEMMA SignatureTells ==
    ASSUME NEW list \in Seq(Points), Len(list) =< WP_MAX, NEW t, NEW s \in Nat, NEW e,
           s = 0 \/ s + PANEL_ROWS =< Len(list), NEW v \in Places, NEW w \in Places,
           SignatureOf(list, t, s, e, v) = SignatureOf(list, t, s, e, w)
    PROVE  ContentOf(list, t, s, v) = ContentOf(list, t, s, w)
<1> DEFINE page == Page(list, s)
<1>1. /\ RangesOf(page, v) = RangesOf(page, w)
      /\ (v # NoPlace /\ Len(list) < WP_MAX) <=> (w # NoPlace /\ Len(list) < WP_MAX)
    BY DEF SignatureOf
<1>2. page \in Seq(Points) /\ Len(list) \in Nat /\ (s < Len(list) => Len(page) > 0)
    BY PageIs, LenProperties
<1> HIDE DEF page
<1>3. ASSUME NEW i \in 1 .. Len(page)
      PROVE  RangeOf(page[i], v) = RangeOf(page[i], w)
  <2>1. RangesOf(page, v)[i] = RangeOf(page[i], v) /\ RangesOf(page, w)[i] = RangeOf(page[i], w)
    BY DEF RangesOf
  <2> QED BY <1>1, <2>1
<1>4. RowsOf(page, GuidedBy(list, t), s, v) = RowsOf(page, GuidedBy(list, t), s, w)
    BY <1>3 DEF RowsOf
<1>5. v = NoPlace <=> w = NoPlace
  <2>1. CASE Len(list) < WP_MAX
    BY <1>1, <2>1
  <2>2. CASE Len(list) = WP_MAX
    <3>1. Len(page) > 0
      BY <1>2, <2>2, TouchAssumption
    <3>2. page[1] \in Points /\ 1 \in 1 .. Len(page)
      BY <1>2, <3>1, ElementOfSeq, LenProperties
    <3>3. page[1].at \in Nat
      BY <3>2, TouchAssumption DEF Points
    <3>4. \A x \in Places : x # NoPlace => RangeOf(page[1], x) \in Nat
      BY <3>3, TouchAssumption DEF RangeOf, Distance, Places
    <3>5. RangeOf(page[1], NoPlace) = NoPlace /\ NoPlace \notin Nat
      BY DEF RangeOf, NoPlace
    <3> QED BY <1>3, <3>2, <3>4, <3>5
  <2> QED BY <1>2, <2>1, <2>2, TouchAssumption
<1> QED BY <1>4, <1>5 DEF ContentOf, page

(* No signature is another's that differs from it in one of these.          *)
LEMMA SignatureParts ==
    ASSUME NEW l1, NEW t1, NEW s1, NEW e1, NEW v1, NEW l2, NEW t2, NEW s2, NEW e2, NEW v2,
           SignatureOf(l1, t1, s1, e1, v1) = SignatureOf(l2, t2, s2, e2, v2)
    PROVE  e1 = e2 /\ Len(l1) = Len(l2) /\ s1 = s2 /\ GuidedBy(l1, t1) = GuidedBy(l2, t2)
BY DEF SignatureOf

LEMMA SignatureStarts ==
    ASSUME NEW list, NEW t, NEW s, NEW e, NEW v
    PROVE  SignatureOf(list, t, s, e, v)[1] = e /\ SignatureOf(list, t, s, e, v) # <<>>
BY DEF SignatureOf

LEMMA RemovedIs ==
    ASSUME NEW S, NEW list \in Seq(S), NEW i \in 1 .. Len(list)
    PROVE  /\ RemoveAt(list, i) \in Seq(S)
           /\ Len(RemoveAt(list, i)) = Len(list) - 1
           /\ \A j \in 1 .. Len(list) - 1 :
                 RemoveAt(list, i)[j] = IF j < i THEN list[j] ELSE list[j + 1]
<1> DEFINE before == SubSeq(list, 1, i - 1)
           after == SubSeq(list, i + 1, Len(list))
<1>1. Len(list) \in Nat /\ i \in Nat /\ i >= 1 /\ i =< Len(list)
    BY LenProperties
<1>2. /\ before \in Seq(S) /\ Len(before) = i - 1
      /\ \A j \in 1 .. i - 1 : before[j] = list[j]
  <2>1. \A j \in 1 .. i - 1 : list[j] \in S
    BY <1>1, ElementOfSeq
  <2>2. /\ before \in Seq(S) /\ Len(before) = IF 1 =< i - 1 THEN i - 1 - 1 + 1 ELSE 0
        /\ \A j \in 1 .. i - 1 - 1 + 1 : before[j] = list[1 + j - 1]
    BY <1>1, <2>1, SubSeqProperties
  <2> QED BY <1>1, <2>2
<1>3. /\ after \in Seq(S) /\ Len(after) = Len(list) - i
      /\ \A j \in 1 .. Len(list) - i : after[j] = list[i + j]
  <2>1. \A j \in i + 1 .. Len(list) : list[j] \in S
    BY <1>1, ElementOfSeq
  <2>2. /\ after \in Seq(S)
        /\ Len(after) = IF i + 1 =< Len(list) THEN Len(list) - (i + 1) + 1 ELSE 0
        /\ \A j \in 1 .. Len(list) - (i + 1) + 1 : after[j] = list[i + 1 + j - 1]
    BY <1>1, <2>1, SubSeqProperties
  <2> QED BY <1>1, <2>2
<1> HIDE DEF before, after
<1>4. /\ before \o after \in Seq(S) /\ Len(before \o after) = Len(before) + Len(after)
      /\ \A j \in 1 .. Len(before) + Len(after) :
            (before \o after)[j] = IF j =< Len(before) THEN before[j] ELSE after[j - Len(before)]
    BY <1>2, <1>3, ConcatProperties
<1>5. ASSUME NEW j \in 1 .. Len(list) - 1
      PROVE  (before \o after)[j] = IF j < i THEN list[j] ELSE list[j + 1]
    BY <1>1, <1>2, <1>3, <1>4
<1>6. RemoveAt(list, i) = before \o after
    BY DEF RemoveAt, before, after
<1>7. Len(before) + Len(after) = Len(list) - 1
    BY <1>1, <1>2, <1>3
<1> HIDE DEF before, after
<1> QED BY <1>4, <1>5, <1>6, <1>7

-----------------------------------------------------------------------------
Uis == [open : {"none", "pins", "settings"}, scroll : Nat, epoch : {0, 1},
        screenOff : BOOLEAN, confirm : 0 .. CONFIRM]

LEMMA UiFields ==
    ASSUME NEW u \in Uis
    PROVE  /\ u.open \in {"none", "pins", "settings"} /\ u.scroll \in Nat /\ u.epoch \in {0, 1}
           /\ u.screenOff \in BOOLEAN /\ u.confirm \in 0 .. CONFIRM
BY DEF Uis

LEMMA UiOpened ==
    ASSUME NEW u \in Uis, NEW x \in {"none", "pins", "settings"}, NEW v, v = [u EXCEPT !.open = x]
    PROVE  /\ v \in Uis /\ v.open = x
           /\ v.scroll = u.scroll /\ v.epoch = u.epoch
           /\ v.screenOff = u.screenOff /\ v.confirm = u.confirm
BY DEF Uis

LEMMA UiScrolled ==
    ASSUME NEW u \in Uis, NEW x \in Nat, NEW v, v = [u EXCEPT !.scroll = x]
    PROVE  /\ v \in Uis /\ v.scroll = x
           /\ v.open = u.open /\ v.epoch = u.epoch
           /\ v.screenOff = u.screenOff /\ v.confirm = u.confirm
BY DEF Uis

LEMMA UiCounted ==
    ASSUME NEW u \in Uis, NEW x \in {0, 1}, NEW v, v = [u EXCEPT !.epoch = x]
    PROVE  /\ v \in Uis /\ v.epoch = x
           /\ v.open = u.open /\ v.scroll = u.scroll
           /\ v.screenOff = u.screenOff /\ v.confirm = u.confirm
BY DEF Uis

LEMMA UiSwitched ==
    ASSUME NEW u \in Uis, NEW x \in BOOLEAN, NEW v, v = [u EXCEPT !.screenOff = x]
    PROVE  /\ v \in Uis /\ v.screenOff = x
           /\ v.open = u.open /\ v.scroll = u.scroll
           /\ v.epoch = u.epoch /\ v.confirm = u.confirm
BY DEF Uis

LEMMA UiAsked ==
    ASSUME NEW u \in Uis, NEW x \in 0 .. CONFIRM, NEW v, v = [u EXCEPT !.confirm = x]
    PROVE  /\ v \in Uis /\ v.confirm = x
           /\ v.open = u.open /\ v.scroll = u.scroll
           /\ v.epoch = u.epoch /\ v.screenOff = u.screenOff
BY DEF Uis

LEMMA UiClosed ==
    ASSUME NEW u \in Uis
    PROVE  /\ Closed(u) \in Uis
           /\ Closed(u).open = "none" /\ Closed(u).scroll = 0 /\ Closed(u).epoch = u.epoch
           /\ Closed(u).screenOff = u.screenOff /\ Closed(u).confirm = u.confirm
<1>1. Closed(u) = [[u EXCEPT !.open = "none"] EXCEPT !.scroll = 0]
    BY DEF Closed, Uis
<1> DEFINE v == [u EXCEPT !.open = "none"]
<1>2. /\ v \in Uis /\ v.open = "none" /\ v.epoch = u.epoch /\ v.screenOff = u.screenOff
      /\ v.confirm = u.confirm
    BY UiOpened
<1> HIDE DEF v
<1>3. Closed(u) = [v EXCEPT !.scroll = 0]
    BY <1>1 DEF v
<1> QED BY <1>2, <1>3, UiScrolled

LEMMA UiUnconfirmed ==
    ASSUME NEW u \in Uis
    PROVE  /\ Unconfirmed(u) \in Uis
           /\ Unconfirmed(u).open = u.open /\ Unconfirmed(u).scroll = u.scroll
           /\ Unconfirmed(u).epoch = u.epoch /\ Unconfirmed(u).screenOff = u.screenOff
           /\ Unconfirmed(u).confirm = 0
<1>1. 0 \in 0 .. CONFIRM
    BY TouchAssumption
<1> QED BY <1>1, UiAsked DEF Unconfirmed

(* The points and the target, the user interface, and how they move.        *)
PinsSound ==
    /\ pins \in Seq(Points) /\ Len(pins) =< WP_MAX
    /\ \A i, j \in 1 .. Len(pins) : pins[i].no = pins[j].no => i = j

TargetSound ==
    /\ target \in 0 .. Len(pins)
    /\ chosen = IF target = 0 THEN NoPin ELSE pins[target]

UiSound ==
    /\ ui \in Uis
    /\ ui.screenOff => ui.open = "none"
    /\ ui.open # "pins" => ui.scroll = 0
    /\ ui.scroll = 0 \/ ui.scroll + PANEL_ROWS =< Len(pins)

ReceiverSound == receiver \in [fix : Places, estimate : Places]

LEMMA ViewIs == ReceiverSound => View \in Places
BY DEF ReceiverSound, View

LEMMA PinsStep ==
    PinsSound /\ TargetSound /\ ReceiverSound /\ UiSound /\ [TouchNext]_touchVars
        => PinsSound' /\ TargetSound'
<1> SUFFICES ASSUME PinsSound, TargetSound, ReceiverSound, UiSound, [TouchNext]_touchVars
             PROVE  PinsSound' /\ TargetSound'
    OBVIOUS
<1>1. Len(pins) \in Nat /\ (Guided = target)
    BY LenProperties DEF PinsSound, TargetSound, Guided
<1>2. CASE UNCHANGED <<pins, target, chosen>>
    BY <1>2 DEF PinsSound, TargetSound
<1>3. CASE Save
  <2>1. PICK no \in 1 .. WP_MAX :
           /\ \A i \in DOMAIN pins : pins[i].no # no
           /\ pins' = Append(pins, [at |-> receiver.fix, no |-> no])
    BY <1>3 DEF Save
  <2>2. DOMAIN pins = 1 .. Len(pins)
    BY LenProperties DEF PinsSound
  <2> DEFINE new == [at |-> receiver.fix, no |-> no]
  <2>3. new \in Points /\ new.no = no
    BY <1>3 DEF Save, ReceiverSound, Places, Points
  <2> HIDE DEF new
  <2>4. /\ pins' \in Seq(Points) /\ Len(pins') = Len(pins) + 1
        /\ \A i \in 1 .. Len(pins) : pins'[i] = pins[i]
        /\ pins'[Len(pins) + 1] = new
    BY <2>1, <2>3, AppendProperties DEF PinsSound, new
  <2>5. PinsSound'
    <3>1. ASSUME NEW j \in 1 .. Len(pins) + 1, NEW k \in 1 .. Len(pins) + 1, pins'[j].no = pins'[k].no
          PROVE  j = k
      <4>1. \A n \in 1 .. Len(pins) + 1 : n \in 1 .. Len(pins) \/ n = Len(pins) + 1
        BY <1>1
      <4>2. \A n \in 1 .. Len(pins) : pins'[n].no # no
        BY <2>1, <2>2, <2>4
      <4> QED BY <2>3, <2>4, <3>1, <4>1, <4>2 DEF PinsSound
    <3> QED BY <1>1, <1>3, <2>4, <3>1, TouchAssumption DEF PinsSound, Save
  <2>6. TargetSound'
    BY <1>1, <1>3, <2>4 DEF TargetSound, Save
  <2> QED BY <2>5, <2>6
<1>4. CASE StopGuiding
  <2>1. UNCHANGED pins /\ target' = 0 /\ chosen' = NoPin
    BY <1>4 DEF StopGuiding
  <2> QED BY <1>1, <2>1 DEF PinsSound, TargetSound
<1>5. CASE RemovePoint
  <2>1. PICK i \in ui.scroll + 1 .. Lower(ui.scroll + PANEL_ROWS, Len(pins)) :
           /\ pins' = RemoveAt(pins, i)
           /\ target' = Retargeted(i)
           /\ chosen' = IF chosen = pins[i] THEN NoPin ELSE chosen
    BY <1>5 DEF RemovePoint
  <2>2. i \in 1 .. Len(pins)
    BY <1>1, <2>1, TouchAssumption, UiFields DEF UiSound, Lower
  <2>3. /\ pins' \in Seq(Points) /\ Len(pins') = Len(pins) - 1
        /\ \A j \in 1 .. Len(pins) - 1 : pins'[j] = IF j < i THEN pins[j] ELSE pins[j + 1]
    BY <2>1, <2>2, RemovedIs DEF PinsSound
  <2>4. PinsSound'
    <3>1. ASSUME NEW j \in 1 .. Len(pins) - 1, NEW k \in 1 .. Len(pins) - 1, pins'[j].no = pins'[k].no
          PROVE  j = k
      <4> DEFINE was(n) == IF n < i THEN n ELSE n + 1
      <4>1. pins'[j] = pins[was(j)] /\ pins'[k] = pins[was(k)]
        BY <2>3
      <4>2. was(j) \in 1 .. Len(pins) /\ was(k) \in 1 .. Len(pins)
        BY <1>1, <2>2
      <4>3. was(j) = was(k)
        BY <3>1, <4>1, <4>2 DEF PinsSound
      <4> QED BY <2>2, <4>3
    <3> QED BY <1>1, <2>3, <3>1, TouchAssumption DEF PinsSound
  <2>5. TargetSound'
    <3>1. CASE target = 0
      <4>1. pins[i] \in Points
        BY <2>2, ElementOfSeq DEF PinsSound
      <4>2. NoPin \notin Points
        BY DEF NoPin, Points
      <4>3. target' = 0 /\ chosen' = NoPin
        BY <1>1, <2>1, <2>2, <3>1, <4>1, <4>2 DEF Retargeted, TargetSound
      <4> QED BY <1>1, <2>2, <2>3, <4>3 DEF TargetSound
    <3>2. CASE target = i
      <4>1. target' = 0 /\ chosen' = NoPin
        BY <1>1, <2>1, <2>2, <3>2 DEF Retargeted, TargetSound
      <4> QED BY <1>1, <2>2, <2>3, <4>1 DEF TargetSound
    <3>3. CASE target # i /\ target # 0
      <4>1. target \in 1 .. Len(pins) /\ chosen = pins[target]
        BY <1>1, <3>3 DEF TargetSound
      <4>2. pins[target] # pins[i]
        BY <2>2, <3>3, <4>1 DEF PinsSound
      <4>3. chosen' = pins[target] /\ target' = IF target > i THEN target - 1 ELSE target
        BY <2>1, <3>3, <4>1, <4>2 DEF Retargeted
      <4> QED BY <1>1, <2>2, <2>3, <3>3, <4>1, <4>3 DEF TargetSound
    <3> QED BY <3>1, <3>2, <3>3
  <2> QED BY <2>4, <2>5
<1>6. CASE Choose
  <2>1. PICK i \in ui.scroll + 1 .. Lower(ui.scroll + PANEL_ROWS, Len(pins)) :
           /\ target' = IF Guided = i THEN 0 ELSE i
           /\ chosen' = IF Guided = i THEN NoPin ELSE pins[i]
           /\ UNCHANGED pins
    BY <1>6 DEF Choose
  <2>2. i \in 1 .. Len(pins)
    BY <1>1, <2>1, TouchAssumption, UiFields DEF UiSound, Lower
  <2> QED BY <1>1, <2>1, <2>2 DEF PinsSound, TargetSound
<1> QED
    BY <1>2, <1>3, <1>4, <1>5, <1>6 DEF TouchNext, touchVars, OpenPanel, ClosePanel, Scroll,
       RunPortal, TapCache, Pan, SwitchScreenOff, Wake, Meanwhile, Frame

LEMMA UiStep ==
    PinsSound /\ TargetSound /\ UiSound /\ PinsSound' /\ [TouchNext]_touchVars => UiSound'
<1> SUFFICES ASSUME PinsSound, TargetSound, UiSound, PinsSound', [TouchNext]_touchVars
             PROVE  UiSound'
    OBVIOUS
<1>1. Len(pins) \in Nat /\ Len(pins') \in Nat
    BY LenProperties DEF PinsSound
<1>2. /\ ui \in Uis /\ ui.scroll \in Nat /\ ui.epoch \in {0, 1} /\ 1 - ui.epoch \in {0, 1}
      /\ ui.confirm \in 0 .. CONFIRM
      /\ 0 \in 0 .. CONFIRM /\ CONFIRM \in 0 .. CONFIRM
      /\ (ui.confirm > 0 => ui.confirm - 1 \in 0 .. CONFIRM)
      /\ PANEL_ROWS \in Nat /\ PANEL_ROWS > 0
    BY UiFields, TouchAssumption DEF UiSound
<1>3. CASE UNCHANGED <<pins, ui>>
    BY <1>3 DEF UiSound
<1>4. CASE OpenPanel
  <2>1. PICK which \in {"pins", "settings"} :
           /\ TapsMap
           /\ ui' = [Unconfirmed(ui) EXCEPT !.open = which,
                                            !.epoch = IF which = "pins" THEN 1 - @ ELSE @]
           /\ UNCHANGED pins
    BY <1>4 DEF OpenPanel
  <2> DEFINE u == [Unconfirmed(ui) EXCEPT !.open = which]
             n == IF which = "pins" THEN 1 - ui.epoch ELSE ui.epoch
  <2>2. /\ Unconfirmed(ui) \in Uis /\ Unconfirmed(ui).epoch = ui.epoch
        /\ Unconfirmed(ui).scroll = ui.scroll /\ Unconfirmed(ui).screenOff = ui.screenOff
    BY <1>2, UiUnconfirmed
  <2>3. ui' = [u EXCEPT !.epoch = n]
    BY <2>1, <2>2 DEF Uis
  <2>4. u \in Uis /\ u.open = which /\ u.scroll = ui.scroll /\ u.screenOff = ui.screenOff
    BY <2>2, UiOpened
  <2>5. n \in {0, 1}
    BY <1>2
  <2> HIDE DEF u, n
  <2>6. ui' \in Uis /\ ui'.open = which /\ ui'.scroll = ui.scroll /\ ui'.screenOff = ui.screenOff
    BY <2>3, <2>4, <2>5, UiCounted
  <2> QED BY <2>1, <2>6 DEF UiSound, TapsMap
<1>5. CASE UNCHANGED pins /\ ui' = Closed(ui) /\ ~ui.screenOff
    BY <1>1, <1>2, <1>5, UiClosed DEF UiSound
<1>6. CASE UNCHANGED pins /\ ui' = Unconfirmed(ui)
    BY <1>1, <1>2, <1>6, UiUnconfirmed DEF UiSound
<1>7. CASE Save
  <2>1. UNCHANGED ui /\ Len(pins') = Len(pins) + 1
    BY <1>1, <1>7, LenProperties DEF Save, PinsSound
  <2> QED BY <1>1, <1>2, <2>1 DEF UiSound
<1>8. CASE Scroll
  <2>1. CASE ui.scroll > 0 /\ ui' = [ui EXCEPT !.scroll = ui.scroll - 1]
    <3>1. ui.scroll - 1 \in Nat
      BY <1>2, <2>1
    <3>2. /\ ui' \in Uis /\ ui'.scroll = ui.scroll - 1 /\ ui'.open = ui.open
          /\ ui'.screenOff = ui.screenOff
      BY <1>2, <2>1, <3>1, UiScrolled
    <3>3. pins' = pins /\ ui.open = "pins" /\ ~ui.screenOff
      BY <1>8 DEF Scroll, TapsPanel
    <3> QED BY <1>1, <1>2, <2>1, <3>2, <3>3 DEF UiSound
  <2>2. CASE ui.scroll + PANEL_ROWS < Len(pins) /\ ui' = [ui EXCEPT !.scroll = ui.scroll + 1]
    <3>1. ui.scroll + 1 \in Nat
      BY <1>2, <2>2
    <3>2. /\ ui' \in Uis /\ ui'.scroll = ui.scroll + 1 /\ ui'.open = ui.open
          /\ ui'.screenOff = ui.screenOff
      BY <1>2, <2>2, <3>1, UiScrolled
    <3>3. pins' = pins /\ ui.open = "pins" /\ ~ui.screenOff
      BY <1>8 DEF Scroll, TapsPanel
    <3> QED BY <1>1, <1>2, <2>2, <3>2, <3>3 DEF UiSound
  <2> QED BY <1>8, <2>1, <2>2 DEF Scroll
<1>9. CASE RemovePoint
  <2>1. PICK i \in ui.scroll + 1 .. Lower(ui.scroll + PANEL_ROWS, Len(pins)) :
           /\ TapsPanel("pins")
           /\ pins' = RemoveAt(pins, i)
           /\ ui' = [ui EXCEPT !.scroll = ScrolledBack(ui.scroll)]
    BY <1>9 DEF RemovePoint
  <2>2. i \in 1 .. Len(pins)
    BY <1>1, <1>2, <2>1 DEF Lower
  <2>3. Len(pins') = Len(pins) - 1
    BY <2>1, <2>2, RemovedIs DEF PinsSound
  <2>4. /\ ScrolledBack(ui.scroll) \in Nat
        /\ ScrolledBack(ui.scroll) = 0 \/ ScrolledBack(ui.scroll) + PANEL_ROWS =< Len(pins')
    BY <1>1, <1>2, <2>3 DEF ScrolledBack
  <2>5. /\ ui' \in Uis /\ ui'.scroll = ScrolledBack(ui.scroll) /\ ui'.open = ui.open
        /\ ui'.screenOff = ui.screenOff
    BY <1>2, <2>1, <2>4, UiScrolled
  <2> QED BY <2>1, <2>4, <2>5 DEF UiSound, TapsPanel
<1>10. CASE Choose
    BY <1>5, <1>10 DEF Choose, TapsPanel
<1>11. CASE RunPortal
    BY <1>3, <1>5, <1>11 DEF RunPortal, TapsPanel
<1>12. CASE TapCache
  <2>1. CASE ui' = [ui EXCEPT !.confirm = CONFIRM]
    <3>1. /\ ui' \in Uis /\ ui'.scroll = ui.scroll /\ ui'.open = ui.open
          /\ ui'.screenOff = ui.screenOff
      BY <1>2, <2>1, UiAsked
    <3> QED BY <1>12, <3>1 DEF UiSound, TapCache
  <2> QED BY <1>6, <1>12, <2>1 DEF TapCache
<1>13. CASE SwitchScreenOff
  <2>1. ui' = [Unconfirmed(ui) EXCEPT !.screenOff = TRUE] /\ TapsMap /\ pins' = pins
    BY <1>13 DEF SwitchScreenOff
  <2>2. Unconfirmed(ui) \in Uis /\ Unconfirmed(ui).scroll = ui.scroll /\ Unconfirmed(ui).open = ui.open
    BY <1>2, UiUnconfirmed
  <2> DEFINE u == Unconfirmed(ui)
  <2>3. u \in Uis /\ u.scroll = ui.scroll /\ u.open = ui.open /\ ui' = [u EXCEPT !.screenOff = TRUE]
    BY <2>1, <2>2
  <2> HIDE DEF u
  <2>4. ui' \in Uis /\ ui'.scroll = u.scroll /\ ui'.open = u.open
    BY <2>3, UiSwitched
  <2> QED BY <2>1, <2>3, <2>4 DEF UiSound, TapsMap
<1>14. CASE Wake
  <2>1. ui' = [ui EXCEPT !.screenOff = FALSE] /\ pins' = pins
    BY <1>14 DEF Wake
  <2>2. ui' \in Uis /\ ui'.scroll = ui.scroll /\ ui'.open = ui.open /\ ~ui'.screenOff
    BY <1>2, <2>1, UiSwitched
  <2> QED BY <2>1, <2>2 DEF UiSound
<1>15. CASE Frame
  <2>1. ui' = [ui EXCEPT !.confirm = IF ui.confirm > 0 THEN ui.confirm - 1 ELSE 0] /\ pins' = pins
    BY <1>15 DEF Frame
  <2>2. (IF ui.confirm > 0 THEN ui.confirm - 1 ELSE 0) \in 0 .. CONFIRM
    BY <1>2
  <2>3. /\ ui' \in Uis /\ ui'.scroll = ui.scroll /\ ui'.open = ui.open
        /\ ui'.screenOff = ui.screenOff
    BY <1>2, <2>1, <2>2, UiAsked
  <2> QED BY <2>1, <2>3 DEF UiSound
<1> QED
    BY <1>3, <1>4, <1>5, <1>6, <1>7, <1>8, <1>9, <1>10, <1>11, <1>12, <1>13, <1>14, <1>15
    DEF TouchNext, touchVars, ClosePanel, StopGuiding, Pan, Meanwhile

-----------------------------------------------------------------------------
(* What the panel shows: its content wherever its signature is the last     *)
(* one, and that is the last one once a frame is drawn.  A closed panel's   *)
(* last signature is of the last opening, or of none.                       *)
ReadFor(v) == SignatureOf(pins, target, ui.scroll, ui.epoch, v)
Shown(v) == ContentOf(pins, target, ui.scroll, v)

PanelSound ==
    /\ fresh \in BOOLEAN /\ DOMAIN panel = {"shows", "last"}
    /\ ui.open = "pins" =>
          /\ \A v \in Places : panel.last = ReadFor(v) => panel.shows = Shown(v)
          /\ fresh => panel.last = ReadFor(View)
    /\ ui.open # "pins" => panel.last = <<>> \/ panel.last[1] = ui.epoch

(* Whatever is shown, its signature is that of no state the points, the     *)
(* target or the page are in now.                                           *)
LEMMA PanelStale ==
    ASSUME PanelSound, fresh, ui.open = "pins", ui'.open = "pins", ~fresh', panel' = panel,
           ~fresh' /\ fresh' \in BOOLEAN,
           \/ ui'.epoch # ui.epoch
           \/ ui'.scroll # ui.scroll
           \/ Len(pins') # Len(pins)
           \/ GuidedBy(pins', target') # GuidedBy(pins, target)
    PROVE  PanelSound'
<1>1. panel.last = ReadFor(View)
    BY DEF PanelSound
<1>2. ASSUME NEW v \in Places
      PROVE  panel.last # SignatureOf(pins', target', ui'.scroll, ui'.epoch, v)
    BY <1>1, SignatureParts DEF ReadFor
<1> QED BY <1>2 DEF PanelSound, ReadFor, Shown

LEMMA PanelClosed ==
    ASSUME PanelSound, fresh, ui'.open # "pins", ui'.epoch = ui.epoch, ~fresh',
           fresh' \in BOOLEAN,
           panel' = panel \/ panel' = [panel EXCEPT !.shows = <<>>]
    PROVE  PanelSound'
<1>1. panel'.last = panel.last /\ DOMAIN panel' = {"shows", "last"}
    BY DEF PanelSound
<1>2. ui.open = "pins" => panel.last[1] = ui.epoch
    BY SignatureStarts DEF PanelSound, ReadFor
<1> QED BY <1>1, <1>2 DEF PanelSound

LEMMA PanelStep ==
    ASSUME PinsSound, TargetSound, UiSound, ReceiverSound, PanelSound,
           PinsSound', TargetSound', ReceiverSound', [TouchNext]_touchVars
    PROVE  PanelSound'
<1>1. /\ Len(pins) \in Nat /\ Len(pins') \in Nat
      /\ GuidedBy(pins, target) = target /\ GuidedBy(pins', target') = target' /\ Guided = target
    BY LenProperties DEF PinsSound, TargetSound, GuidedBy, Guided
<1>2. ui \in Uis /\ View \in Places /\ View' \in Places /\ PANEL_ROWS \in Nat /\ PANEL_ROWS > 0
    BY ViewIs, TouchAssumption DEF UiSound, ReceiverSound, View
<1>3. CASE UNCHANGED touchVars
    BY <1>3 DEF touchVars, drawnVars, PanelSound, ReadFor, Shown, View
<1>4. CASE OpenPanel
  <2>1. PICK which \in {"pins", "settings"} :
           /\ TapsMap
           /\ ui' = [Unconfirmed(ui) EXCEPT !.open = which,
                                            !.epoch = IF which = "pins" THEN 1 - @ ELSE @]
           /\ ScreenKept
    BY <1>4 DEF OpenPanel
  <2>2. /\ ui'.open = which
        /\ ui'.epoch = IF which = "pins" THEN 1 - ui.epoch ELSE ui.epoch
    BY <1>2, <2>1, UiFields DEF Uis, Unconfirmed
  <2>3. CASE which = "pins"
    <3>1. ui'.epoch # ui.epoch
      BY <1>2, <2>2, <2>3, UiFields
    <3>2. panel.last = <<>> \/ panel.last[1] = ui.epoch
      BY <2>1 DEF PanelSound, TapsMap
    <3>3. ASSUME NEW v \in Places
          PROVE  panel.last # SignatureOf(pins', target', ui'.scroll, ui'.epoch, v)
      BY <3>1, <3>2, SignatureStarts
    <3> QED BY <2>1, <2>2, <2>3, <3>3 DEF PanelSound, ReadFor, Shown, ScreenKept, Tapped
  <2>4. CASE which = "settings"
    BY <2>1, <2>2, <2>4, PanelClosed DEF ScreenKept, Tapped
  <2> QED BY <2>3, <2>4
<1>5. CASE ClosePanel \/ Choose \/ (RunPortal /\ ui' = Closed(ui))
  <2>1. ui'.open # "pins" /\ ui'.epoch = ui.epoch
    BY <1>2, <1>5, UiClosed DEF ClosePanel, Choose, RunPortal
  <2> QED BY <1>5, <2>1, PanelClosed DEF ClosePanel, Choose, RunPortal, ScreenWiped, Tapped
<1>6. CASE RunPortal /\ UNCHANGED ui /\ TapsMap
    BY <1>6, PanelClosed DEF RunPortal, TapsMap, ScreenWiped, Tapped
<1>7. CASE Save
  <2>1. Len(pins') = Len(pins) + 1
    BY <1>7, LenProperties DEF Save, PinsSound
  <2>2. Len(pins') # Len(pins)
    BY <1>1, <2>1
  <2> QED BY <1>7, <2>2, PanelStale DEF Save, TapsPanel, ScreenKept, Tapped
<1>8. CASE StopGuiding
  <2>1. GuidedBy(pins', target') # GuidedBy(pins, target)
    BY <1>1, <1>8 DEF StopGuiding
  <2> QED BY <1>8, <2>1, PanelStale DEF StopGuiding, TapsPanel, ScreenKept, Tapped
<1>9. CASE Scroll
  <2>1. ui'.open = ui.open /\ ui'.scroll # ui.scroll
    BY <1>2, <1>9, UiFields DEF Scroll, Uis
  <2> QED BY <1>9, <2>1, PanelStale DEF Scroll, TapsPanel, ScreenKept, Tapped
<1>10. CASE RemovePoint
  <2>1. PICK i \in ui.scroll + 1 .. Lower(ui.scroll + PANEL_ROWS, Len(pins)) :
           /\ TapsPanel("pins")
           /\ pins' = RemoveAt(pins, i)
           /\ ui' = [ui EXCEPT !.scroll = ScrolledBack(ui.scroll)]
           /\ ScreenKept
    BY <1>10 DEF RemovePoint
  <2>2. i \in 1 .. Len(pins)
    BY <1>1, <1>2, <2>1, UiFields DEF Lower
  <2>3. Len(pins') # Len(pins)
    BY <1>1, <2>1, <2>2, RemovedIs DEF PinsSound
  <2>4. ui'.open = ui.open
    BY <1>2, <2>1 DEF Uis
  <2> QED BY <2>1, <2>3, <2>4, PanelStale DEF TapsPanel, ScreenKept, Tapped
<1>11. CASE TapCache \/ Pan \/ SwitchScreenOff \/ Wake
  <2>1. ui'.open = ui.open /\ ui'.epoch = ui.epoch /\ ui.open # "pins"
    BY <1>2, <1>11 DEF TapCache, Pan, SwitchScreenOff, Wake, TapsMap, UiSound, Uis, Unconfirmed
  <2> QED BY <1>11, <2>1, PanelClosed DEF TapCache, Pan, SwitchScreenOff, Wake, ScreenKept,
             ScreenWiped, Tapped
<1>12. CASE Meanwhile
    BY <1>12 DEF Meanwhile, PanelSound, ReadFor, Shown
<1>13. CASE Frame
  <2>1. /\ ui'.open = ui.open /\ ui'.epoch = ui.epoch /\ ui'.scroll = ui.scroll
        /\ pins' = pins /\ target' = target /\ receiver' = receiver /\ fresh' \in BOOLEAN
    BY <1>2, <1>13 DEF Frame, Uis
  <2>2. View' = View
    BY <2>1 DEF View
  <2>3. CASE ui.screenOff
    BY <1>13, <2>1, <2>3 DEF Frame, PanelSound, UiSound
  <2>4. CASE ~ui.screenOff /\ ui.open # "pins"
    BY <1>13, <2>1, <2>4 DEF Frame, PanelSound, PanelDrawn
  <2>5. CASE ~ui.screenOff /\ ui.open = "pins"
    <3>1. /\ panel' = IF panel.last # ReadFor(View) THEN [shows |-> Shown(View), last |-> ReadFor(View)]
                      ELSE panel
      BY <1>13, <2>5, ContentIs DEF Frame, PanelDrawn, ReadFor, Shown
    <3>2. /\ panel'.last = ReadFor(View) /\ panel'.shows = Shown(View)
          /\ DOMAIN panel' = {"shows", "last"}
      BY <1>2, <2>5, <3>1 DEF PanelSound
    <3>3. ASSUME NEW v \in Places, ReadFor(View) = ReadFor(v)
          PROVE  Shown(View) = Shown(v)
      BY <1>2, <3>3, SignatureTells, UiFields DEF ReadFor, Shown, PinsSound, UiSound
    <3>4. \A v : ReadFor(v)' = ReadFor(v) /\ Shown(v)' = Shown(v)
      BY <2>1 DEF ReadFor, Shown
    <3> QED BY <2>1, <2>2, <2>5, <3>2, <3>3, <3>4 DEF PanelSound
  <2> QED BY <2>3, <2>4, <2>5
<1>14. RunPortal => ui' = Closed(ui) \/ (UNCHANGED ui /\ TapsMap)
    BY DEF RunPortal
<1> QED
    BY <1>3, <1>4, <1>5, <1>6, <1>7, <1>8, <1>9, <1>10, <1>11, <1>12, <1>13, <1>14
    DEF TouchNext

-----------------------------------------------------------------------------
(* What the footer shows: the table holds the labels once a frame is drawn, *)
(* and the screen does, or was drawn that long ago.                         *)
CacheStates == {"busy", "held", "ready", "unjoined"}
CacheLabels == CacheStates \cup {"confirm?", ""}
PointsLabels == {"to", "points", ""}
ButtonLabels == [cache : CacheLabels, points : PointsLabels]
FooterAges == 0 .. HEARTBEAT + 1
Footers == [table : ButtonLabels, screen : ButtonLabels, valid : BOOLEAN, age : FooterAges]

FooterTyped ==
    /\ footer \in Footers /\ cache \in CacheStates /\ still \in 0 .. HEARTBEAT + 3

FooterSound ==
    /\ FooterTyped
    /\ ~ui.screenOff /\ still >= 1 =>
           footer.table = Labels /\ (footer.screen = Labels \/ footer.age >= still - 1)

LEMMA LabelFields ==
    ASSUME NEW l \in ButtonLabels
    PROVE  /\ l.cache \in CacheLabels /\ l.points \in PointsLabels
           /\ l["cache"] = l.cache /\ l["points"] = l.points
           /\ DOMAIN l = {"cache", "points"}
           /\ l = [cache |-> l.cache, points |-> l.points]
BY DEF ButtonLabels

LEMMA LabelNames ==
    /\ "" \in CacheLabels /\ "" \in PointsLabels /\ CacheStates \subseteq CacheLabels
    /\ "confirm?" \in CacheLabels /\ "to" \in PointsLabels /\ "points" \in PointsLabels
    /\ NoLabels \in ButtonLabels
<1>1. /\ "" \in CacheLabels /\ "" \in PointsLabels /\ CacheStates \subseteq CacheLabels
      /\ "confirm?" \in CacheLabels /\ "to" \in PointsLabels /\ "points" \in PointsLabels
    BY DEF CacheLabels, PointsLabels
<1> QED BY <1>1 DEF ButtonLabels, NoLabels

LEMMA LabelsTyped == cache \in CacheStates => Labels \in ButtonLabels
<1> DEFINE c == IF cache = "ready" /\ ui.confirm > 0 THEN "confirm?" ELSE cache
           p == IF Guided # 0 THEN "to" ELSE "points"
<1> SUFFICES ASSUME cache \in CacheStates PROVE Labels \in ButtonLabels
    OBVIOUS
<1>1. c \in CacheLabels /\ p \in PointsLabels
    BY LabelNames
<1>2. Labels = [cache |-> c, points |-> p]
    BY DEF Labels
<1> HIDE DEF c, p
<1> QED BY <1>1, <1>2 DEF ButtonLabels

LEMMA FooterFields ==
    ASSUME NEW f \in Footers
    PROVE  /\ f.table \in ButtonLabels /\ f.screen \in ButtonLabels
           /\ f.valid \in BOOLEAN /\ f.age \in FooterAges
BY DEF Footers

(* flushButtons on a footer f, for labels l: the labels of some buttons are *)
(* taken over, of all of them when it is due.                               *)
Flush(f, l, all) ==
    LET changed == {b \in DOMAIN l : all \/ f.table[b] # l[b]}
    IN  [table |-> l, valid |-> f.valid \/ changed # {},
         screen |-> [b \in DOMAIN l |-> IF b \in changed THEN l[b] ELSE f.screen[b]],
         age |-> IF changed # {} THEN 0 ELSE f.age + 1]

LEMMA FlushIs ==
    ASSUME NEW f \in Footers, NEW l \in ButtonLabels, NEW all \in BOOLEAN,
           ~all => f.age =< HEARTBEAT
    PROVE  /\ Flush(f, l, all) \in Footers /\ Flush(f, l, all).table = l
           /\ all => Flush(f, l, all).screen = l
           /\ f.table = l /\ f.screen = l => Flush(f, l, all).screen = l
           /\ f.table = l /\ ~all => Flush(f, l, all).age = f.age + 1
<1> DEFINE g == Flush(f, l, all)
           changed == {b \in DOMAIN l : all \/ f.table[b] # l[b]}
           s == [b \in DOMAIN l |-> IF b \in changed THEN l[b] ELSE f.screen[b]]
<1>1. /\ f.table \in ButtonLabels /\ f.screen \in ButtonLabels /\ f.valid \in BOOLEAN
      /\ f.age \in FooterAges
    BY FooterFields
<1>2. /\ DOMAIN l = {"cache", "points"} /\ l = [cache |-> l.cache, points |-> l.points]
      /\ l.cache \in CacheLabels /\ l.points \in PointsLabels
    BY LabelFields
<1>3. /\ DOMAIN s = {"cache", "points"}
      /\ s["cache"] = IF "cache" \in changed THEN l.cache ELSE f.screen.cache
      /\ s["points"] = IF "points" \in changed THEN l.points ELSE f.screen.points
    BY <1>2
<1>4. s = [cache |-> s["cache"], points |-> s["points"]]
  <2>1. s = [b \in {"cache", "points"} |-> s[b]]
    BY <1>2
  <2> HIDE DEF s
  <2> QED BY <2>1
<1>5. s["cache"] \in CacheLabels /\ s["points"] \in PointsLabels
    BY <1>1, <1>2, <1>3, LabelFields
<1> HIDE DEF s
<1>6. s \in ButtonLabels
    BY <1>4, <1>5 DEF ButtonLabels
<1>7. all => s = l
  <2>1. all => changed = {"cache", "points"}
    BY <1>2
  <2> QED BY <1>2, <1>3, <1>4, <2>1
<1>8. f.table = l /\ ~all => changed = {}
    OBVIOUS
<1>9. f.table = l /\ f.screen = l => s = l
    BY <1>2, <1>3, <1>4
<1>10. (f.valid \/ changed # {}) \in BOOLEAN
    OBVIOUS
<1>11. all => changed # {}
    BY <1>2
<1>12. (IF changed # {} THEN 0 ELSE f.age + 1) \in FooterAges
    BY <1>1, <1>11, TouchAssumption DEF FooterAges
<1>13. g = [table |-> l, valid |-> f.valid \/ changed # {}, screen |-> s,
            age |-> IF changed # {} THEN 0 ELSE f.age + 1]
    BY DEF s, Flush
<1> HIDE DEF g
<1>14. g \in Footers
    BY <1>6, <1>10, <1>12, <1>13 DEF Footers
<1> QED BY <1>7, <1>8, <1>9, <1>13, <1>14 DEF g

LEMMA FooterStep ==
    ASSUME PinsSound, TargetSound, UiSound, FooterSound, UiSound', [TouchNext]_touchVars
    PROVE  FooterSound'
<1>1. /\ footer \in Footers /\ cache \in CacheStates /\ still \in 0 .. HEARTBEAT + 3
      /\ HEARTBEAT \in Nat /\ CONFIRM \in Nat /\ ui \in Uis /\ ui.confirm \in 0 .. CONFIRM
      /\ footer.age \in FooterAges
    BY TouchAssumption, UiFields, FooterFields DEF FooterSound, FooterTyped, UiSound
<1>2. CASE UNCHANGED touchVars
  <2>1. Labels' = Labels
    BY <1>2 DEF Labels, Guided, touchVars
  <2> QED BY <1>2, <2>1 DEF touchVars, drawnVars, FooterSound, FooterTyped
<1>3. CASE Tapped /\ footer' \in Footers /\ cache' \in CacheStates
    BY <1>1, <1>3 DEF FooterSound, FooterTyped, Tapped
<1>4. ASSUME NEW valid \in BOOLEAN, ScreenWiped(valid)
      PROVE  Tapped /\ footer' \in Footers
  <2>1. footer' = [[footer EXCEPT !.screen = NoLabels] EXCEPT !.valid = valid]
    BY <1>1, <1>4 DEF ScreenWiped, Footers
  <2>2. [footer EXCEPT !.screen = NoLabels] \in Footers
    BY <1>1, LabelNames DEF Footers
  <2>3. footer' \in Footers
    BY <2>1, <2>2 DEF Footers
  <2> QED BY <1>4, <2>3 DEF ScreenWiped
<1>5. ScreenKept => Tapped /\ footer' \in Footers
    BY <1>1 DEF ScreenKept
<1>6. CASE OpenPanel \/ Save \/ StopGuiding \/ Scroll \/ RemovePoint \/ TapCache \/ Pan
    BY <1>1, <1>3, <1>5, <1>6 DEF OpenPanel, Save, StopGuiding, Scroll, RemovePoint, TapCache,
       Pan, CacheStates
<1>7. CASE ClosePanel \/ Choose \/ SwitchScreenOff \/ Wake
    BY <1>1, <1>3, <1>4, <1>7, FooterFields DEF ClosePanel, Choose, SwitchScreenOff, Wake
<1>8. CASE RunPortal
  <2>1. cache' \in CacheStates
    BY <1>1, <1>8 DEF RunPortal, Areas, CacheStates
  <2> QED BY <1>3, <1>4, <1>8, <2>1 DEF RunPortal
<1>9. CASE Meanwhile
  <2>1. UNCHANGED <<pins, target, ui, footer>>
    BY <1>9 DEF Meanwhile
  <2>2. CASE UNCHANGED <<cache, still>>
    <3>1. Labels' = Labels
      BY <2>1, <2>2 DEF Labels, Guided
    <3> QED BY <2>1, <2>2, <3>1 DEF FooterSound, FooterTyped
  <2>3. CASE cache' \in {"held", "ready", "unjoined"} /\ still' = 0
    BY <1>1, <2>1, <2>3 DEF FooterSound, FooterTyped, CacheStates
  <2> QED BY <1>9, <2>2, <2>3 DEF Meanwhile
<1>10. CASE Frame /\ ui.screenOff
  <2>1. still' = 0 /\ cache' = cache
    BY <1>10 DEF Frame
  <2>2. footer' = [footer EXCEPT !.age = Lower(HEARTBEAT + 1, footer.age + 1)]
    BY <1>10 DEF Frame
  <2>3. Lower(HEARTBEAT + 1, footer.age + 1) \in FooterAges
    BY <1>1 DEF Lower, FooterAges
  <2>4. footer' \in Footers
    BY <1>1, <2>2, <2>3 DEF Footers
  <2> QED BY <1>1, <2>1, <2>4 DEF FooterSound, FooterTyped
<1>11. CASE Frame /\ ~ui.screenOff
  <2> DEFINE all == ~footer.valid \/ footer.age > HEARTBEAT
  <2>1. footer' = Flush(footer, Labels, all)
    BY <1>11 DEF Frame, FooterDrawn, Flush
  <2>2. all \in BOOLEAN /\ (~all => footer.age =< HEARTBEAT) /\ Labels \in ButtonLabels
    BY <1>1, LabelsTyped DEF FooterAges
  <2> HIDE DEF all
  <2>4. /\ footer' \in Footers /\ footer'.table = Labels
        /\ all => footer'.screen = Labels
        /\ footer.table = Labels /\ footer.screen = Labels => footer'.screen = Labels
        /\ footer.table = Labels /\ ~all => footer'.age = footer.age + 1
    BY <1>1, <2>1, <2>2, FlushIs
  <2>5. /\ UNCHANGED <<pins, target, cache>>
        /\ still' = IF ui.confirm = 1 THEN 0 ELSE Lower(HEARTBEAT + 3, still + 1)
        /\ ui' = [ui EXCEPT !.confirm = IF ui.confirm > 0 THEN ui.confirm - 1 ELSE 0]
    BY <1>11 DEF Frame
  <2>6. still' \in 0 .. HEARTBEAT + 3 /\ (still' >= 1 => ui.confirm # 1 /\ still' =< still + 1)
    BY <1>1, <2>5 DEF Lower
  <2>7. footer'.age \in FooterAges
    BY <2>4, FooterFields
  <2>8. ui.confirm # 1 => Labels' = Labels
    <3>1. ui'.confirm = IF ui.confirm > 0 THEN ui.confirm - 1 ELSE 0
      BY <1>1, <2>5 DEF Uis
    <3>2. ui.confirm # 1 => (ui'.confirm > 0 <=> ui.confirm > 0)
      BY <1>1, <3>1
    <3> QED BY <2>5, <3>2 DEF Labels, Guided
  <2>9. ASSUME still' >= 1
        PROVE  footer'.screen = Labels \/ footer'.age >= still' - 1
    <3>1. CASE still = 0
      BY <1>1, <2>6, <2>7, <2>9, <3>1 DEF FooterAges
    <3>2. CASE still >= 1
      <4>1. footer.table = Labels /\ (footer.screen = Labels \/ footer.age >= still - 1)
        BY <1>11, <3>2 DEF FooterSound
      <4>2. CASE footer.screen = Labels \/ all
        BY <2>2, <2>4, <4>1, <4>2
      <4>3. CASE footer.age >= still - 1 /\ ~all
        BY <1>1, <2>4, <2>6, <2>9, <4>1, <4>3 DEF FooterAges
      <4> QED BY <2>2, <4>1, <4>2, <4>3
    <3> QED BY <1>1, <3>1, <3>2
  <2> QED BY <1>1, <2>4, <2>5, <2>6, <2>8, <2>9 DEF FooterSound, FooterTyped
<1> QED
    BY <1>2, <1>6, <1>7, <1>8, <1>9, <1>10, <1>11 DEF TouchNext

-----------------------------------------------------------------------------
TouchInv ==
    /\ PinsSound /\ TargetSound /\ UiSound /\ ReceiverSound /\ PanelSound /\ FooterSound

LEMMA ReceiverStep == ReceiverSound /\ [TouchNext]_touchVars => ReceiverSound'
<1> SUFFICES ASSUME ReceiverSound, [TouchNext]_touchVars PROVE ReceiverSound'
    OBVIOUS
<1>1. CASE Meanwhile
    BY <1>1, TouchAssumption DEF Meanwhile, ReceiverSound, Places
<1>2. CASE UNCHANGED receiver
    BY <1>2 DEF ReceiverSound
<1> QED
    BY <1>1, <1>2 DEF TouchNext, touchVars, OpenPanel, ClosePanel, Save, StopGuiding, Scroll,
       RemovePoint, Choose, RunPortal, TapCache, Pan, SwitchScreenOff, Wake, Frame

LEMMA TouchStep == TouchInv /\ [TouchNext]_touchVars => TouchInv'
<1> SUFFICES ASSUME TouchInv, [TouchNext]_touchVars PROVE TouchInv'
    OBVIOUS
<1>1. PinsSound' /\ TargetSound'
    BY PinsStep DEF TouchInv
<1>2. UiSound'
    BY <1>1, UiStep DEF TouchInv
<1>3. ReceiverSound'
    BY ReceiverStep DEF TouchInv
<1>4. PanelSound'
    BY <1>1, <1>3, PanelStep DEF TouchInv
<1>5. FooterSound'
    BY <1>2, FooterStep DEF TouchInv
<1> QED BY <1>1, <1>2, <1>3, <1>4, <1>5 DEF TouchInv

LEMMA TouchStarts == TouchInit => TouchInv
<1> SUFFICES ASSUME TouchInit PROVE TouchInv
    OBVIOUS
<1>1. PinsSound /\ TargetSound
    BY EmptySeq, TouchAssumption DEF TouchInit, PinsSound, TargetSound
<1>2. UiSound /\ ReceiverSound
    BY TouchAssumption DEF TouchInit, UiSound, Uis, ReceiverSound, Places
<1>3. PanelSound
    BY DEF TouchInit, PanelSound
<1>4. FooterSound
  <2>1. footer \in Footers
    <3>1. 0 \in FooterAges
      BY TouchAssumption DEF FooterAges
    <3> QED BY <3>1, LabelNames DEF TouchInit, Footers
  <2> QED BY <2>1, TouchAssumption DEF TouchInit, FooterSound, FooterTyped, CacheStates
<1> QED BY <1>1, <1>2, <1>3, <1>4 DEF TouchInv

LEMMA TouchInvImplies == TouchInv => TouchTypeOK /\ TargetFollowsPin /\ ScreenTrue
<1> SUFFICES ASSUME TouchInv PROVE TouchTypeOK /\ TargetFollowsPin /\ ScreenTrue
    OBVIOUS
<1>1. Len(pins) \in Nat /\ pins \in [1 .. Len(pins) -> Points] /\ Len(pins) \in 0 .. WP_MAX
    BY LenProperties, TouchAssumption DEF TouchInv, PinsSound
<1>2. TouchTypeOK
  <2>1. pins \in BoundedSeq(Points, WP_MAX)
    BY <1>1 DEF BoundedSeq, SeqOf
  <2> QED BY <2>1, UiFields DEF TouchInv, TouchTypeOK, UiSound, TargetSound
<1>3. Guided = target
    BY <1>1 DEF TouchInv, TargetSound, Guided
<1>4. TargetFollowsPin
    BY <1>3 DEF TargetFollowsPin, TouchInv, TargetSound
<1>5. fresh => PanelTrue
  <2>1. View \in Places
    BY ViewIs DEF TouchInv
  <2> QED BY <2>1, ContentIs DEF PanelTrue, TouchInv, PanelSound, ReadFor, Shown
<1>6. FooterTrue
  <2>1. /\ still \in 0 .. HEARTBEAT + 3 /\ footer.age \in FooterAges
        /\ ~ui.screenOff /\ still >= 1 => footer.screen = Labels \/ footer.age >= still - 1
    BY FooterFields DEF TouchInv, FooterSound, FooterTyped
  <2> QED BY <2>1, TouchAssumption DEF FooterTrue, FooterAges
<1> QED BY <1>2, <1>4, <1>5, <1>6 DEF ScreenTrue

(* Whatever the user taps and whatever the receiver finds in between, the   *)
(* guidance leads to the point it was asked for, and what is drawn is what  *)
(* the list and the buttons are now: the panel at the next frame, the       *)
(* footer at the heartbeat (tab5_map.cpp:1013-1021, 1237-1238).             *)
THEOREM ScreenFollows == TouchSpec => [](TouchTypeOK /\ TargetFollowsPin /\ ScreenTrue)
<1>1. TouchSpec => []TouchInv
    BY TouchStarts, TouchStep, PTL DEF TouchSpec
<1> QED BY <1>1, TouchInvImplies, PTL

-----------------------------------------------------------------------------
(***************************************************************************)
(* Together                                                                 *)
(***************************************************************************)
LEMMA PartsStart ==
    AppInit => /\ TouchInit /\ RateInit /\ ThemeInit /\ FilesInit
               /\ ApInit /\ MagInit /\ PortalInit /\ CalInit
BY DEF AppInit

LEMMA PartsStep ==
    [AppNext]_appVars =>
        /\ [TouchNext]_touchVars /\ [RateNextStep]_rateVars /\ [ThemeNext]_themeVars
        /\ [FilesNext]_filesVars /\ [ApNext]_apVars /\ [MagNext]_magVars
        /\ [PortalNext]_portalVars /\ [CalNext]_calVars
<1>1. CASE AppNext
    BY <1>1 DEF AppNext
<1>2. CASE UNCHANGED appVars
    BY <1>2 DEF appVars
<1> QED BY <1>1, <1>2

(* A behaviour of the application is one of each of its parts, and so every *)
(* part keeps what is proved of it alone.                                   *)
THEOREM PartsKeepTheirTypes == AppSpec => []AppTypeOK
<1>1. AppSpec => TouchSpec /\ RateSpec /\ ThemeSpec /\ FilesSpec
    BY PartsStart, PartsStep, PTL DEF AppSpec, TouchSpec, RateSpec, ThemeSpec, FilesSpec
<1>2. AppSpec => ApSpec /\ MagSpec /\ PortalSpec /\ CalSpec
    BY PartsStart, PartsStep, PTL DEF AppSpec, ApSpec, MagSpec, PortalSpec, CalSpec
<1>3. TouchTypeOK /\ RateTypeOK /\ ThemeTypeOK /\ FilesTypeOK
      /\ ApTypeOK /\ MagTypeOK /\ PortalTypeOK /\ CalTypeOK
         => AppTypeOK
    BY DEF AppTypeOK
<1>4. AppSpec => [](TouchTypeOK /\ RateTypeOK /\ ThemeTypeOK /\ FilesTypeOK)
    BY <1>1, ScreenFollows, RatesSettle, PaletteIsTrue, SavedFilesSurvive, PTL
<1>5. AppSpec => [](ApTypeOK /\ MagTypeOK /\ PortalTypeOK /\ CalTypeOK)
    BY <1>2, OnlyFixedPointsLocate, RowsReachTheCard, StoredCredentialsJoin,
       RejectedSweepsAreForgotten, PTL
<1> QED BY <1>3, <1>4, <1>5, PTL
=============================================================================
