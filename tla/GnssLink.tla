------------------------------ MODULE GnssLink ------------------------------
(***************************************************************************)
(* gnss.cpp: the task that reads the receiver's bytes, separating UBX       *)
(* frames from NMEA sentences, and the exchanges that capture frames:       *)
(* gnss_enable_aop from setup(), gnss_dbd_read from the database save that  *)
(* tab5_map.cpp starts on a task of its own.  gnss_dbd_write is the walk a  *)
(* later boot makes over what was captured.                                 *)
(*                                                                          *)
(* The reader and the save share a core, the reader with the higher         *)
(* priority (tab5_map.cpp:4112, 2923); setup() and loop() run on the other. *)
(* The line may lose bytes.  One number stands for the text of a sentence.  *)
(***************************************************************************)
EXTENDS Integers, Sequences, SequencesExt, FiniteSets

CONSTANTS
    FRAME,      \* sizeof frame, gnss.cpp:187
    CAP,        \* size of the caller's buffer
    MAX_ITEMS,  \* bound: frames and sentences the receiver sends
    MAX_LOST    \* bound: bytes lost on the line

ASSUME LinkAssumption ==
    /\ FRAME \in Nat /\ FRAME >= 9
    /\ CAP \in Nat /\ MAX_ITEMS \in Nat /\ MAX_LOST \in Nat

VARIABLES
    wire,      \* what the receiver has sent and the task has not yet read
    parser,    \* the statics of ubx_feed
    line,      \* the sentence being assembled
    fixes,     \* the reader's fix, the published one, and loop()'s copy
    stamps,    \* g_firstCoarseMs, g_firstFineMs, set or not; what was reported
    capture,   \* the capture of the exchange in progress
    delivery,  \* a finished frame, and the capture it goes to
    program,   \* where setup(), aopMaintain and aopSave are
    mishaps    \* items and lost bytes so far, and frames of no length

linkVars == <<wire, parser, line, fixes, stamps, capture, delivery, program, mishaps>>

-----------------------------------------------------------------------------
SYNC1 == 181
SYNC2 == 98
NL == 10
MGA == 19       \* UBX_CLS_MGA
DBD == 128      \* UBX_ID_DBD
MGA_ACK == 96   \* UBX_ID_MGA_ACK
CFG == 6        \* UBX_CLS_CFG
NAVX5 == 35     \* UBX_ID_NAVX5

(* Sentences that change the fix: RMC with status A and V, GSA with 1, 2, 3. *)
RMC_A == 201
RMC_V == 202
GSA(mode) == 210 + mode

UbxFrame(cls, id, payload) ==
    <<SYNC1, SYNC2, cls, id, Len(payload), 0>> \o payload \o <<1, 1>>

(* What the receiver sends: parts of the database, one of them too long for *)
(* the array, the frame that ends it, the answer to a settings poll, and    *)
(* sentences between them.                                                  *)
Items == {UbxFrame(MGA, DBD, <<0>>), UbxFrame(MGA, DBD, <<0, 0, 0>>),
          UbxFrame(MGA, MGA_ACK, <<1>>), UbxFrame(CFG, NAVX5, <<0, 0>>),
          <<RMC_A, NL>>, <<RMC_V, NL>>, <<GSA(1), NL>>, <<GSA(3), NL>>}

NoCapture == [owner |-> "none", buf |-> <<>>, done |-> FALSE]
NoDelivery == [to |-> "none", frame |-> <<>>]
StartState == [st |-> 0, len |-> 0, got |-> 0, frame |-> <<>>]

(* Where gnss_dbd_write goes on after the first p bytes of a buffer: over a  *)
(* whole frame, and no further than what does not start like one or is cut  *)
(* short.                                                                   *)
FrameEnd(buf, p) == p + 8 + buf[p + 5] + 256 * buf[p + 6]

FrameAt(buf, p) ==
    /\ p + 8 =< Len(buf)
    /\ buf[p + 1] = SYNC1 /\ buf[p + 2] = SYNC2
    /\ FrameEnd(buf, p) =< Len(buf)

(* How far it has come after n frames, and the bytes it sends.              *)
Offsets(buf) ==
    LET off[n \in 0 .. Len(buf)] ==
            IF n = 0 THEN 0
            ELSE LET p == off[n - 1] IN IF FrameAt(buf, p) THEN FrameEnd(buf, p) ELSE p
    IN  off
WalkedBytes(buf) == Offsets(buf)[Len(buf)]

(* What each exchange captures, and the frame that ends it. *)
Wanted(owner, frame) ==
    SubSeq(frame, 3, 4) = IF owner = "save" THEN <<MGA, DBD>> ELSE <<CFG, NAVX5>>

Ends(owner, frame) == owner = "save" /\ SubSeq(frame, 3, 4) = <<MGA, MGA_ACK>>

(* parseSentence: without an end of line two sentences are read as the      *)
(* first; the mode only rises, or falls to 1.                               *)
Parsed(fix, s) ==
    IF s = <<>> THEN fix
    ELSE CASE Head(s) = RMC_A -> [fix EXCEPT !.status = "A"]
           [] Head(s) = RMC_V -> [fix EXCEPT !.status = "V"]
           [] \E m \in 1 .. 3 : Head(s) = GSA(m) /\ (m > fix.mode \/ m = 1) ->
                  [fix EXCEPT !.mode = Head(s) - GSA(0)]
           [] OTHER -> fix

Coarse(fix) == fix.status = "A"
Fine(fix) == fix.status = "A" /\ fix.mode = 3

-----------------------------------------------------------------------------
LinkInit ==
    LET nofix == [status |-> "V", mode |-> 1]
    IN  /\ wire = <<>>
        /\ parser = StartState
        /\ line = <<>>
        /\ fixes = [local |-> nofix, published |-> nofix, loop |-> nofix, due |-> FALSE]
        /\ stamps = [coarse |-> FALSE, fine |-> FALSE, reported |-> {}]
        /\ capture = NoCapture
        /\ delivery = NoDelivery
        /\ program = "boot"
        /\ mishaps = [items |-> 0, lost |-> 0, empty |-> FALSE]

(* The receiver sends a frame or a sentence. *)
Send(item) ==
    /\ wire = <<>> /\ mishaps.items < MAX_ITEMS
    /\ wire' = item
    /\ mishaps' = [mishaps EXCEPT !.items = @ + 1]
    /\ UNCHANGED <<parser, line, fixes, stamps, capture, delivery, program>>

(* The FIFO overflows. *)
LoseByte ==
    /\ wire # <<>> /\ mishaps.lost < MAX_LOST
    /\ wire' = Tail(wire)
    /\ mishaps' = [mishaps EXCEPT !.lost = @ + 1]
    /\ UNCHANGED <<parser, line, fixes, stamps, capture, delivery, program>>

-----------------------------------------------------------------------------
(* Mutant: the array is to hold the payload, and not the rest of a frame. *)
TooLongForPayload(len) == len > FRAME

(* A length too large for the array is not believed. *)
TooLong(len) == len > FRAME - 8

(* Mutant: one byte too many is taken for payload. *)
LastOfPayloadLate(got, len) == got > len

(* Of a payload of no length a byte is taken all the same. *)
LastOfPayload(got, len) == got >= len

Taken(c, st) == [parser EXCEPT !.st = st, !.frame = Append(@, c)]

(* ubx_feed, up to the end of a frame: what the parser makes of a byte.     *)
(* The checksum is not looked at.                                           *)
Feed(c) ==
    CASE parser.st = 0 -> IF c = SYNC1 THEN [StartState EXCEPT !.st = 1] ELSE StartState
      [] parser.st = 1 -> IF c = SYNC2
                          THEN [StartState EXCEPT !.st = 2, !.frame = <<SYNC1, SYNC2>>]
                          ELSE StartState
      [] parser.st = 4 -> [Taken(c, 5) EXCEPT !.len = c]
      [] parser.st = 5 -> IF TooLong(parser.len + 256 * c) THEN StartState
                          ELSE [Taken(c, 6) EXCEPT !.len = @ + 256 * c]
      [] parser.st = 6 -> [Taken(c, IF LastOfPayload(parser.got + 1, parser.len)
                                    THEN 7 ELSE 6) EXCEPT !.got = @ + 1]
      [] OTHER -> Taken(c, parser.st + 1)

(* It hands back the bytes of sentences; of a false start only the second.  *)
HandedBack(c) == (parser.st = 0 /\ c # SYNC1) \/ (parser.st = 1 /\ c # SYNC2)

Stamped(fix) == [stamps EXCEPT !.coarse = @ \/ Coarse(fix), !.fine = @ \/ Fine(fix)]

(* gnss_task reads a byte of a sentence; at its end the fix is stamped, and *)
(* then published.                                                          *)
ReadText ==
    /\ wire # <<>> /\ ~fixes.due /\ delivery = NoDelivery
    /\ HandedBack(Head(wire))
    /\ wire' = Tail(wire)
    /\ parser' = Feed(Head(wire))
    /\ IF Head(wire) = NL
       THEN /\ fixes' = [fixes EXCEPT !.local = Parsed(@, line), !.due = TRUE]
            /\ stamps' = Stamped(fixes'.local)
            /\ line' = <<>>
       ELSE /\ line' = Append(line, Head(wire))
            /\ UNCHANGED <<fixes, stamps>>
    /\ UNCHANGED <<capture, delivery, program, mishaps>>

Publish ==
    /\ fixes.due
    /\ fixes' = [fixes EXCEPT !.published = fixes.local, !.due = FALSE]
    /\ UNCHANGED <<wire, parser, line, stamps, capture, delivery, program, mishaps>>

(* It reads a byte of a frame.  At the end of one g_cap is loaded: whose    *)
(* capture the frame goes to.                                               *)
ReadFrame ==
    LET fed == Feed(Head(wire))
    IN  /\ wire # <<>> /\ ~fixes.due /\ delivery = NoDelivery
        /\ ~HandedBack(Head(wire))
        /\ wire' = Tail(wire)
        /\ IF fed.st = 9
           THEN /\ parser' = StartState
                /\ delivery' = IF capture.owner = "none" \/ capture.done THEN NoDelivery
                               ELSE [to |-> capture.owner, frame |-> fed.frame]
                /\ mishaps' = [mishaps EXCEPT !.empty = @ \/ fed.len = 0]
           ELSE parser' = fed /\ UNCHANGED <<delivery, mishaps>>
        /\ UNCHANGED <<line, fixes, stamps, capture, program>>

(* The frame ends the capture, or is appended if it is wanted and fits.     *)
(* Through the pointer of an exchange that is over nothing is known to      *)
(* happen.                                                                  *)
Deliver ==
    LET fits == Len(capture.buf) + Len(delivery.frame) =< CAP
    IN  /\ delivery # NoDelivery
        /\ delivery' = NoDelivery
        /\ capture' = IF capture.owner # delivery.to THEN capture
                      ELSE IF Ends(delivery.to, delivery.frame) THEN [capture EXCEPT !.done = TRUE]
                      ELSE IF Wanted(delivery.to, delivery.frame) /\ fits
                           THEN [capture EXCEPT !.buf = @ \o delivery.frame]
                      ELSE capture
        /\ UNCHANGED <<wire, parser, line, fixes, stamps, program, mishaps>>

-----------------------------------------------------------------------------
(* ubx_exchange up to its wait, from gnss_enable_aop and gnss_dbd_read. *)
BeginExchange ==
    /\ program \in {"boot", "saving"} /\ capture.owner = "none"
    /\ capture' = [NoCapture EXCEPT !.owner = IF program = "boot" THEN "setup" ELSE "save"]
    /\ UNCHANGED <<wire, parser, line, fixes, stamps, delivery, program, mishaps>>

(* Mutant: the save runs on the core of loop(). *)
MayRunOnEitherCore(owner) == TRUE

(* The save cannot run while the reader, on its core, is at work. *)
MayRun(owner) == owner = "save" => delivery = NoDelivery /\ ~fixes.due

(* The frame that ends it has come, it has been quiet for a while, or the   *)
(* time is up: the capture goes out of scope with the caller's stack.       *)
EndExchange ==
    /\ capture.owner # "none" /\ MayRun(capture.owner)
    /\ capture' = NoCapture
    /\ program' = "loop"
    /\ UNCHANGED <<wire, parser, line, fixes, stamps, delivery, mishaps>>

(* A pass of loop(): the fix is copied, ttffReport reports what it is the   *)
(* first to meet, and aopMaintain may start a save.                         *)
LoopPass ==
    LET fix == fixes.published
        coarse == stamps.reported \cup {r \in {"coarse"} : Coarse(fix)}
    IN  /\ program \in {"loop", "saving"}
        /\ fixes' = [fixes EXCEPT !.loop = fix]
        /\ stamps' = [stamps EXCEPT !.reported =
                          coarse \cup {r \in {"fine"} : "coarse" \in coarse /\ Fine(fix)}]
        /\ program' \in IF Fine(fix) THEN {program, "saving"} ELSE {program}
        /\ UNCHANGED <<wire, parser, line, capture, delivery, mishaps>>

LinkNext ==
    \/ \E item \in Items : Send(item)
    \/ LoseByte
    \/ ReadText \/ Publish \/ ReadFrame \/ Deliver
    \/ BeginExchange \/ EndExchange \/ LoopPass

LinkSpec == LinkInit /\ [][LinkNext]_linkVars

-----------------------------------------------------------------------------
(* The shapes of the variables; neither the parser's array nor a caller's   *)
(* buffer is written past its end, whatever bytes arrive (gnss.cpp:187-220). *)
LinkTypeOK ==
    /\ parser.st \in 0 .. 8 /\ Len(parser.frame) < FRAME
    /\ capture.owner \in {"none", "setup", "save"} /\ Len(capture.buf) =< CAP
    /\ Len(delivery.frame) =< FRAME /\ delivery.to \in {"none", "setup", "save"}
    /\ program \in {"boot", "loop", "saving"}
    /\ stamps.reported \subseteq {"coarse", "fine"}

(* The reader never writes through the pointer of a database read that is   *)
(* over: its capture is on the stack of a task that has gone on             *)
(* (gnss.cpp:212-221, 321).                                                 *)
CaptureHeld == delivery.to = "save" => capture.owner = "save"

(* "The bytes are complete UBX frames" (gnss.h:95-96): what has been read *)
(* out can be written back to its last byte, also after bytes were lost,    *)
(* unless a frame lost its length.                                          *)
CaptureWalks == ~mishaps.empty => WalkedBytes(capture.buf) = Len(capture.buf)
=============================================================================
