--------------------------- MODULE Position_proofs ---------------------------
(***************************************************************************)
(* What holds of the parts MC_Position puts together, for every value of    *)
(* their constants: each part is proved correct under its own               *)
(* specification, and a behaviour of them all is one of each.               *)
(***************************************************************************)
EXTENDS MC_Position, FiniteSetTheorems, SequenceTheorems, TLAPS

-----------------------------------------------------------------------------
(***************************************************************************)
(* GnssLink                                                                 *)
(***************************************************************************)
Bytes == Seq(Nat)
Parsers == [st : 0 .. 9, len : Nat, got : Nat, frame : Bytes]
Owners == {"none", "setup", "save"}
Captures == [owner : Owners, buf : Bytes, done : BOOLEAN]
Deliveries == [to : Owners, frame : Bytes]

(* How long the frame is at each step of the parser: what it has so far of  *)
(* a frame that is believed to fit.                                         *)
FrameFits(p) ==
    /\ p.st =< 1 => Len(p.frame) = 0
    /\ p.st \in 2 .. 6 => Len(p.frame) = p.st + p.got
    /\ p.st \in 2 .. 5 => p.got = 0
    /\ p.st \in 7 .. 9 => Len(p.frame) =< FRAME + p.st - 9
    /\ p.st = 6 => p.len =< FRAME - 8 /\ (p.got = 0 \/ p.got < p.len)

ParserSound(p) == p \in Parsers /\ FrameFits(p)

LEMMA BytesAppend ==
    ASSUME NEW b \in Bytes, NEW c \in Nat
    PROVE  Append(b, c) \in Bytes /\ Len(Append(b, c)) = Len(b) + 1 /\ Len(b) \in Nat
BY AppendProperties, LenProperties DEF Bytes

LEMMA BytesTail ==
    ASSUME NEW b \in Bytes, b # <<>>
    PROVE  Tail(b) \in Bytes /\ Head(b) \in Nat
BY HeadTailProperties DEF Bytes

LEMMA BytesConcat ==
    ASSUME NEW a \in Bytes, NEW b \in Bytes
    PROVE  a \o b \in Bytes /\ Len(a \o b) = Len(a) + Len(b)
BY ConcatProperties DEF Bytes

LEMMA ParserFields ==
    ASSUME NEW p \in Parsers
    PROVE  p.st \in 0 .. 9 /\ p.len \in Nat /\ p.got \in Nat /\ p.frame \in Bytes /\ Len(p.frame) \in Nat
BY LenProperties DEF Parsers, Bytes

(* A parser put together from its parts. *)
Fits(st, len, got, frame) ==
    /\ st =< 1 => Len(frame) = 0
    /\ st \in 2 .. 6 => Len(frame) = st + got
    /\ st \in 2 .. 5 => got = 0
    /\ st \in 7 .. 9 => Len(frame) =< FRAME + st - 9
    /\ st = 6 => len =< FRAME - 8 /\ (got = 0 \/ got < len)

Made(st, len, got, frame) == [st |-> st, len |-> len, got |-> got, frame |-> frame]

LEMMA MadeSound ==
    ASSUME NEW st \in 0 .. 9, NEW len \in Nat, NEW got \in Nat, NEW frame \in Bytes,
           Fits(st, len, got, frame)
    PROVE  ParserSound(Made(st, len, got, frame))
<1>1. Made(st, len, got, frame) \in Parsers
    BY DEF Made, Parsers
<1> QED BY <1>1 DEF Made, ParserSound, FrameFits, Fits

LEMMA PartsOf ==
    ASSUME NEW p \in Parsers
    PROVE  /\ p = Made(p.st, p.len, p.got, p.frame)
           /\ FrameFits(p) <=> Fits(p.st, p.len, p.got, p.frame)
BY DEF Parsers, Made, FrameFits, Fits

LEMMA MadeExcept ==
    ASSUME NEW st, NEW len, NEW got, NEW frame, NEW x, NEW p, p = Made(st, len, got, frame)
    PROVE  /\ [p EXCEPT !.st = x] = Made(x, len, got, frame)
           /\ [p EXCEPT !.len = x] = Made(st, x, got, frame)
           /\ [p EXCEPT !.got = x] = Made(st, len, x, frame)
           /\ [p EXCEPT !.frame = x] = Made(st, len, got, x)
<1>1. [p EXCEPT !.st = x] = Made(x, len, got, frame)
    BY DEF Made
<1>2. [p EXCEPT !.len = x] = Made(st, x, got, frame)
    BY DEF Made
<1>3. [p EXCEPT !.got = x] = Made(st, len, x, frame)
    BY DEF Made
<1>4. [p EXCEPT !.frame = x] = Made(st, len, got, x)
    BY DEF Made
<1> QED BY <1>1, <1>2, <1>3, <1>4

LEMMA MadeFields ==
    ASSUME NEW st, NEW len, NEW got, NEW frame, NEW p, p = Made(st, len, got, frame)
    PROVE  p.st = st /\ p.len = len /\ p.got = got /\ p.frame = frame
BY DEF Made

LEMMA TakenIs ==
    ASSUME NEW c, NEW st, parser \in Parsers
    PROVE  Taken(c, st) = Made(st, parser.len, parser.got, Append(parser.frame, c))
<1> DEFINE b == Append(parser.frame, c)
           q == [parser EXCEPT !.st = st]
           len == parser.len
           got == parser.got
           frame == parser.frame
<1>1. parser = Made(parser.st, len, got, frame)
    BY PartsOf
<1>2. Taken(c, st) = [q EXCEPT !.frame = b]
    BY <1>1 DEF Taken, Made
<1> HIDE DEF b, len, got, frame
<1>3. q = Made(st, len, got, frame)
    BY <1>1 DEF Made
<1> HIDE DEF q
<1>4. [q EXCEPT !.frame = b] = Made(st, len, got, b)
    BY <1>3 DEF Made
<1> QED BY <1>2, <1>4 DEF b, len, got

LEMMA StartSound == ParserSound(StartState)
<1>1. <<>> \in Bytes /\ Len(<<>>) = 0
    BY EmptySeq DEF Bytes
<1> QED BY <1>1 DEF ParserSound, StartState, Parsers, FrameFits

(* What each step of the parser makes of a byte. *)
LEMMA FeedIs ==
    ASSUME NEW c \in Nat, parser \in Parsers
    PROVE  /\ parser.st = 0 => Feed(c) = IF c = SYNC1 THEN Made(1, 0, 0, <<>>) ELSE StartState
           /\ parser.st = 1 => Feed(c) = IF c = SYNC2 THEN Made(2, 0, 0, <<SYNC1, SYNC2>>) ELSE StartState
           /\ parser.st \in {2, 3, 7, 8} =>
                Feed(c) = Made(parser.st + 1, parser.len, parser.got, Append(parser.frame, c))
           /\ parser.st = 4 => Feed(c) = Made(5, c, parser.got, Append(parser.frame, c))
           /\ parser.st = 5 =>
                Feed(c) = IF TooLong(parser.len + 256 * c) THEN StartState
                          ELSE Made(6, parser.len + 256 * c, parser.got, Append(parser.frame, c))
           /\ parser.st = 6 =>
                Feed(c) = Made(IF LastOfPayload(parser.got + 1, parser.len) THEN 7 ELSE 6,
                               parser.len, parser.got + 1, Append(parser.frame, c))
<1> DEFINE b == Append(parser.frame, c)
<1>1. parser.st = 0 => Feed(c) = IF c = SYNC1 THEN Made(1, 0, 0, <<>>) ELSE StartState
    BY DEF Feed, StartState, Made
<1>2. ASSUME parser.st = 1 PROVE Feed(c) = IF c = SYNC2 THEN Made(2, 0, 0, <<SYNC1, SYNC2>>) ELSE StartState
  <2> DEFINE q == [StartState EXCEPT !.st = 2]
             b2 == <<SYNC1, SYNC2>>
  <2>1. Feed(c) = IF c = SYNC2 THEN [q EXCEPT !.frame = b2] ELSE StartState
    BY <1>2 DEF Feed, StartState
  <2>2. q = Made(2, 0, 0, <<>>)
    BY DEF StartState, Made
  <2> HIDE DEF q, b2
  <2>3. [q EXCEPT !.frame = b2] = Made(2, 0, 0, b2)
    BY <2>2 DEF Made
  <2> QED BY <2>1, <2>3 DEF b2
<1>3. ASSUME parser.st \in {2, 3, 7, 8} PROVE Feed(c) = Made(parser.st + 1, parser.len, parser.got, b)
    BY <1>3, TakenIs DEF Feed
<1>4. ASSUME parser.st = 4 PROVE Feed(c) = Made(5, c, parser.got, b)
  <2> DEFINE p == Taken(c, 5)
  <2>1. Feed(c) = [p EXCEPT !.len = c]
    BY <1>4 DEF Feed
  <2>2. p = Made(5, parser.len, parser.got, b)
    BY TakenIs
  <2> HIDE DEF p, b
  <2>3. [p EXCEPT !.len = c] = Made(5, c, parser.got, b)
    BY <2>2 DEF Made
  <2> QED BY <2>1, <2>3
<1>5. ASSUME parser.st = 5
      PROVE  Feed(c) = IF TooLong(parser.len + 256 * c) THEN StartState
                       ELSE Made(6, parser.len + 256 * c, parser.got, b)
  <2> DEFINE p == Taken(c, 6)
  <2>1. Feed(c) = IF TooLong(parser.len + 256 * c) THEN StartState ELSE [p EXCEPT !.len = p.len + 256 * c]
    BY <1>5 DEF Feed
  <2>2. p = Made(6, parser.len, parser.got, b)
    BY TakenIs
  <2> HIDE DEF p, b
  <2>3. p.len = parser.len
    BY <2>2, MadeFields
  <2> QED BY <2>1, <2>2, <2>3, MadeExcept
<1>6. ASSUME parser.st = 6
      PROVE  Feed(c) = Made(IF LastOfPayload(parser.got + 1, parser.len) THEN 7 ELSE 6,
                            parser.len, parser.got + 1, b)
  <2> DEFINE st == IF LastOfPayload(parser.got + 1, parser.len) THEN 7 ELSE 6
             p == Taken(c, st)
  <2>1. Feed(c) = [p EXCEPT !.got = p.got + 1]
    BY <1>6 DEF Feed
  <2>2. p = Made(st, parser.len, parser.got, b)
    BY TakenIs
  <2> HIDE DEF p, st, b
  <2>3. p.got = parser.got
    BY <2>2, MadeFields
  <2>4. [p EXCEPT !.got = p.got + 1] = Made(st, parser.len, p.got + 1, b)
    BY <2>2 DEF Made
  <2> QED BY <2>1, <2>3, <2>4 DEF st
<1> QED BY <1>1, <1>2, <1>3, <1>4, <1>5, <1>6

(* The array is never written past its end: a byte is taken only where      *)
(* there is room for it.                                                    *)
LEMMA FedSound ==
    ASSUME NEW c \in Nat, ParserSound(parser), parser.st =< 8
    PROVE  ParserSound(Feed(c))
<1>1. /\ parser \in Parsers /\ parser.st \in 0 .. 9 /\ parser.len \in Nat /\ parser.got \in Nat
      /\ parser.frame \in Bytes /\ Fits(parser.st, parser.len, parser.got, parser.frame) /\ FRAME \in Nat /\ FRAME >= 9
    BY ParserFields, PartsOf, LinkAssumption DEF ParserSound
<1> DEFINE b == Append(parser.frame, c)
<1>2. b \in Bytes /\ Len(b) = Len(parser.frame) + 1 /\ Len(parser.frame) \in Nat
    BY <1>1, BytesAppend
<1> HIDE DEF b
<1>3. CASE parser.st \in {0, 1}
  <2>1. ParserSound(Made(1, 0, 0, <<>>))
    <3>1. <<>> \in Bytes /\ Len(<<>>) = 0
      BY EmptySeq DEF Bytes
    <3> QED BY <3>1, MadeSound DEF Fits
  <2>2. ParserSound(Made(2, 0, 0, <<SYNC1, SYNC2>>))
    <3>1. <<SYNC1, SYNC2>> \in Bytes /\ Len(<<SYNC1, SYNC2>>) = 2
      BY DEF Bytes, SYNC1, SYNC2
    <3>2. Fits(2, 0, 0, <<SYNC1, SYNC2>>)
      BY <3>1 DEF Fits
    <3> QED BY <3>1, <3>2, MadeSound
  <2>3. Feed(c) \in {Made(1, 0, 0, <<>>), Made(2, 0, 0, <<SYNC1, SYNC2>>), StartState}
    BY <1>1, <1>3, FeedIs
  <2> QED BY <2>1, <2>2, <2>3, StartSound
<1>4. CASE parser.st \in {2, 3}
  <2>1. Feed(c) = Made(parser.st + 1, parser.len, parser.got, b)
    BY <1>1, <1>4, FeedIs DEF b
  <2>2. Len(b) = parser.st + 1 + parser.got /\ parser.got = 0
    BY <1>1, <1>2, <1>4 DEF Fits
  <2> QED BY <1>1, <1>2, <1>4, <2>1, <2>2, MadeSound DEF Fits
<1>5. CASE parser.st = 4
  <2>1. Feed(c) = Made(5, c, parser.got, b)
    BY <1>1, <1>5, FeedIs DEF b
  <2>2. Len(b) = 5 + parser.got /\ parser.got = 0
    BY <1>1, <1>2, <1>5 DEF Fits
  <2>3. Fits(5, c, parser.got, b)
    BY <1>1, <2>2 DEF Fits
  <2> QED BY <1>1, <1>2, <2>1, <2>3, MadeSound
<1>6. CASE parser.st = 5
  <2>1. CASE TooLong(parser.len + 256 * c)
    BY <1>1, <1>6, <2>1, StartSound, FeedIs
  <2>2. CASE ~TooLong(parser.len + 256 * c)
    <3>1. Feed(c) = Made(6, parser.len + 256 * c, parser.got, b)
      BY <1>1, <1>6, <2>2, FeedIs DEF b
    <3>2. /\ Len(b) = 6 + parser.got /\ parser.got = 0 /\ parser.len + 256 * c =< FRAME - 8
          /\ parser.len + 256 * c \in Nat
      BY <1>1, <1>2, <1>6, <2>2 DEF Fits, TooLong
    <3>3. Fits(6, parser.len + 256 * c, parser.got, b)
      BY <1>1, <3>2 DEF Fits
    <3> QED BY <1>1, <1>2, <3>1, <3>2, <3>3, MadeSound
  <2> QED BY <2>1, <2>2
<1>7. CASE parser.st = 6
  <2> DEFINE st == IF LastOfPayload(parser.got + 1, parser.len) THEN 7 ELSE 6
  <2>1. Feed(c) = Made(st, parser.len, parser.got + 1, b)
    BY <1>1, <1>7, FeedIs DEF b
  <2>2. /\ Len(b) = 7 + parser.got /\ parser.len =< FRAME - 8
        /\ parser.got = 0 \/ parser.got < parser.len
    BY <1>1, <1>2, <1>7 DEF Fits
  <2>3. CASE parser.got + 1 >= parser.len
    <3>1. st = 7
      BY <2>3 DEF LastOfPayload
    <3>2. Len(b) =< FRAME + 7 - 9
      BY <1>1, <2>2
    <3> QED BY <1>1, <1>2, <2>1, <3>1, <3>2, MadeSound DEF Fits
  <2>4. CASE parser.got + 1 < parser.len
    <3>1. st = 6
      BY <1>1, <2>4 DEF LastOfPayload
    <3>2. Len(b) = 6 + (parser.got + 1) /\ parser.got + 1 < parser.len
      BY <1>1, <2>2, <2>4
    <3> QED BY <1>1, <1>2, <2>1, <2>2, <3>1, <3>2, MadeSound DEF Fits
  <2> QED BY <1>1, <2>3, <2>4
<1>8. CASE parser.st \in {7, 8}
  <2>1. Feed(c) = Made(parser.st + 1, parser.len, parser.got, b)
    BY <1>1, <1>8, FeedIs DEF b
  <2>2. Len(b) =< FRAME + (parser.st + 1) - 9
    BY <1>1, <1>2, <1>8 DEF Fits
  <2>3. parser.st + 1 \in 0 .. 9 /\ Fits(parser.st + 1, parser.len, parser.got, b)
    BY <1>1, <1>2, <1>8, <2>2 DEF Fits
  <2> QED BY <1>1, <1>2, <2>1, <2>3, MadeSound
<1> QED BY <1>1, <1>3, <1>4, <1>5, <1>6, <1>7, <1>8

-----------------------------------------------------------------------------
LinkInv ==
    /\ wire \in Bytes
    /\ ParserSound(parser) /\ parser.st =< 8
    /\ capture \in Captures /\ Len(capture.buf) =< CAP
    /\ delivery \in Deliveries /\ Len(delivery.frame) =< FRAME
    /\ CaptureHeld
    /\ program \in {"boot", "loop", "saving"}
    /\ stamps.reported \subseteq {"coarse", "fine"} /\ DOMAIN stamps = {"coarse", "fine", "reported"}

LEMMA ItemsAreBytes == \A item \in Items : item \in Bytes
<1>1. ASSUME NEW cls \in Nat, NEW id \in Nat, NEW payload \in Bytes
      PROVE  UbxFrame(cls, id, payload) \in Bytes
  <2>1. Len(payload) \in Nat
    BY LenProperties DEF Bytes
  <2>2. <<SYNC1, SYNC2, cls, id, Len(payload), 0>> \in Bytes /\ <<1, 1>> \in Bytes
    BY <2>1 DEF Bytes, SYNC1, SYNC2
  <2> QED BY <2>2, BytesConcat DEF UbxFrame
<1>2. <<0>> \in Bytes /\ <<0, 0, 0>> \in Bytes /\ <<1>> \in Bytes /\ <<0, 0>> \in Bytes
    BY DEF Bytes
<1>3. /\ <<RMC_A, NL>> \in Bytes /\ <<RMC_V, NL>> \in Bytes
      /\ <<GSA(1), NL>> \in Bytes /\ <<GSA(3), NL>> \in Bytes
    BY DEF Bytes, RMC_A, RMC_V, NL, GSA
<1>4. MGA \in Nat /\ DBD \in Nat /\ MGA_ACK \in Nat /\ CFG \in Nat /\ NAVX5 \in Nat
    BY DEF MGA, DBD, MGA_ACK, CFG, NAVX5
<1> QED BY <1>1, <1>2, <1>3, <1>4 DEF Items

LEMMA LinkStep == LinkInv /\ [LinkNext]_linkVars => LinkInv'
<1> SUFFICES ASSUME LinkInv, [LinkNext]_linkVars PROVE LinkInv'
    OBVIOUS
<1> USE DEF LinkInv
<1>1. CASE UNCHANGED linkVars
    BY <1>1 DEF linkVars, CaptureHeld, ParserSound, FrameFits
<1>2. ASSUME NEW item \in Items, Send(item)
      PROVE  LinkInv'
    BY <1>2, ItemsAreBytes DEF Send, CaptureHeld, ParserSound, FrameFits
<1>3. CASE LoseByte
    BY <1>3, BytesTail DEF LoseByte, CaptureHeld, ParserSound, FrameFits
<1>4. CASE ReadText
  <2>1. /\ wire' \in Bytes /\ Head(wire) \in Nat
        /\ UNCHANGED <<capture, delivery, program, mishaps>>
    BY <1>4, BytesTail DEF ReadText
  <2>2. ParserSound(parser')
    BY <1>4, <2>1, FedSound DEF ReadText
  <2>3. parser' = StartState
    BY <1>4 DEF ReadText, HandedBack, Feed
  <2>4. parser'.st =< 8
    BY <2>3 DEF StartState
  <2>5. stamps'.reported = stamps.reported /\ DOMAIN stamps' = DOMAIN stamps
    BY <1>4 DEF ReadText, Stamped
  <2> QED BY <2>1, <2>2, <2>4, <2>5 DEF CaptureHeld
<1>5. CASE Publish
    BY <1>5 DEF Publish, CaptureHeld, ParserSound, FrameFits
<1>6. CASE ReadFrame
  <2> DEFINE fed == Feed(Head(wire))
  <2>1. /\ wire' \in Bytes /\ Head(wire) \in Nat
        /\ UNCHANGED <<line, fixes, stamps, capture, program>>
    BY <1>6, BytesTail DEF ReadFrame
  <2>2. ParserSound(fed)
    BY <2>1, FedSound
  <2>3. fed.st \in 0 .. 9 /\ fed.frame \in Bytes /\ (fed.st = 9 => Len(fed.frame) =< FRAME)
    BY <2>2, ParserFields, LinkAssumption DEF ParserSound, FrameFits
  <2>4. /\ IF fed.st = 9
           THEN /\ parser' = StartState
                /\ delivery' = IF capture.owner = "none" \/ capture.done THEN NoDelivery
                               ELSE [to |-> capture.owner, frame |-> fed.frame]
           ELSE parser' = fed /\ UNCHANGED delivery
    BY <1>6 DEF ReadFrame
  <2> HIDE DEF fed
  <2>5. ParserSound(parser') /\ parser'.st =< 8
    BY <2>2, <2>3, <2>4, StartSound DEF StartState
  <2>6. CASE delivery' = NoDelivery \/ delivery' = delivery
    <3>1. NoDelivery \in Deliveries /\ Len(NoDelivery.frame) =< FRAME /\ NoDelivery.to # "save"
      BY EmptySeq, LinkAssumption DEF NoDelivery, Deliveries, Owners, Bytes
    <3> QED BY <2>1, <2>5, <2>6, <3>1 DEF CaptureHeld
  <2>7. CASE fed.st = 9 /\ delivery' = [to |-> capture.owner, frame |-> fed.frame]
    <3>1. /\ delivery' \in Deliveries /\ delivery'.to = capture.owner
          /\ Len(delivery'.frame) =< FRAME
      BY <2>3, <2>7 DEF Deliveries, Captures
    <3> QED BY <2>1, <2>5, <3>1 DEF CaptureHeld
  <2> QED BY <2>4, <2>6, <2>7
<1>7. CASE Deliver
  <2>1. NoDelivery \in Deliveries /\ Len(NoDelivery.frame) =< FRAME /\ NoDelivery.to # "save"
    BY EmptySeq, LinkAssumption DEF NoDelivery, Deliveries, Owners, Bytes
  <2>2. /\ delivery' = NoDelivery
        /\ UNCHANGED <<wire, parser, line, fixes, stamps, program, mishaps>>
    BY <1>7 DEF Deliver
  <2>3. \/ capture' = capture
        \/ capture' = [capture EXCEPT !.done = TRUE]
        \/ /\ Len(capture.buf) + Len(delivery.frame) =< CAP
           /\ capture' = [capture EXCEPT !.buf = capture.buf \o delivery.frame]
    <3> DEFINE fits == Len(capture.buf) + Len(delivery.frame) =< CAP
               ends == Ends(delivery.to, delivery.frame)
               wanted == Wanted(delivery.to, delivery.frame)
    <3>1. capture' = IF capture.owner # delivery.to THEN capture
                     ELSE IF ends THEN [capture EXCEPT !.done = TRUE]
                     ELSE IF wanted /\ fits
                          THEN [capture EXCEPT !.buf = capture.buf \o delivery.frame]
                     ELSE capture
      BY <1>7 DEF Deliver
    <3> HIDE DEF fits, ends, wanted
    <3>2. \/ capture' = capture
          \/ capture' = [capture EXCEPT !.done = TRUE]
          \/ fits /\ capture' = [capture EXCEPT !.buf = capture.buf \o delivery.frame]
      BY <3>1
    <3> QED BY <3>2 DEF fits
  <2>4. capture.buf \in Bytes /\ delivery.frame \in Bytes
    BY DEF Captures, Deliveries
  <2>5. /\ capture.buf \o delivery.frame \in Bytes
        /\ Len(capture.buf \o delivery.frame) = Len(capture.buf) + Len(delivery.frame)
    BY <2>4, BytesConcat
  <2>6. capture' \in Captures /\ Len(capture'.buf) =< CAP
    BY <2>3, <2>5 DEF Captures
  <2> QED BY <2>1, <2>2, <2>6 DEF CaptureHeld
<1>8. CASE BeginExchange
  <2>1. /\ capture' = [NoCapture EXCEPT !.owner = IF program = "boot" THEN "setup" ELSE "save"]
        /\ UNCHANGED <<wire, parser, line, fixes, stamps, delivery, program, mishaps>>
        /\ capture.owner = "none"
    BY <1>8 DEF BeginExchange
  <2>2. capture' = [owner |-> IF program = "boot" THEN "setup" ELSE "save",
                    buf |-> <<>>, done |-> FALSE]
    BY <2>1 DEF NoCapture
  <2>3. capture' \in Captures /\ Len(capture'.buf) =< CAP
    BY <2>2, EmptySeq, LinkAssumption DEF Captures, Owners, Bytes
  <2> QED BY <2>1, <2>3 DEF CaptureHeld
<1>9. CASE EndExchange
  <2>1. capture' = NoCapture /\ program' = "loop"
    BY <1>9 DEF EndExchange
  <2>2. UNCHANGED <<wire, parser, line, fixes, stamps, delivery, mishaps>>
    BY <1>9 DEF EndExchange
  <2>3. capture' \in Captures /\ Len(capture'.buf) =< CAP
    BY <2>1, EmptySeq, LinkAssumption DEF NoCapture, Captures, Owners, Bytes
  <2>4. delivery.to # "save"
    BY <1>9 DEF EndExchange, MayRun, CaptureHeld, NoDelivery
  <2> QED BY <2>1, <2>2, <2>3, <2>4 DEF CaptureHeld
<1>10. CASE LoopPass
  <2>1. /\ UNCHANGED <<wire, parser, line, capture, delivery, mishaps>>
        /\ program' \in {"boot", "loop", "saving"}
    BY <1>10 DEF LoopPass
  <2>2. stamps'.reported \subseteq {"coarse", "fine"} /\ DOMAIN stamps' = DOMAIN stamps
    BY <1>10 DEF LoopPass
  <2> QED BY <2>1, <2>2 DEF CaptureHeld
<1> QED
    BY <1>1, <1>2, <1>3, <1>4, <1>5, <1>6, <1>7, <1>8, <1>9, <1>10 DEF LinkNext

LEMMA LinkStarts == ASSUME LinkInit PROVE LinkInv
<1>1. <<>> \in Bytes /\ Len(<<>>) = 0
    BY EmptySeq DEF Bytes
<1> QED
    BY <1>1, StartSound, LinkAssumption DEF LinkInit, LinkInv, StartState, NoCapture, NoDelivery,
       Captures, Deliveries, Owners, CaptureHeld

(* Whatever bytes arrive, whatever is lost on the way and however the       *)
(* exchanges and the reader interleave: no array is written past its end,   *)
(* and nothing goes through the pointer of a database read that is over     *)
(* (gnss.cpp:187-221, 321).                                                 *)
THEOREM CapturesStayInside == LinkSpec => [](LinkTypeOK /\ CaptureHeld)
<1>1. LinkInit => LinkInv
    BY LinkStarts
<1>2. LinkInv => LinkTypeOK /\ CaptureHeld
  <2> SUFFICES ASSUME LinkInv PROVE LinkTypeOK
      BY DEF LinkInv
  <2>1. /\ parser.st \in 0 .. 8 /\ Len(parser.frame) \in Nat
    BY ParserFields DEF LinkInv, ParserSound
  <2>2. Len(parser.frame) < FRAME
    <3>1. /\ parser.len \in Nat /\ parser.got \in Nat /\ parser.st \in 0 .. 8
          /\ FrameFits(parser) /\ FRAME \in Nat /\ FRAME >= 9
      BY <2>1, ParserFields, LinkAssumption DEF LinkInv, ParserSound
    <3>2. CASE parser.st \in 0 .. 1
      BY <2>1, <3>1, <3>2 DEF FrameFits
    <3>3. CASE parser.st \in 2 .. 5
      BY <2>1, <3>1, <3>3 DEF FrameFits
    <3>4. CASE parser.st = 6
      BY <2>1, <3>1, <3>4 DEF FrameFits
    <3>5. CASE parser.st \in 7 .. 8
      BY <2>1, <3>1, <3>5 DEF FrameFits
    <3> QED BY <3>1, <3>2, <3>3, <3>4, <3>5
  <2> QED BY <2>1, <2>2 DEF LinkInv, LinkTypeOK, Captures, Deliveries, Owners
<1> QED BY <1>1, <1>2, LinkStep, PTL DEF LinkSpec

-----------------------------------------------------------------------------
(* A set of numbers that has 0 and with each number its successor has them  *)
(* all: otherwise taking the successor would be an injection of a finite    *)
(* set into a smaller one.                                                  *)
LEMMA CountingUp ==
    ASSUME NEW N \in Nat, NEW S \in SUBSET (0 .. N), 0 \in S, \A n \in S : n < N => n + 1 \in S
    PROVE  N \in S
<1> SUFFICES ASSUME N \notin S PROVE FALSE
    OBVIOUS
<1> DEFINE T == S \ {0}
           f == [n \in S |-> n + 1]
<1>1. IsFiniteSet(S)
  <2>1. IsFiniteSet(0 .. N)
    BY FS_Interval
  <2> QED BY <2>1, FS_Subset
<1>2. Cardinality(T) = Cardinality(S) - 1 /\ Cardinality(S) \in Nat /\ IsFiniteSet(T)
    BY <1>1, FS_RemoveElement, FS_CardinalityType
<1>3. \A n \in S : n \in Int /\ n < N /\ n >= 0
    OBVIOUS
<1>4. f \in [S -> T]
    BY <1>3
<1>5. \A m, n \in S : f[m] = f[n] => m = n
    BY <1>3
<1>6. PICK m, n \in S : m # n /\ f[m] = f[n]
  <2>1. Cardinality(T) < Cardinality(S)
    BY <1>2
  <2> HIDE DEF f, T
  <2> QED BY <1>1, <1>2, <1>4, <2>1, FS_PigeonHole
<1> QED BY <1>5, <1>6

(* The function gnss_dbd_write's walk is defined by exists, and so is what  *)
(* it says.                                                                 *)
Onto(buf, p) == IF FrameAt(buf, p) THEN FrameEnd(buf, p) ELSE p

LEMMA OffsetsDef ==
    ASSUME NEW buf \in Bytes
    PROVE  /\ 0 \in 0 .. Len(buf) /\ Offsets(buf)[0] = 0
           /\ \A n \in 1 .. Len(buf) : Offsets(buf)[n] = Onto(buf, Offsets(buf)[n - 1])
<1> DEFINE N == Len(buf)
           F(r, k) == [n \in 0 .. k |-> IF n = 0 THEN 0 ELSE Onto(buf, r[n - 1])]
           S == {k \in 0 .. N : \E r : r = F(r, k)}
<1>n. N \in Nat
    BY LenProperties DEF Bytes
<1>1. 0 \in S
  <2> DEFINE r == [n \in 0 .. 0 |-> 0]
  <2>1. r = F(r, 0)
    OBVIOUS
  <2> HIDE DEF r, F
  <2> QED BY <2>1, <1>n
<1>2. ASSUME NEW k \in S, k < N PROVE k + 1 \in S
  <2>0. k \in 0 .. N /\ k \in Nat /\ k + 1 \in 0 .. N
    BY <1>n, <1>2
  <2>1. PICK r : r = F(r, k)
    OBVIOUS
  <2> DEFINE q == [n \in 0 .. k + 1 |-> IF n = k + 1 THEN Onto(buf, r[k]) ELSE r[n]]
  <2>2. ASSUME NEW n \in 0 .. k + 1 PROVE q[n] = IF n = 0 THEN 0 ELSE Onto(buf, q[n - 1])
    <3>1. CASE n = k + 1
      <4>1. n - 1 = k /\ n # 0 /\ k \in 0 .. k + 1 /\ k # k + 1
        BY <2>0, <3>1
      <4> QED BY <3>1, <4>1
    <3>2. CASE n # k + 1
      <4>1. n \in 0 .. k /\ q[n] = r[n]
        BY <2>0, <3>2
      <4>2. r[n] = IF n = 0 THEN 0 ELSE Onto(buf, r[n - 1])
        BY <2>1, <4>1
      <4>3. n # 0 => n - 1 \in 0 .. k + 1 /\ n - 1 # k + 1
        BY <2>0, <4>1
      <4>4. n # 0 => q[n - 1] = r[n - 1]
        BY <4>3
      <4> QED BY <4>1, <4>2, <4>4
    <3> QED BY <3>1, <3>2
  <2>3. q = F(q, k + 1)
    BY <2>2
  <2> HIDE DEF q, F
  <2> QED BY <2>0, <2>3
<1>3. N \in S
  <2>1. S \in SUBSET (0 .. N)
    OBVIOUS
  <2> HIDE DEF S
  <2> QED BY <2>1, <1>1, <1>2, <1>n, CountingUp
<1>4. Offsets(buf) = CHOOSE r : r = F(r, N)
    BY DEF Offsets, Onto
<1>5. Offsets(buf) = F(Offsets(buf), N)
  <2> HIDE DEF F
  <2> QED BY <1>3, <1>4
<1>6. 0 \in 0 .. N /\ \A n \in 1 .. N : n \in 0 .. N /\ n # 0
    BY <1>n
<1> HIDE DEF N
<1>7. Offsets(buf)[0] = 0 /\ \A n \in 1 .. N : Offsets(buf)[n] = Onto(buf, Offsets(buf)[n - 1])
    BY <1>5, <1>6
<1> QED BY <1>6, <1>7 DEF N

(* A buffer of whole frames: there are places in it, with both ends among   *)
(* them, and from each but the last a frame leads to the next.              *)
FramedBy(buf, ends) ==
    /\ 0 \in ends /\ Len(buf) \in ends
    /\ \A p \in ends : p < Len(buf) => FrameAt(buf, p) /\ FrameEnd(buf, p) \in ends
Framed(buf) == \E ends \in SUBSET (0 .. Len(buf)) : FramedBy(buf, ends)

WholeFrame(f) ==
    /\ f \in Bytes /\ Len(f) >= 8
    /\ f[1] = SYNC1 /\ f[2] = SYNC2 /\ Len(f) = 8 + f[5] + 256 * f[6]

LEMMA ByteIs == ASSUME NEW b \in Bytes PROVE Len(b) \in Nat /\ \A i \in 1 .. Len(b) : b[i] \in Nat
BY LenProperties, ElementOfSeq DEF Bytes

LEMMA FramedNothing == Framed(<<>>)
<1>1. Len(<<>>) = 0
    BY EmptySeq
<1>2. FramedBy(<<>>, {0}) /\ {0} \in SUBSET (0 .. Len(<<>>))
    BY <1>1 DEF FramedBy
<1> QED BY <1>2 DEF Framed

(* The walk is over whole frames to the end.                                *)
LEMMA FramedWalks == ASSUME NEW buf \in Bytes, Framed(buf) PROVE WalkedBytes(buf) = Len(buf)
<1> DEFINE N == Len(buf)
           off == Offsets(buf)
<1>1. PICK ends \in SUBSET (0 .. N) : FramedBy(buf, ends)
    BY DEF Framed
<1>2. N \in Nat /\ \A i \in 1 .. N : buf[i] \in Nat
    BY ByteIs
<1>3. off[0] = 0 /\ \A n \in 1 .. N : off[n] = Onto(buf, off[n - 1])
    BY OffsetsDef
<1> HIDE DEF off
<1> DEFINE S == {n \in 0 .. N : off[n] \in ends /\ off[n] >= n}
<1>4. 0 \in S
    BY <1>1, <1>2, <1>3 DEF FramedBy
<1>5. ASSUME NEW n \in S, n < N PROVE n + 1 \in S
  <2> DEFINE p == off[n]
  <2>1. n \in Nat /\ n + 1 \in 0 .. N /\ n + 1 \in 1 .. N /\ p \in ends /\ p >= n /\ p \in 0 .. N
    <3>1. n \in 0 .. N /\ p \in ends /\ p >= n
      OBVIOUS
    <3>2. p \in 0 .. N
      BY <3>1
    <3> HIDE DEF p, N
    <3> QED BY <3>1, <3>2, <1>2, <1>5
  <2>2. off[n + 1] = Onto(buf, p)
    BY <1>3, <2>1
  <2> HIDE DEF p
  <2>3. CASE p < N
    <3>1. FrameAt(buf, p) /\ FrameEnd(buf, p) \in ends
      BY <1>1, <2>1, <2>3 DEF FramedBy
    <3>2. p \in Nat /\ p + 5 \in 1 .. N /\ p + 6 \in 1 .. N
      BY <1>2, <2>1, <3>1 DEF FrameAt
    <3>3. FrameEnd(buf, p) >= n + 1
      BY <1>2, <2>1, <3>2 DEF FrameEnd
    <3> QED BY <2>1, <2>2, <3>1, <3>3 DEF Onto
  <2>4. CASE p = N
    <3>1. ~FrameAt(buf, p)
      BY <1>2, <2>4 DEF FrameAt
    <3> QED BY <2>1, <2>2, <2>4, <3>1, <1>2 DEF Onto
  <2> QED BY <1>2, <2>1, <2>3, <2>4
<1>6. N \in S
  <2>1. S \in SUBSET (0 .. N)
    OBVIOUS
  <2> HIDE DEF S
  <2> QED BY <2>1, <1>2, <1>4, <1>5, CountingUp
<1>7. off[N] \in 0 .. N /\ off[N] >= N
    BY <1>6
<1> QED BY <1>2, <1>7 DEF WalkedBytes, off

(* A frame appended to whole frames.                                        *)
LEMMA FramedAppend ==
    ASSUME NEW buf \in Bytes, Framed(buf), NEW f, WholeFrame(f)
    PROVE  Framed(buf \o f)
<1> DEFINE g == buf \o f
           N == Len(buf)
           M == Len(f)
<1>1. /\ N \in Nat /\ M \in Nat /\ M >= 8 /\ Len(g) = N + M
      /\ \A i \in 1 .. N : g[i] = buf[i] /\ buf[i] \in Nat
      /\ \A i \in 1 .. M : g[N + i] = f[i] /\ f[i] \in Nat
  <2>1. f \in Bytes /\ M >= 8
    BY DEF WholeFrame
  <2>2. N \in Nat /\ M \in Nat /\ (\A i \in 1 .. N : buf[i] \in Nat) /\ \A i \in 1 .. M : f[i] \in Nat
    BY <2>1, ByteIs
  <2>3. /\ Len(g) = N + M
        /\ \A i \in 1 .. N + M : g[i] = IF i =< N THEN buf[i] ELSE f[i - N]
    BY <2>1, ConcatProperties DEF Bytes
  <2> HIDE DEF g, N, M
  <2>4. \A i \in 1 .. N : i \in 1 .. N + M /\ i =< N
    BY <2>2
  <2>5. \A i \in 1 .. M : N + i \in 1 .. N + M /\ ~(N + i =< N) /\ (N + i) - N = i
    BY <2>2
  <2> QED BY <2>1, <2>2, <2>3, <2>4, <2>5
<1>2. PICK ends \in SUBSET (0 .. N) : FramedBy(buf, ends)
    BY DEF Framed
<1>3. f[1] = SYNC1 /\ f[2] = SYNC2 /\ M = 8 + f[5] + 256 * f[6]
    BY DEF WholeFrame
<1> DEFINE more == ends \cup {N + M}
<1> HIDE DEF g, M
<1>4. ASSUME NEW p \in ends, p < N PROVE FrameAt(g, p) /\ FrameEnd(g, p) \in ends
  <2>1. FrameAt(buf, p) /\ FrameEnd(buf, p) \in ends
    BY <1>2, <1>4 DEF FramedBy
  <2>2. p \in Nat /\ p + 8 =< N /\ FrameEnd(buf, p) =< N
    BY <2>1 DEF FrameAt
  <2>3. p + 1 \in 1 .. N /\ p + 2 \in 1 .. N /\ p + 5 \in 1 .. N /\ p + 6 \in 1 .. N
    BY <2>2, <1>1
  <2>4. g[p + 1] = buf[p + 1] /\ g[p + 2] = buf[p + 2] /\ g[p + 5] = buf[p + 5] /\ g[p + 6] = buf[p + 6]
    BY <1>1, <2>3
  <2>5. FrameEnd(g, p) = FrameEnd(buf, p) /\ FrameEnd(buf, p) \in 0 .. N
    BY <2>1, <2>4 DEF FrameEnd
  <2>6. p + 8 =< Len(g) /\ FrameEnd(g, p) =< Len(g)
    BY <1>1, <2>2, <2>5
  <2> QED BY <2>1, <2>4, <2>5, <2>6 DEF FrameAt
<1>5. FrameAt(g, N) /\ FrameEnd(g, N) = N + M
  <2>1. 1 \in 1 .. M /\ 2 \in 1 .. M /\ 5 \in 1 .. M /\ 6 \in 1 .. M
    BY <1>1
  <2>2. g[N + 1] = f[1] /\ g[N + 2] = f[2] /\ g[N + 5] = f[5] /\ g[N + 6] = f[6]
    BY <1>1, <2>1
  <2>3. f[5] \in Nat /\ f[6] \in Nat
    BY <1>1, <2>1
  <2> HIDE DEF N
  <2>4. FrameEnd(g, N) = N + M
    <3>1. FrameEnd(g, N) = N + 8 + f[5] + 256 * f[6]
      BY <2>2 DEF FrameEnd
    <3>2. N \in Nat
      BY <1>1
    <3> QED BY <1>3, <2>3, <3>1, <3>2
  <2>5. N + 8 =< Len(g) /\ FrameEnd(g, N) =< Len(g)
    BY <1>1, <2>4
  <2> QED BY <1>3, <2>2, <2>4, <2>5 DEF FrameAt
<1>6. FramedBy(g, more)
  <2>1. 0 \in ends /\ N \in ends
    BY <1>2 DEF FramedBy
  <2>2. ASSUME NEW p \in more, p < Len(g) PROVE FrameAt(g, p) /\ FrameEnd(g, p) \in more
    <3>1. p \in ends /\ p =< N /\ p \in Nat
      BY <1>1, <1>2, <2>2
    <3>2. CASE p = N
      BY <1>5, <3>2
    <3>3. CASE p # N
      BY <1>1, <1>4, <3>1, <3>3
    <3> QED BY <3>2, <3>3
  <2> QED BY <1>1, <2>1, <2>2 DEF FramedBy
<1>7. more \in SUBSET (0 .. Len(g))
  <2>1. ASSUME NEW p \in ends PROVE p \in 0 .. N + M
    <3>1. p \in 0 .. N
      BY <1>2
    <3> HIDE DEF N
    <3> QED BY <3>1, <1>1
  <2>2. N + M \in 0 .. N + M
    BY <1>1
  <2> QED BY <1>1, <2>1, <2>2
<1> QED BY <1>6, <1>7 DEF Framed, g

(* What the parser has of a frame: what it starts with, and as many bytes   *)
(* as its length says, unless that is zero.                                 *)
Shape(st, len, frame) ==
    /\ st >= 2 => frame[1] = SYNC1 /\ frame[2] = SYNC2
    /\ st = 5 => len = frame[5]
    /\ st >= 6 => len = frame[5] + 256 * frame[6]
    /\ st >= 7 => Len(frame) >= 7 /\ (len # 0 => Len(frame) = len + st - 1)
Shaped(p) == Shape(p.st, p.len, p.frame)

LEMMA MadeShaped ==
    ASSUME NEW st, NEW len, NEW got, NEW frame, Shape(st, len, frame)
    PROVE  Shaped(Made(st, len, got, frame))
BY DEF Shaped, Made

LEMMA StartShaped == Shaped(StartState)
BY DEF Shaped, Shape, StartState

LEMMA FedShaped ==
    ASSUME NEW c \in Nat, ParserSound(parser), parser.st =< 8, Shaped(parser)
    PROVE  Shaped(Feed(c))
<1> DEFINE b == Append(parser.frame, c)
           st == parser.st
           len == parser.len
           n == Len(parser.frame)
<1>1. /\ parser \in Parsers /\ st \in 0 .. 9 /\ len \in Nat /\ parser.got \in Nat
      /\ parser.frame \in Bytes /\ Fits(st, len, parser.got, parser.frame)
      /\ Shape(st, len, parser.frame)
    BY ParserFields, PartsOf DEF ParserSound, Shaped
<1>2. n \in Nat /\ Len(b) = n + 1 /\ b[n + 1] = c /\ \A i \in 1 .. n : b[i] = parser.frame[i]
    BY <1>1, BytesAppend, AppendProperties DEF Bytes
<1> HIDE DEF b, st, len
<1>3. n >= 2 => b[1] = parser.frame[1] /\ b[2] = parser.frame[2]
    BY <1>2
<1>4. n >= 6 => b[5] = parser.frame[5] /\ b[6] = parser.frame[6]
    BY <1>2
<1>5. CASE st \in {0, 1}
  <2>1. Shaped(Made(1, 0, 0, <<>>))
    BY MadeShaped DEF Shape
  <2>2. Shaped(Made(2, 0, 0, <<SYNC1, SYNC2>>))
    BY MadeShaped DEF Shape
  <2>3. Feed(c) \in {Made(1, 0, 0, <<>>), Made(2, 0, 0, <<SYNC1, SYNC2>>), StartState}
    BY <1>1, <1>5, FeedIs DEF st
  <2> QED BY <2>1, <2>2, <2>3, StartShaped
<1>6. CASE st \in {2, 3}
  <2>1. Feed(c) = Made(st + 1, len, parser.got, b)
    BY <1>1, <1>6, FeedIs DEF b, st, len
  <2>2. n = st
    BY <1>1, <1>6 DEF Fits
  <2>3. Shape(st + 1, len, b)
    BY <1>1, <1>3, <1>6, <2>2 DEF Shape
  <2> QED BY <2>1, <2>3, MadeShaped
<1>7. CASE st = 4
  <2>1. Feed(c) = Made(5, c, parser.got, b)
    BY <1>1, <1>7, FeedIs DEF b, st
  <2>2. n = 4
    <3>1. parser.got = 0 /\ n = st + parser.got
      BY <1>1, <1>7 DEF Fits
    <3> QED BY <1>7, <3>1
  <2>3. Shape(5, c, b)
    BY <1>1, <1>2, <1>3, <1>7, <2>2 DEF Shape
  <2> QED BY <2>1, <2>3, MadeShaped
<1>8. CASE st = 5
  <2>1. Feed(c) \in {StartState, Made(6, len + 256 * c, parser.got, b)}
    BY <1>1, <1>8, FeedIs DEF b, st, len
  <2>2. n = 5 /\ len = parser.frame[5]
    <3>1. parser.got = 0 /\ n = st + parser.got
      BY <1>1, <1>8 DEF Fits
    <3>2. n = 5
      BY <1>8, <3>1
    <3> QED BY <1>1, <1>8, <3>2 DEF Shape
  <2>3. b[5] = len /\ b[6] = c
    BY <1>2, <2>2
  <2>4. Shape(6, len + 256 * c, b)
    BY <1>1, <1>3, <1>8, <2>2, <2>3 DEF Shape
  <2> QED BY <2>1, <2>4, MadeShaped, StartShaped
<1>9. CASE st = 6
  <2> DEFINE last == LastOfPayload(parser.got + 1, len)
  <2>1. Feed(c) = Made(IF last THEN 7 ELSE 6, len, parser.got + 1, b)
    BY <1>1, <1>9, FeedIs DEF b, st, len
  <2>2. n = 6 + parser.got /\ (parser.got = 0 \/ parser.got < len)
    BY <1>1, <1>9 DEF Fits
  <2>3. b[1] = SYNC1 /\ b[2] = SYNC2 /\ len = b[5] + 256 * b[6]
    BY <1>1, <1>3, <1>4, <1>9, <2>2 DEF Shape
  <2>4. ~last => Shape(6, len, b)
    BY <2>3 DEF Shape
  <2>5. ASSUME last PROVE Shape(7, len, b)
    <3>1. parser.got + 1 >= len
      BY <2>5 DEF LastOfPayload
    <3>2. Len(b) >= 7 /\ (len # 0 => Len(b) = len + 7 - 1)
      BY <1>1, <1>2, <2>2, <3>1
    <3> QED BY <2>3, <3>2 DEF Shape
  <2> HIDE DEF last
  <2> QED BY <2>1, <2>4, <2>5, MadeShaped
<1>10. CASE st \in {7, 8}
  <2>1. Feed(c) = Made(st + 1, len, parser.got, b)
    BY <1>1, <1>10, FeedIs DEF b, st, len
  <2>2. n >= 7 /\ (len # 0 => n = len + st - 1)
    BY <1>1, <1>10 DEF Shape
  <2>3. b[1] = SYNC1 /\ b[2] = SYNC2 /\ len = b[5] + 256 * b[6]
    BY <1>1, <1>2, <1>3, <1>4, <1>10, <2>2 DEF Shape
  <2>4. Len(b) >= 7 /\ (len # 0 => Len(b) = len + (st + 1) - 1)
    BY <1>1, <1>2, <1>10, <2>2
  <2>5. Shape(st + 1, len, b)
    BY <1>1, <1>10, <2>3, <2>4 DEF Shape
  <2> QED BY <2>1, <2>5, MadeShaped
<1> QED BY <1>1, <1>5, <1>6, <1>7, <1>8, <1>9, <1>10 DEF st

(* A finished frame with a payload is whole.                                *)
LEMMA FinishedWhole ==
    ASSUME NEW p, ParserSound(p), Shaped(p), p.st = 9, p.len # 0
    PROVE  WholeFrame(p.frame)
<1>1. p.frame \in Bytes /\ p.len \in Nat /\ Len(p.frame) \in Nat
    BY ParserFields DEF ParserSound
<1>2. /\ p.frame[1] = SYNC1 /\ p.frame[2] = SYNC2 /\ p.len = p.frame[5] + 256 * p.frame[6]
      /\ Len(p.frame) = p.len + 9 - 1
    BY DEF Shaped, Shape
<1>3. p.frame[5] \in Nat /\ p.frame[6] \in Nat
    BY <1>1, <1>2, ByteIs
<1> QED BY <1>1, <1>2, <1>3 DEF WholeFrame

WalkInv ==
    /\ LinkInv /\ Shaped(parser)
    /\ DOMAIN mishaps = {"items", "lost", "empty"}
    /\ ~mishaps.empty =>
          /\ delivery # NoDelivery => WholeFrame(delivery.frame)
          /\ Framed(capture.buf)

LEMMA WalkStep == WalkInv /\ [LinkNext]_linkVars => WalkInv'
<1> SUFFICES ASSUME WalkInv, [LinkNext]_linkVars PROVE WalkInv'
    OBVIOUS
<1>0. LinkInv /\ LinkInv'
    BY LinkStep DEF WalkInv
<1>1. CASE UNCHANGED <<parser, delivery, capture, mishaps>>
    BY <1>0, <1>1 DEF WalkInv, Shaped
<1>2. CASE LoseByte \/ \E item \in Items : Send(item)
  <2>1. /\ UNCHANGED <<parser, delivery, capture>>
        /\ DOMAIN mishaps' = DOMAIN mishaps /\ mishaps'.empty = mishaps.empty
    BY <1>2 DEF LoseByte, Send, WalkInv
  <2> QED BY <1>0, <2>1 DEF WalkInv, Shaped
<1>3. CASE ReadText
  <2>1. parser' = StartState /\ UNCHANGED <<delivery, capture, mishaps>>
    BY <1>3 DEF ReadText, HandedBack, Feed
  <2> QED BY <1>0, <2>1, StartShaped DEF WalkInv
<1>4. CASE ReadFrame
  <2> DEFINE fed == Feed(Head(wire))
  <2>1. Head(wire) \in Nat
    BY <1>0, <1>4, BytesTail DEF ReadFrame, LinkInv
  <2>2. ParserSound(fed) /\ Shaped(fed)
    BY <1>0, <2>1, FedSound, FedShaped DEF LinkInv, WalkInv
  <2>3. /\ delivery = NoDelivery /\ UNCHANGED capture
        /\ IF fed.st = 9
           THEN /\ parser' = StartState
                /\ delivery' = IF capture.owner = "none" \/ capture.done THEN NoDelivery
                               ELSE [to |-> capture.owner, frame |-> fed.frame]
                /\ mishaps' = [mishaps EXCEPT !.empty = @ \/ fed.len = 0]
           ELSE parser' = fed /\ UNCHANGED <<delivery, mishaps>>
    BY <1>4 DEF ReadFrame
  <2> HIDE DEF fed
  <2>4. CASE fed.st # 9
    BY <1>0, <2>2, <2>3, <2>4 DEF WalkInv
  <2>5. CASE fed.st = 9
    <3>1. DOMAIN mishaps' = DOMAIN mishaps /\ mishaps'.empty = (mishaps.empty \/ fed.len = 0)
      BY <2>3, <2>5 DEF WalkInv
    <3>2. ~mishaps'.empty => WholeFrame(fed.frame)
      BY <2>2, <2>5, <3>1, FinishedWhole
    <3>3. delivery' # NoDelivery => delivery'.frame = fed.frame
      BY <2>3, <2>5
    <3> QED BY <1>0, <2>3, <2>5, <3>1, <3>2, <3>3, StartShaped DEF WalkInv
  <2> QED BY <2>4, <2>5
<1>5. CASE Deliver
  <2>1. /\ delivery # NoDelivery /\ delivery' = NoDelivery /\ UNCHANGED <<parser, mishaps>>
        /\ capture'.buf \in {capture.buf, capture.buf \o delivery.frame}
    <3>1. /\ delivery # NoDelivery /\ delivery' = NoDelivery /\ UNCHANGED <<parser, mishaps>>
          /\ \/ capture' = capture
             \/ capture' = [capture EXCEPT !.done = TRUE]
             \/ capture' = [capture EXCEPT !.buf = capture.buf \o delivery.frame]
      BY <1>5 DEF Deliver
    <3>2. capture = [owner |-> capture.owner, buf |-> capture.buf, done |-> capture.done]
      BY <1>0 DEF LinkInv, Captures
    <3> QED BY <3>1, <3>2
  <2>2. capture.buf \in Bytes
    BY <1>0 DEF LinkInv, Captures
  <2>3. ~mishaps.empty => Framed(capture.buf) /\ Framed(capture.buf \o delivery.frame)
    BY <2>1, <2>2, FramedAppend DEF WalkInv
  <2> QED BY <1>0, <2>1, <2>3 DEF WalkInv, Shaped
<1>6. CASE BeginExchange \/ EndExchange
  <2>1. capture'.buf = <<>> /\ UNCHANGED <<parser, delivery, mishaps>>
    BY <1>6 DEF BeginExchange, EndExchange, NoCapture
  <2> QED BY <1>0, <2>1, FramedNothing DEF WalkInv, Shaped
<1>7. UNCHANGED linkVars \/ Publish \/ LoopPass => UNCHANGED <<parser, delivery, capture, mishaps>>
    BY DEF linkVars, Publish, LoopPass
<1> QED BY <1>1, <1>2, <1>3, <1>4, <1>5, <1>6, <1>7 DEF LinkNext

(* "The bytes are complete UBX frames" (gnss.h:95-96): whatever bytes are    *)
(* lost and however the exchanges are timed, gnss_dbd_write would send what *)
(* has been captured to its last byte, as long as no frame of no length     *)
(* came (gnss.cpp:386-402).                                                 *)
THEOREM CapturesWalk == LinkSpec => []CaptureWalks
<1>1. LinkInit => WalkInv
  <2> SUFFICES ASSUME LinkInit PROVE WalkInv
      OBVIOUS
  <2>1. LinkInv
    BY LinkStarts
  <2> QED BY <2>1, StartShaped, FramedNothing DEF LinkInit, WalkInv, NoCapture, NoDelivery
<1>2. WalkInv => CaptureWalks
  <2> SUFFICES ASSUME WalkInv, ~mishaps.empty PROVE WalkedBytes(capture.buf) = Len(capture.buf)
      BY DEF CaptureWalks
  <2> QED BY FramedWalks DEF WalkInv, LinkInv, Captures
<1> QED BY <1>1, <1>2, WalkStep, PTL DEF LinkSpec

-----------------------------------------------------------------------------
(***************************************************************************)
(* GpsTrust                                                                 *)
(***************************************************************************)
LastingFlags == [Flags -> 0 .. HOLD]
Skies == [fix : Fixes, since : 0 .. FIX_TICKS, jumped : BOOLEAN, seen : BOOLEAN]
Levels == {"unknown", "ok", "odd", "bad"}

TrustInv ==
    /\ sky \in Skies
    /\ pulse \in {"none", "good", "bad"}
    /\ prev.have \in BOOLEAN
    /\ altSame \in 0 .. TRUST_ALT_FREEZE_N + 1
    /\ held \in LastingFlags
    /\ level \in Levels
    /\ raised \subseteq Flags
    /\ SuspicionShown

LEMMA TrustNumbers ==
    /\ FIX_TICKS \in Nat /\ HOLD \in Nat /\ TRUST_ALT_FREEZE_N \in Nat
    /\ PassTicks \subseteq Nat /\ \A t \in PassTicks : t >= 1
    /\ 0 \in 0 .. HOLD /\ HOLD \in 0 .. HOLD /\ 0 \in 0 .. FIX_TICKS
BY TrustAssumption

LEMMA FlagsFinite == IsFiniteSet(Flags)
<1>1. IsFiniteSet({"jump", "speed", "alt", "pps", "clock", "snr", "wifi"})
  <2>1. /\ IsFiniteSet({"jump"}) /\ IsFiniteSet({"speed"}) /\ IsFiniteSet({"alt"})
        /\ IsFiniteSet({"pps"}) /\ IsFiniteSet({"clock"}) /\ IsFiniteSet({"snr"})
        /\ IsFiniteSet({"wifi"})
    BY FS_Singleton
  <2>2. IsFiniteSet({"jump"} \cup {"speed"}) /\ IsFiniteSet({"alt"} \cup {"pps"})
    BY <2>1, FS_Union
  <2>3. IsFiniteSet({"clock"} \cup {"snr"})
    BY <2>1, FS_Union
  <2>4. IsFiniteSet({"jump"} \cup {"speed"} \cup ({"alt"} \cup {"pps"}))
    BY <2>2, FS_Union
  <2>5. IsFiniteSet({"clock"} \cup {"snr"} \cup {"wifi"})
    BY <2>1, <2>3, FS_Union
  <2>6. IsFiniteSet(({"jump"} \cup {"speed"} \cup ({"alt"} \cup {"pps"}))
                       \cup ({"clock"} \cup {"snr"} \cup {"wifi"}))
    BY <2>4, <2>5, FS_Union
  <2>7. {"jump", "speed", "alt", "pps", "clock", "snr", "wifi"}
           = ({"jump"} \cup {"speed"} \cup ({"alt"} \cup {"pps"}))
                \cup ({"clock"} \cup {"snr"} \cup {"wifi"})
    OBVIOUS
  <2> QED BY <2>6, <2>7
<1>2. Flags \subseteq {"jump", "speed", "alt", "pps", "clock", "snr", "wifi"}
    BY TrustAssumption DEF Flags
<1> QED BY <1>1, <1>2, FS_Subset

(* Every flag that is up counts, and none that is not. *)
LEMMA VerdictIs ==
    ASSUME NEW flags
    PROVE  /\ Verdict(Cardinality(Up(flags))) \in {"ok", "odd", "bad"}
           /\ Up(flags) = {} <=> Verdict(Cardinality(Up(flags))) = "ok"
<1>1. IsFiniteSet(Up(flags))
    BY FlagsFinite, FS_Subset DEF Up
<1>2. Cardinality(Up(flags)) \in Nat /\ (Cardinality(Up(flags)) = 0 <=> Up(flags) = {})
    BY <1>1, FS_CardinalityType, FS_EmptySet
<1> QED BY <1>2 DEF Verdict

LEMMA ExpiredIs ==
    ASSUME NEW ticks \in Nat, held \in LastingFlags
    PROVE  Expired(ticks) \in LastingFlags /\ Up(Expired(ticks)) \subseteq Up(held)
<1>1. ASSUME NEW f \in Flags
      PROVE  /\ (IF held[f] > ticks THEN held[f] - ticks ELSE 0) \in 0 .. HOLD
             /\ (IF held[f] > ticks THEN held[f] - ticks ELSE 0) > 0 => held[f] > 0
    BY TrustNumbers DEF LastingFlags
<1> QED BY <1>1 DEF Expired, LastingFlags, Up

LEMMA ChecksAreFlags ==
    ASSUME NEW fix \in Fixes, NEW ticks
    PROVE  FailedChecks(fix, ticks) \subseteq Flags
<1>1. fix.fails \subseteq Flags
    BY DEF Fixes, Flags
<1> QED BY <1>1 DEF FailedChecks, Flags

LEMMA AltCountIs ==
    ASSUME NEW fix, altSame \in 0 .. TRUST_ALT_FREEZE_N + 1
    PROVE  AltCount(fix) \in 0 .. TRUST_ALT_FREEZE_N + 1
BY TrustNumbers DEF AltCount

LEMMA SeenIs ==
    ASSUME NEW ticks \in Nat, sky \in Skies
    PROVE  Seen(ticks) \in Skies
<1> DEFINE later == IF sky.since + ticks > FIX_TICKS THEN FIX_TICKS ELSE sky.since + ticks
           seen == [sky EXCEPT !.seen = TRUE]
<1>1. later \in 0 .. FIX_TICKS
    BY TrustNumbers DEF Skies
<1>2. seen \in Skies /\ seen.since = sky.since
    BY DEF Skies
<1>3. Seen(ticks) = [seen EXCEPT !.since = later]
    BY DEF Seen, Skies
<1> HIDE DEF later, seen
<1> QED BY <1>1, <1>2, <1>3 DEF Skies

LEMMA TrustStep == TrustInv /\ [TrustNext]_trustVars => TrustInv'
<1> SUFFICES ASSUME TrustInv, [TrustNext]_trustVars PROVE TrustInv'
    OBVIOUS
<1> USE DEF TrustInv
<1>1. CASE UNCHANGED trustVars
    BY <1>1 DEF trustVars, SuspicionShown, Up
<1>2. ASSUME NEW fix \in Fixes, Receive(fix)
      PROVE  TrustInv'
  <2>1. UNCHANGED <<pulse, prev, altSame, held, level, raised>>
    BY <1>2 DEF Receive
  <2> DEFINE jumped == /\ sky.fix.valid /\ fix.valid
                       /\ FasterThan(TRUST_MAX_KMH, sky.fix.pos, fix.pos, FIX_TICKS)
  <2>2. sky' = [fix |-> fix, since |-> 0, seen |-> FALSE, jumped |-> jumped]
    BY <1>2 DEF Receive
  <2>3. jumped \in BOOLEAN
    OBVIOUS
  <2> HIDE DEF jumped
  <2>4. sky' \in Skies
    BY <2>2, <2>3, TrustNumbers DEF Skies
  <2> QED BY <2>1, <2>4 DEF SuspicionShown, Up
<1>3. ASSUME NEW interval \in {"good", "bad", "restart"}, Pulse(interval)
      PROVE  TrustInv'
    BY <1>3 DEF Pulse, SuspicionShown, Up
<1>4. ASSUME NEW ticks \in PassTicks, UpdateWithoutFix(ticks)
      PROVE  TrustInv'
  <2>1. ticks \in Nat
    BY TrustNumbers
  <2>2. /\ prev' = NoPrev /\ held' = Expired(ticks) /\ raised' = {} /\ sky' = Seen(ticks)
        /\ level' = IF Up(held') = {} THEN "unknown" ELSE level
        /\ UNCHANGED <<pulse, altSame>>
    BY <1>4 DEF UpdateWithoutFix
  <2>3. held' \in LastingFlags /\ Up(held') \subseteq Up(held) /\ sky' \in Skies
    BY <2>1, <2>2, ExpiredIs, SeenIs
  <2>4. prev'.have \in BOOLEAN
    BY <2>2 DEF NoPrev
  <2>5. level' \in Levels /\ SuspicionShown'
    BY <2>2, <2>3 DEF Levels, SuspicionShown
  <2> QED BY <2>2, <2>3, <2>4, <2>5
<1>5. ASSUME NEW ticks \in PassTicks, UpdateWithFix(ticks)
      PROVE  TrustInv'
  <2>1. ticks \in Nat /\ sky.fix \in Fixes
    BY TrustNumbers DEF Skies
  <2>2. /\ raised' = FailedChecks(sky.fix, ticks)
        /\ held' = [f \in Flags |-> IF f \in raised' THEN HOLD ELSE Expired(ticks)[f]]
        /\ level' = Verdict(Cardinality(Up(held')))
        /\ prev' = [have |-> TRUE, pos |-> sky.fix.pos, alt |-> sky.fix.alt]
        /\ altSame' = AltCount(sky.fix)
        /\ sky' = Seen(ticks)
        /\ UNCHANGED pulse
    BY <1>5 DEF UpdateWithFix
  <2>3. Expired(ticks) \in LastingFlags
    BY <2>1, ExpiredIs
  <2>4. held' \in LastingFlags
    BY <2>2, <2>3, TrustNumbers DEF LastingFlags
  <2>5. raised' \subseteq Flags /\ altSame' \in 0 .. TRUST_ALT_FREEZE_N + 1 /\ sky' \in Skies
    BY <2>1, <2>2, ChecksAreFlags, AltCountIs, SeenIs
  <2>6. level' \in Levels /\ SuspicionShown'
    BY <2>2, VerdictIs DEF Levels, SuspicionShown
  <2>7. prev'.have \in BOOLEAN
    BY <2>2
  <2> QED BY <2>2, <2>4, <2>5, <2>6, <2>7
<1> QED
    BY <1>1, <1>2, <1>3, <1>4, <1>5 DEF TrustNext, TrustPass

(* The level and the flags tell the same, with a fix and without, however   *)
(* passes, fixes and pulses follow each other (gpstrust.cpp:139-160).       *)
THEOREM SuspicionsAreShown == TrustSpec => [](TrustTypeOK /\ SuspicionShown)
<1>1. TrustInit => TrustInv
  <2> SUFFICES ASSUME TrustInit PROVE TrustInv
      OBVIOUS
  <2>1. sky \in Skies
    BY TrustNumbers DEF TrustInit, Skies
  <2>2. held \in LastingFlags /\ Up(held) = {}
    BY TrustNumbers DEF TrustInit, LastingFlags, Up
  <2> QED BY <2>1, <2>2, TrustNumbers DEF TrustInit, TrustInv, NoPrev, Levels, SuspicionShown
<1>2. TrustInv => TrustTypeOK /\ SuspicionShown
    BY DEF TrustInv, TrustTypeOK, Skies, LastingFlags, Levels
<1> QED BY <1>1, <1>2, TrustStep, PTL DEF TrustSpec

-----------------------------------------------------------------------------
(***************************************************************************)
(* WifiLoc                                                                  *)
(***************************************************************************)
Clock == 0 .. CLOCK_MAX
Timer == {Never} \cup Clock
Timers == {"learn", "locate", "lost"}
Stopwatches == [Timers -> Timer]
WifiStates == [on : BOOLEAN, associated : BOOLEAN, prefetch : BOOLEAN]
RadioNames == {"unmanaged", "down", "waking", "up"}
Radios == [state : RadioNames, since : Clock]
ScanReasons == {"none", "learn", "locate"}
ScanResults == {"none", "running", "done", "failed"}
LearnedPlaces == Places \cup {NoPlace}
Scans == [why : ScanReasons, result : ScanResults, age : Clock, from : LearnedPlaces]
LearnedStates == [at : LearnedPlaces, any : BOOLEAN]
Histories == [tried : BOOLEAN, suspended : BOOLEAN, smear : Int]

WifiTyped ==
    /\ gps \in GpsFixes /\ wifi \in WifiStates /\ radio \in Radios /\ scan \in Scans
    /\ since \in Stopwatches /\ learned \in LearnedStates /\ enabled \in BOOLEAN
    /\ history \in Histories

(* A scan that polls have watched from its start is given up in time, ... *)
AgeBounded(s, h) == s.why # "none" /\ ~h.suspended => s.age =< SCAN_TIMEOUT

(* ... and so what it finds is not learned far from where it began.         *)
WifiInv == WifiTyped /\ AgeBounded(scan, history) /\ LearnedNearby

LEMMA WifiNumbers ==
    /\ LEARN_SPEED \in Nat /\ LEARN_SLACK \in Nat /\ SCAN_TIMEOUT \in Nat
    /\ CLOCK_MAX \in Nat /\ LINGER \in Nat /\ PORTAL_TIME \in Nat /\ WAKE \in Nat
    /\ 0 \in Clock /\ Clock \subseteq Nat /\ Never \notin Clock
    /\ Places \subseteq Int /\ LearnedPlaces \subseteq Int /\ NoPlace \in LearnedPlaces
BY WifiLocAssumption DEF Clock, Never, NoPlace, LearnedPlaces

(* The distance LearnedNearby allows. *)
LEMMA ReachIsNatural ==
    /\ LEARN_SPEED * (SCAN_TIMEOUT + 1) \in Nat
    /\ LEARN_SPEED * (SCAN_TIMEOUT + 1) + LEARN_SLACK \in Nat
    /\ 0 =< LEARN_SPEED * (SCAN_TIMEOUT + 1) + LEARN_SLACK
<1>1. SCAN_TIMEOUT + 1 \in Nat
  BY WifiNumbers
<1>2. LEARN_SPEED * (SCAN_TIMEOUT + 1) \in Nat
  BY <1>1, WifiNumbers
<1> QED BY <1>2, WifiNumbers

LEMMA WifiNames ==
    /\ "none" \in ScanReasons /\ "learn" \in ScanReasons /\ "locate" \in ScanReasons
    /\ "none" \in ScanResults /\ "running" \in ScanResults /\ "done" \in ScanResults
    /\ "failed" \in ScanResults
    /\ "unmanaged" \in RadioNames /\ "down" \in RadioNames /\ "waking" \in RadioNames
    /\ "up" \in RadioNames
    /\ "learn" \in Timers /\ "locate" \in Timers /\ "lost" \in Timers
BY DEF ScanReasons, ScanResults, RadioNames, Timers

LEMMA LaterIs ==
    ASSUME NEW elapsed \in Nat
    PROVE  /\ \A t \in Clock : /\ Later(t, elapsed) \in Clock
                               /\ Later(t, elapsed) =< t + elapsed
           /\ \A t \in Timer : Later(t, elapsed) \in Timer
<1>1. CLOCK_MAX \in Nat /\ Clock \subseteq Nat /\ Never \notin Nat
    BY WifiLocAssumption DEF Clock, Never
<1>2. ASSUME NEW t \in Clock
      PROVE  Later(t, elapsed) \in Clock /\ Later(t, elapsed) =< t + elapsed
    BY <1>1 DEF Later, Clock
<1>3. Later(Never, elapsed) = Never
    BY DEF Later
<1> QED BY <1>2, <1>3 DEF Timer

LEMMA SinceAtIs ==
    ASSUME NEW elapsed \in Nat, since \in Stopwatches
    PROVE  SinceAt(elapsed) \in Stopwatches
BY LaterIs DEF SinceAt, Stopwatches

LEMMA LostClockIs ==
    ASSUME NEW elapsed \in Nat, since \in Stopwatches
    PROVE  [SinceAt(elapsed) EXCEPT !.lost = LostClock(SinceAt(elapsed))] \in Stopwatches
<1> DEFINE t == SinceAt(elapsed)
<1>1. t \in Stopwatches
    BY SinceAtIs
<1> HIDE DEF t
<1>2. t.lost \in Timer /\ t.lost = t["lost"]
    BY <1>1, WifiNames DEF Stopwatches
<1>3. LostClock(t) \in Timer
    BY <1>2, WifiNumbers DEF LostClock, Timer
<1>4. [t EXCEPT !.lost = LostClock(t)] \in Stopwatches
    BY <1>1, <1>3, WifiNames DEF Stopwatches
<1> QED BY <1>4 DEF t

LEMMA RadioAtIs ==
    ASSUME NEW elapsed \in Nat, radio \in Radios
    PROVE  RadioAt(elapsed) \in Radios /\ RadioAt(elapsed).state = radio.state
<1>1. radio.since \in Clock
    BY DEF Radios
<1>2. Later(radio.since, elapsed) \in Clock
    BY <1>1, LaterIs
<1> QED BY <1>2 DEF RadioAt, Radios

LEMMA RadioIs ==
    ASSUME NEW state \in RadioNames, NEW t \in Clock
    PROVE  [state |-> state, since |-> t] \in Radios
BY DEF Radios

LEMMA NoScanIs == NoScan \in Scans /\ NoScan.why = "none" /\ NoScan.age = 0
<1>1. 0 \in Clock /\ NoPlace \in LearnedPlaces /\ "none" \in ScanReasons /\ "none" \in ScanResults
    BY WifiNumbers, WifiNames
<1> QED BY <1>1 DEF NoScan, Scans

LEMMA ScanFields ==
    ASSUME NEW s \in Scans
    PROVE  /\ s.why \in ScanReasons /\ s.result \in ScanResults /\ s.age \in Clock
           /\ s.from \in LearnedPlaces
BY DEF Scans

LEMMA ScanAtIs ==
    ASSUME NEW elapsed \in Nat, scan \in Scans
    PROVE  /\ ScanAt(elapsed) \in Scans /\ ScanAt(elapsed).age =< scan.age + elapsed
           /\ ScanAt(elapsed).why = scan.why
<1>1. scan.age \in Clock /\ scan.age \in Nat
    BY ScanFields, WifiNumbers
<1>2. CASE scan.why = "none"
    BY <1>1, <1>2, NoScanIs DEF ScanAt
<1>3. CASE scan.why # "none"
  <2>1. Later(scan.age, elapsed) \in Clock /\ Later(scan.age, elapsed) =< scan.age + elapsed
    BY <1>1, LaterIs
  <2>2. ScanAt(elapsed) = [scan EXCEPT !.age = Later(scan.age, elapsed)]
    BY <1>3 DEF ScanAt
  <2> QED BY <2>1, <2>2 DEF Scans
<1> QED BY <1>2, <1>3

LEMMA GiveBackIs ==
    ASSUME NEW r \in Radios, NEW s, wifi \in WifiStates, GiveBack(r, s)
    PROVE  radio' \in Radios /\ wifi' \in WifiStates
<1>1. CASE radio' = r /\ UNCHANGED wifi
    BY <1>1
<1>2. CASE radio' = [r EXCEPT !.state = "unmanaged"] /\ UNCHANGED wifi
    BY <1>2, WifiNames DEF Radios
<1>3. CASE radio' = [state |-> "down", since |-> 0] /\ wifi' = [wifi EXCEPT !.on = FALSE]
  <2>1. radio' \in Radios
    BY <1>3, WifiNames, WifiNumbers, RadioIs
  <2>2. wifi' \in WifiStates
    BY <1>3 DEF WifiStates
  <2> QED BY <2>1, <2>2
<1> QED BY <1>1, <1>2, <1>3 DEF GiveBack

LEMMA HistoryExcept ==
    ASSUME history \in Histories, NEW b \in BOOLEAN, NEW c \in BOOLEAN, NEW n \in Int
    PROVE  /\ [history EXCEPT !.tried = b, !.suspended = c]
                 = [tried |-> b, suspended |-> c, smear |-> history.smear]
           /\ [history EXCEPT !.tried = b, !.smear = n]
                 = [tried |-> b, suspended |-> history.suspended, smear |-> n]
<1> DEFINE one == [history EXCEPT !.tried = b]
<1>1. one = [tried |-> b, suspended |-> history.suspended, smear |-> history.smear]
    BY DEF Histories
<1>2. [history EXCEPT !.tried = b, !.suspended = c] = [one EXCEPT !.suspended = c]
    BY DEF Histories
<1>3. [history EXCEPT !.tried = b, !.smear = n] = [one EXCEPT !.smear = n]
    BY DEF Histories
<1> HIDE DEF one
<1>4. [one EXCEPT !.suspended = c] = [tried |-> b, suspended |-> c, smear |-> history.smear]
    BY <1>1
<1>5. [one EXCEPT !.smear = n] = [tried |-> b, suspended |-> history.suspended, smear |-> n]
    BY <1>1
<1> QED BY <1>2, <1>3, <1>4, <1>5

LEMMA HistoryIs ==
    ASSUME NEW b \in BOOLEAN, NEW c \in BOOLEAN, NEW n \in Int, NEW h,
           h = [tried |-> b, suspended |-> c, smear |-> n]
    PROVE  h \in Histories /\ h.suspended = c /\ h.smear = n
BY DEF Histories

LEMMA Slower ==
    ASSUME NEW v \in Nat, NEW s \in Nat, NEW t \in Nat, s =< t
    PROVE  v * s =< v * t
OBVIOUS

LEMMA FineIsSomewhere == gps \in GpsFixes /\ gps.kind = "fine" => gps.place \in Places
BY DEF GpsFixes

(* A poll that finds the scan finished.                                     *)
LEMMA UseResultKeeps ==
    ASSUME WifiInv, NEW elapsed \in 0 .. 1, UseResult(elapsed), UNCHANGED <<gps, enabled>>
    PROVE  WifiInv'
<1> DEFINE s == ScanAt(elapsed)
           r == [RadioAt(elapsed) EXCEPT !.since = 0]
<1>1. /\ gps \in GpsFixes /\ wifi \in WifiStates /\ radio \in Radios /\ scan \in Scans
      /\ since \in Stopwatches /\ learned \in LearnedStates /\ history \in Histories
      /\ elapsed \in Nat /\ history.suspended \in BOOLEAN
    BY DEF WifiInv, WifiTyped, Histories
<1>2. /\ scan' = NoScan /\ since' = SinceAt(elapsed) /\ GiveBack(r, NoScan)
      /\ IF Usable(s)
         THEN /\ learned' = [learned EXCEPT !.any = TRUE]
              /\ history' = [tried |-> FALSE, suspended |-> FALSE,
                             smear |-> IF history.suspended THEN 0 ELSE Apart(gps.place, s.from)]
         ELSE UNCHANGED learned /\ history' = [tried |-> FALSE, suspended |-> FALSE, smear |-> 0]
    BY DEF UseResult
<1>3. since' \in Stopwatches /\ r \in Radios
  <2>1. RadioAt(elapsed) \in Radios
    BY <1>1, RadioAtIs
  <2> QED BY <1>1, <1>2, <2>1, SinceAtIs, WifiNumbers DEF Radios
<1>4. s \in Scans /\ s.age =< scan.age + elapsed /\ s.why = scan.why
    BY <1>1, ScanAtIs
<1>5. s.age \in Nat /\ scan.age \in Nat /\ s.from \in Int
    BY <1>1, <1>4, ScanFields, WifiNumbers
<1> HIDE DEF s, r
<1>6. radio' \in Radios /\ wifi' \in WifiStates
    BY <1>1, <1>2, <1>3, GiveBackIs
<1>7. scan' \in Scans /\ AgeBounded(scan', history')
    BY <1>2, NoScanIs DEF AgeBounded
<1>8. /\ 0 =< LEARN_SPEED * (SCAN_TIMEOUT + 1) + LEARN_SLACK
      /\ LEARN_SPEED * (SCAN_TIMEOUT + 1) \in Nat
    BY ReachIsNatural
<1>9. learned' \in LearnedStates /\ history' \in Histories /\ LearnedNearby'
  <2>1. CASE ~Usable(s)
    <3>1. history' = [tried |-> FALSE, suspended |-> FALSE, smear |-> 0]
      BY <1>2, <2>1
    <3>2. history' \in Histories /\ history'.smear = 0
      BY <3>1 DEF Histories
    <3> QED BY <1>1, <1>2, <1>8, <2>1, <3>2 DEF LearnedNearby
  <2>2. CASE Usable(s)
    <3> DEFINE smear == IF history.suspended THEN 0 ELSE Apart(gps.place, s.from)
    <3>1. /\ s.why = "learn" /\ gps.place \in Int
          /\ Apart(gps.place, s.from) =< LEARN_SPEED * s.age + LEARN_SLACK
      BY <1>1, <2>2, FineIsSomewhere, WifiNumbers DEF Usable
    <3>2. smear \in Int
      BY <1>5, <3>1 DEF Apart
    <3>3. smear =< LEARN_SPEED * (SCAN_TIMEOUT + 1) + LEARN_SLACK
      <4>1. CASE history.suspended
        BY <1>8, <4>1
      <4>2. CASE ~history.suspended
        <5>1. scan.age =< SCAN_TIMEOUT
          BY <1>4, <3>1, <4>2 DEF WifiInv, AgeBounded
        <5>2. s.age =< SCAN_TIMEOUT + 1 /\ SCAN_TIMEOUT + 1 \in Nat
          BY <1>4, <1>5, <5>1, WifiNumbers
        <5>3. /\ LEARN_SPEED * s.age =< LEARN_SPEED * (SCAN_TIMEOUT + 1)
              /\ LEARN_SPEED * s.age \in Nat
          BY <1>5, <5>2, Slower, WifiNumbers
        <5>4. smear = Apart(gps.place, s.from)
          BY <4>2
        <5> QED BY <1>8, <3>1, <3>2, <5>3, <5>4, WifiNumbers
      <4> QED BY <4>1, <4>2
    <3>4. history' = [tried |-> FALSE, suspended |-> FALSE, smear |-> smear]
      BY <1>2, <2>2
    <3> HIDE DEF smear
    <3>5. history' \in Histories /\ history'.smear = smear
      BY <3>2, <3>4 DEF Histories
    <3>6. learned' \in LearnedStates
      BY <1>1, <1>2, <2>2 DEF LearnedStates
    <3> QED BY <3>3, <3>5, <3>6 DEF LearnedNearby
  <2> QED BY <2>1, <2>2
<1> QED BY <1>1, <1>3, <1>2, <1>6, <1>7, <1>9 DEF WifiInv, WifiTyped

(* The history after steps that learn nothing. *)
LEMMA HistoryKept ==
    ASSUME history \in Histories, NEW b \in BOOLEAN, NEW h, h = [history EXCEPT !.tried = b]
    PROVE  h \in Histories /\ h.suspended = history.suspended /\ h.smear = history.smear
BY DEF Histories

LEMMA AwaitScanKeeps ==
    ASSUME WifiInv, NEW elapsed \in 0 .. 1, AwaitScan(elapsed), UNCHANGED <<gps, enabled>>
    PROVE  WifiInv'
<1> DEFINE s == ScanAt(elapsed)
           r == RadioAt(elapsed)
           suspended == history.suspended /\ scan'.why # "none"
<1>1. /\ gps \in GpsFixes /\ wifi \in WifiStates /\ radio \in Radios /\ scan \in Scans
      /\ since \in Stopwatches /\ learned \in LearnedStates /\ history \in Histories
      /\ elapsed \in Nat /\ suspended \in BOOLEAN /\ history.smear \in Int
    BY DEF WifiInv, WifiTyped, Histories
<1>2. /\ scan' = IF s.result = "failed" \/ s.age > SCAN_TIMEOUT THEN NoScan ELSE s
      /\ history' = [history EXCEPT !.tried = FALSE, !.suspended = suspended]
      /\ since' = SinceAt(elapsed) /\ GiveBack(r, scan') /\ UNCHANGED learned
    BY DEF AwaitScan
<1>3. since' \in Stopwatches /\ r \in Radios
    BY <1>1, <1>2, SinceAtIs, RadioAtIs
<1>4. s \in Scans /\ s.age \in Nat
    BY <1>1, ScanAtIs, ScanFields, WifiNumbers
<1> HIDE DEF s, r, suspended
<1>5. radio' \in Radios /\ wifi' \in WifiStates
    BY <1>1, <1>2, <1>3, GiveBackIs
<1>6. scan' \in Scans /\ (scan'.why # "none" => scan'.age =< SCAN_TIMEOUT)
    BY <1>2, <1>4, NoScanIs, WifiNumbers
<1>7. history' = [tried |-> FALSE, suspended |-> suspended, smear |-> history.smear]
    BY <1>1, <1>2, HistoryExcept
<1>8. history' \in Histories /\ history'.smear = history.smear
    BY <1>1, <1>7, HistoryIs
<1> QED BY <1>1, <1>2, <1>3, <1>5, <1>6, <1>8 DEF WifiInv, WifiTyped, AgeBounded, LearnedNearby

LEMMA StartScanKeeps ==
    ASSUME WifiInv, NEW elapsed \in 0 .. 1, StartScan(elapsed), UNCHANGED <<gps, enabled>>
    PROVE  WifiInv'
<1> DEFINE t == [SinceAt(elapsed) EXCEPT !.lost = LostClock(SinceAt(elapsed))]
           r == RadioAt(elapsed)
           why == IF WantsLearn(t) THEN "learn" ELSE "locate"
<1>1. /\ gps \in GpsFixes /\ wifi \in WifiStates /\ radio \in Radios /\ scan \in Scans
      /\ since \in Stopwatches /\ learned \in LearnedStates /\ history \in Histories
      /\ elapsed \in Nat /\ scan.why = "none"
    BY DEF WifiInv, WifiTyped, StartScan
<1>2. \/ /\ WakeRadio(r) /\ since' = t
         /\ history' = [history EXCEPT !.tried = FALSE] /\ UNCHANGED <<scan, learned>>
      \/ /\ radio' = r /\ since' = t
         /\ history' = [history EXCEPT !.tried = FALSE] /\ UNCHANGED <<wifi, scan, learned>>
      \/ /\ radio' = Ready(r) /\ wifi' = [wifi EXCEPT !.on = TRUE] /\ scan' = Started(why)
         /\ since' = [t EXCEPT ![why] = 0]
         /\ learned' = IF why = "learn" THEN [learned EXCEPT !.at = gps.place] ELSE learned
         /\ history' = [tried |-> TRUE, suspended |-> FALSE, smear |-> 0]
      \/ /\ GiveBack(Ready(r), NoScan) /\ since' = t
         /\ history' = [history EXCEPT !.tried = TRUE] /\ UNCHANGED <<scan, learned>>
    BY DEF StartScan
<1>3. t \in Stopwatches /\ r \in Radios
    BY <1>1, LostClockIs, RadioAtIs
<1>4. why \in {"learn", "locate"} /\ (why = "learn" => gps.place \in Places)
    BY <1>1, FineIsSomewhere DEF WantsLearn
<1> HIDE DEF t, r, why
<1>5. Ready(r) \in Radios
    BY <1>3, WifiNames, WifiNumbers, RadioIs DEF Ready
<1>6. CASE history' \in Histories /\ history'.smear = history.smear
           /\ history'.suspended = history.suspended /\ since' = t
           /\ radio' \in Radios /\ wifi' \in WifiStates /\ UNCHANGED <<scan, learned>>
    BY <1>1, <1>3, <1>6 DEF WifiInv, WifiTyped, AgeBounded, LearnedNearby
<1>7. \A b \in BOOLEAN : history' = [history EXCEPT !.tried = b] =>
         /\ history' \in Histories /\ history'.smear = history.smear
         /\ history'.suspended = history.suspended
    BY <1>1, HistoryKept
<1>8. ASSUME WakeRadio(r), since' = t, history' = [history EXCEPT !.tried = FALSE],
             UNCHANGED <<scan, learned>>
      PROVE  WifiInv'
  <2>1. radio' \in Radios /\ wifi' \in WifiStates
    BY <1>1, <1>8, RadioIs, WifiNames, WifiNumbers DEF WakeRadio, WifiStates
  <2> QED BY <1>6, <1>7, <1>8, <2>1
<1>9. ASSUME radio' = r, since' = t, history' = [history EXCEPT !.tried = FALSE],
             UNCHANGED <<wifi, scan, learned>>
      PROVE  WifiInv'
    BY <1>1, <1>3, <1>6, <1>7, <1>9
<1>10. ASSUME radio' = Ready(r), wifi' = [wifi EXCEPT !.on = TRUE], scan' = Started(why),
              since' = [t EXCEPT ![why] = 0],
              learned' = IF why = "learn" THEN [learned EXCEPT !.at = gps.place] ELSE learned,
              history' = [tried |-> TRUE, suspended |-> FALSE, smear |-> 0]
       PROVE  WifiInv'
  <2>1. wifi' \in WifiStates
    BY <1>1, <1>10 DEF WifiStates
  <2>2. since' \in Stopwatches
    BY <1>3, <1>4, <1>10, WifiNumbers DEF Stopwatches, Timer
  <2>3. learned' \in LearnedStates
    BY <1>1, <1>4, <1>10 DEF LearnedStates, LearnedPlaces
  <2>4. history' \in Histories /\ history'.smear = 0
    BY <1>10 DEF Histories
  <2> DEFINE from == IF why = "learn" THEN gps.place ELSE NoPlace
  <2>5. from \in LearnedPlaces
    BY <1>4 DEF LearnedPlaces
  <2>6. scan' = [why |-> why, result |-> "running", age |-> 0, from |-> from]
    BY <1>10 DEF Started
  <2> HIDE DEF from
  <2>7. scan' \in Scans /\ scan'.age = 0
    BY <1>4, <2>5, <2>6, WifiNames, WifiNumbers DEF Scans
  <2>8. 0 =< LEARN_SPEED * (SCAN_TIMEOUT + 1) + LEARN_SLACK
    BY ReachIsNatural
  <2> QED BY <1>1, <1>5, <1>10, <2>1, <2>2, <2>3, <2>4, <2>7, <2>8, WifiNumbers
          DEF WifiInv, WifiTyped, AgeBounded, LearnedNearby
<1>11. ASSUME GiveBack(Ready(r), NoScan), since' = t, history' = [history EXCEPT !.tried = TRUE],
              UNCHANGED <<scan, learned>>
       PROVE  WifiInv'
  <2>1. radio' \in Radios /\ wifi' \in WifiStates
    BY <1>1, <1>5, <1>11, GiveBackIs
  <2> QED BY <1>6, <1>7, <1>11, <2>1
<1> QED BY <1>2, <1>8, <1>9, <1>10, <1>11

LEMMA NothingWantedKeeps ==
    ASSUME WifiInv, NEW elapsed \in 0 .. 1, NothingWanted(elapsed), UNCHANGED <<gps, enabled>>
    PROVE  WifiInv'
<1> DEFINE r == RadioAt(elapsed)
<1>1. /\ gps \in GpsFixes /\ wifi \in WifiStates /\ radio \in Radios /\ since \in Stopwatches
      /\ history \in Histories /\ elapsed \in Nat
    BY DEF WifiInv, WifiTyped
<1>2. /\ since' = [SinceAt(elapsed) EXCEPT !.lost = LostClock(SinceAt(elapsed))]
      /\ history' = [history EXCEPT !.tried = FALSE]
      /\ GiveBack(r, NoScan) /\ UNCHANGED <<scan, learned>>
    BY DEF NothingWanted
<1>3. since' \in Stopwatches /\ r \in Radios
    BY <1>1, <1>2, LostClockIs, RadioAtIs
<1> HIDE DEF r
<1>4. radio' \in Radios /\ wifi' \in WifiStates
    BY <1>1, <1>2, <1>3, GiveBackIs
<1>5. /\ history' \in Histories /\ history'.smear = history.smear
      /\ history'.suspended = history.suspended
    BY <1>1, <1>2, HistoryKept
<1> QED BY <1>1, <1>2, <1>3, <1>4, <1>5 DEF WifiInv, WifiTyped, AgeBounded, LearnedNearby

LEMMA WifiStep == WifiInv /\ [WifiLocNext]_wifiLocVars => WifiInv'
<1> SUFFICES ASSUME WifiInv, [WifiLocNext]_wifiLocVars PROVE WifiInv'
    OBVIOUS
<1>1. /\ gps \in GpsFixes /\ wifi \in WifiStates /\ radio \in Radios /\ scan \in Scans
      /\ since \in Stopwatches /\ learned \in LearnedStates /\ history \in Histories
      /\ enabled \in BOOLEAN /\ AgeBounded(scan, history) /\ LearnedNearby
    BY DEF WifiInv, WifiTyped
<1>2. CASE UNCHANGED wifiLocVars
    BY <1>1, <1>2 DEF wifiLocVars, WifiInv, WifiTyped, AgeBounded, LearnedNearby
<1>3. ASSUME NEW elapsed \in 0 .. 1, Poll(elapsed)
      PROVE  WifiInv'
    BY <1>3, UseResultKeeps, AwaitScanKeeps, StartScanKeeps, NothingWantedKeeps DEF Poll
<1>4. \A b \in BOOLEAN : history' = [history EXCEPT !.tried = b] =>
         /\ history' \in Histories /\ history'.smear = history.smear
         /\ history'.suspended = history.suspended
    BY <1>1, HistoryKept
<1>5. 0 =< LEARN_SPEED * (SCAN_TIMEOUT + 1) + LEARN_SLACK
    BY ReachIsNatural
<1>6. CASE PassUnpolled
  <2> DEFINE suspended == scan.why # "none"
  <2>1. /\ radio' = RadioAt(1) /\ scan' = ScanAt(1) /\ since' = SinceAt(1)
        /\ history' = [tried |-> FALSE, suspended |-> suspended, smear |-> 0]
        /\ UNCHANGED <<gps, wifi, learned, enabled>>
    BY <1>6 DEF PassUnpolled
  <2>2. suspended \in BOOLEAN /\ (suspended <=> scan.why # "none")
    OBVIOUS
  <2> HIDE DEF suspended
  <2>3. history' \in Histories /\ history'.suspended = suspended /\ history'.smear = 0
    BY <2>1, <2>2 DEF Histories
  <2>4. radio' \in Radios /\ scan' \in Scans /\ scan'.why = scan.why /\ since' \in Stopwatches
    BY <1>1, <2>1, RadioAtIs, ScanAtIs, SinceAtIs
  <2> QED BY <1>1, <1>5, <2>1, <2>2, <2>3, <2>4 DEF WifiInv, WifiTyped, AgeBounded, LearnedNearby
<1>7. CASE SetEnabled
  <2>1. /\ enabled' \in BOOLEAN /\ history' = [history EXCEPT !.tried = FALSE]
        /\ UNCHANGED <<gps, wifi, radio, scan, since, learned>>
    BY <1>7 DEF SetEnabled
  <2> QED BY <1>1, <1>4, <2>1 DEF WifiInv, WifiTyped, AgeBounded, LearnedNearby
<1>8. CASE Portal
  <2>1. PICK joined \in BOOLEAN, result \in {"running", "done", "failed"} :
           /\ wifi' = [wifi EXCEPT !.on = joined, !.associated = joined]
           /\ radio' = RadioAt(PORTAL_TIME)
           /\ since' = SinceAt(PORTAL_TIME)
           /\ scan' = IF scan.why = "none" THEN NoScan
                      ELSE [ScanAt(PORTAL_TIME) EXCEPT !.result = result]
           /\ history' = [tried |-> FALSE, suspended |-> scan.why # "none", smear |-> 0]
           /\ UNCHANGED <<gps, learned, enabled>>
    BY <1>8 DEF Portal
  <2>2. radio' \in Radios /\ since' \in Stopwatches
    BY <1>1, <2>1, RadioAtIs, SinceAtIs, WifiNumbers
  <2>3. wifi' \in WifiStates
    <3>1. wifi' = [[wifi EXCEPT !.on = joined] EXCEPT !.associated = joined]
      BY <1>1, <2>1 DEF WifiStates
    <3> QED BY <1>1, <3>1 DEF WifiStates
  <2>4. scan' \in Scans /\ (scan'.why # "none" => scan.why # "none")
    <3>1. CASE scan.why = "none"
      BY <2>1, <3>1, NoScanIs
    <3>2. CASE scan.why # "none"
      <4> DEFINE s == ScanAt(PORTAL_TIME)
      <4>1. s \in Scans
        BY <1>1, ScanAtIs, WifiNumbers
      <4>2. scan' = [s EXCEPT !.result = result]
        BY <2>1, <3>2
      <4> HIDE DEF s
      <4> QED BY <3>2, <4>1, <4>2, WifiNames DEF Scans
    <3> QED BY <3>1, <3>2
  <2> DEFINE suspended == scan.why # "none"
  <2>5. history' = [tried |-> FALSE, suspended |-> suspended, smear |-> 0]
    BY <2>1
  <2>6. suspended \in BOOLEAN /\ (suspended <=> scan.why # "none")
    OBVIOUS
  <2> HIDE DEF suspended
  <2>7. history' \in Histories /\ history'.suspended = suspended /\ history'.smear = 0
    BY <2>5, <2>6 DEF Histories
  <2> QED BY <1>1, <1>5, <2>1, <2>2, <2>3, <2>4, <2>6, <2>7
          DEF WifiInv, WifiTyped, AgeBounded, LearnedNearby
<1>9. ASSUME NEW result \in {"done", "failed"}, ScanEnds(result)
      PROVE  WifiInv'
  <2>1. /\ scan' = [scan EXCEPT !.result = result] /\ history' = [history EXCEPT !.tried = FALSE]
        /\ UNCHANGED <<gps, wifi, radio, since, learned, enabled>>
    BY <1>9 DEF ScanEnds
  <2>2. scan' \in Scans /\ scan'.why = scan.why /\ scan'.age = scan.age
    BY <1>1, <2>1, WifiNames DEF Scans
  <2> QED BY <1>1, <1>4, <2>1, <2>2 DEF WifiInv, WifiTyped, AgeBounded, LearnedNearby
<1>10. CASE FixChanges
  <2>1. /\ gps' \in GpsFixes /\ history' = [history EXCEPT !.tried = FALSE, !.smear = 0]
        /\ UNCHANGED <<wifi, radio, scan, since, learned, enabled>>
    BY <1>10 DEF FixChanges
  <2>2. /\ history' = [tried |-> FALSE, suspended |-> history.suspended, smear |-> 0]
        /\ history.suspended \in BOOLEAN
    BY <1>1, <2>1, HistoryExcept DEF Histories
  <2>3. /\ history' \in Histories /\ history'.smear = 0
        /\ history'.suspended = history.suspended
    BY <2>2 DEF Histories
  <2> QED BY <1>1, <1>5, <2>1, <2>3 DEF WifiInv, WifiTyped, AgeBounded, LearnedNearby
<1>11. CASE WifiChanges
  <2>1. /\ wifi' \in [on : {wifi.on}, associated : BOOLEAN, prefetch : BOOLEAN]
        /\ history' = [history EXCEPT !.tried = FALSE]
        /\ UNCHANGED <<gps, radio, scan, since, learned, enabled>>
    BY <1>11 DEF WifiChanges
  <2>2. wifi' \in WifiStates
    BY <1>1, <2>1 DEF WifiStates
  <2> QED BY <1>1, <1>4, <2>1, <2>2 DEF WifiInv, WifiTyped, AgeBounded, LearnedNearby
<1> QED
    BY <1>2, <1>3, <1>6, <1>7, <1>8, <1>9, <1>10, <1>11 DEF WifiLocNext

LEMMA WifiStarts == WifiLocInit => WifiInv
<1> SUFFICES ASSUME WifiLocInit PROVE WifiInv
    OBVIOUS
<1>1. gps \in GpsFixes
    BY DEF WifiLocInit, GpsFixes
<1>2. wifi \in WifiStates /\ learned \in LearnedStates /\ enabled \in BOOLEAN
    BY WifiNumbers DEF WifiLocInit, WifiStates, LearnedStates
<1>3. radio \in Radios
    BY WifiNumbers, WifiNames, RadioIs DEF WifiLocInit
<1>4. scan \in Scans /\ scan.why = "none"
    BY NoScanIs DEF WifiLocInit
<1>5. since \in Stopwatches
  <2>1. since = [learn |-> 0, locate |-> Never, lost |-> Never]
    BY DEF WifiLocInit
  <2>2. 0 \in Timer /\ Never \in Timer
    BY WifiNumbers DEF Timer
  <2> QED BY <2>1, <2>2 DEF Stopwatches, Timers
<1>6. history \in Histories /\ history.smear = 0
    BY DEF WifiLocInit, Histories
<1>7. 0 =< LEARN_SPEED * (SCAN_TIMEOUT + 1) + LEARN_SLACK
    BY ReachIsNatural
<1> QED BY <1>1, <1>2, <1>3, <1>4, <1>5, <1>6, <1>7
        DEF WifiInv, WifiTyped, AgeBounded, LearnedNearby

LEMMA WifiInvImplies == WifiInv => WifiLocTypeOK /\ LearnedNearby
<1> SUFFICES ASSUME WifiInv PROVE WifiLocTypeOK /\ LearnedNearby
    OBVIOUS
<1>1. scan.why \in ScanReasons /\ scan.result \in ScanResults
    BY ScanFields DEF WifiInv, WifiTyped
<1> QED
    BY <1>1 DEF WifiInv, WifiTyped, WifiLocTypeOK, WifiStates, Radios, RadioNames, Clock,
       Stopwatches, Timers, Timer, LearnedStates, LearnedPlaces, ScanReasons, ScanResults

(* What is learned is learned near where it was heard, however polls, the   *)
(* driver's scans, the portal and the fix interleave: a scan that polls     *)
(* have watched is given up before a device slow enough to learn can be     *)
(* further away, but for the slack the check allows (wifiloc.cpp:647-660).  *)
THEOREM LearningStaysNear == WifiLocSpec => [](WifiLocTypeOK /\ LearnedNearby)
BY WifiInvImplies, WifiStarts, WifiStep, PTL DEF WifiLocSpec

-----------------------------------------------------------------------------
(***************************************************************************)
(* ViewFollow                                                               *)
(***************************************************************************)
(* The canvas need not move along this axis: the point is within half a     *)
(* tile of its middle.                                                      *)
Level(p, c, a) == -TILE =< 2 * FromMiddle(p, c, a) /\ 2 * FromMiddle(p, c, a) < TILE
(* The point is in the band of a screen at v, and the canvas fills it.      *)
Filled(v, p, c, a) ==
    /\ p[a] - v \in Margin[a] .. Screen[a] - Margin[a]
    /\ c[a] * TILE =< v /\ v =< (c[a] + GRID_N) * TILE - Screen[a]
(* What one pass leaves: at most one more shift is due, and then the view   *)
(* is where that shift does not cut it off.                                 *)
Near(p, c, v, a) ==
    \/ Level(p, c, a)
    \/ /\ v.set /\ 2 * FromMiddle(p, c, a) = TILE
       /\ \/ v.at[a] =< (c[a] + 1) * TILE - Screen[a]
          \/ v.at[a] = p[a] - Screen[a] \div 2
LEMMA Sizes ==
    ASSUME NEW a \in Axes
    PROVE /\ TILE \in Nat \ {0}
          /\ Screen[a] \in Nat /\ Margin[a] \in Nat
          /\ 3 * Margin[a] =< Screen[a] /\ Screen[a] < 3 * Margin[a] + 3
          /\ Screen[a] \div 2 \in Nat
          /\ 2 * (Screen[a] \div 2) =< Screen[a] /\ Screen[a] =< 2 * (Screen[a] \div 2) + 1
<1>1. Screen[a] \in Nat BY ViewAssumption DEF Screen, Axes
<1>2. Margin[a] = Screen[a] \div 3 BY DEF Margin
<1>3. ASSUME NEW s \in Nat
      PROVE /\ s \div 3 \in Nat /\ 3 * (s \div 3) =< s /\ s < 3 * (s \div 3) + 3
            /\ s \div 2 \in Nat /\ 2 * (s \div 2) =< s /\ s =< 2 * (s \div 2) + 1
      OBVIOUS
<1> QED BY <1>1, <1>2, <1>3, ViewAssumption

LEMMA Middle ==
    ASSUME NEW p \in [Axes -> Int], NEW c \in [Axes -> Int], NEW a \in Axes
    PROVE /\ p[a] \in Int /\ c[a] \in Int /\ c[a] * TILE \in Int
          /\ FromMiddle(p, c, a) = p[a] - c[a] * TILE - TILE
          /\ FromMiddle(p, c, a) \in Int
<1>1. TILE \in Int /\ p[a] \in Int /\ c[a] \in Int BY ViewAssumption
<1>2. c[a] * TILE \in Int BY <1>1
<1>3. (GRID_N * TILE) \div 2 = TILE BY <1>1 DEF GRID_N
<1> QED BY <1>1, <1>2, <1>3 DEF FromMiddle

LEMMA Multiples ==
    ASSUME NEW c \in Int, NEW t \in Int
    PROVE (c + 1) * t = c * t + t /\ (c + 2) * t = c * t + 2 * t /\ (c + (-1)) * t = c * t - t
OBVIOUS

(* Stepping over and clamping to the canvas put a view into the band.       *)
LEMMA InBand ==
    ASSUME NEW t \in Nat \ {0}, NEW s \in Nat, NEW m \in Nat, s =< t, 3 * m =< s,
           NEW p \in Int, NEW v \in Int, NEW x \in Int,
           2 * x + t =< 2 * p, 2 * p < 2 * x + 3 * t,
           NEW w \in Int, w = IF v < p - (s - m) THEN p - m
                              ELSE IF v > p - m THEN p - (s - m) ELSE v,
           NEW z \in Int, z = Between(w, x, x + 2 * t - s)
    PROVE p - z \in m .. s - m /\ x =< z /\ z =< x + 2 * t - s
BY DEF Between

(* A canvas laid anew is centred as well as whole tiles allow.              *)
LEMMA OriginIsLevel ==
    ASSUME NEW p \in [Axes -> Int]
    PROVE OriginFor(p) \in [Axes -> Int] /\ \A a \in Axes : Level(p, OriginFor(p), a)
<1> DEFINE q(a) == 2 * p[a] - GRID_N * TILE + TILE
<1>1. \A a \in Axes : p[a] \in Int /\ q(a) \in Int /\ q(a) = 2 * p[a] - TILE
      BY ViewAssumption DEF GRID_N
<1>2. TILE \in Nat \ {0} /\ 2 * TILE \in Nat \ {0} BY ViewAssumption
<1>3. ASSUME NEW u \in Int, NEW w \in Nat \ {0}
      PROVE u \div w \in Int /\ (u \div w) * w =< u /\ u < (u \div w) * w + w
      OBVIOUS
<1>4. OriginFor(p) = [a \in Axes |-> q(a) \div (2 * TILE)] BY DEF OriginFor
<1>5. OriginFor(p) \in [Axes -> Int] BY <1>1, <1>2, <1>3, <1>4
<1>6. ASSUME NEW a \in Axes PROVE Level(p, OriginFor(p), a)
  <2> DEFINE c == OriginFor(p)[a]
  <2>1. c = q(a) \div (2 * TILE) BY <1>4
  <2>2. c \in Int /\ c * (2 * TILE) =< q(a) /\ q(a) < c * (2 * TILE) + 2 * TILE
        BY <1>1, <1>2, <1>3, <2>1
  <2>3. c * TILE \in Int /\ c * (2 * TILE) = 2 * (c * TILE)
    <3> HIDE DEF c
    <3> QED BY <2>2, <1>2
  <2>4. FromMiddle(p, OriginFor(p), a) = p[a] - c * TILE - TILE BY <1>5, Middle
  <2> HIDE DEF c, q
  <2> QED BY <2>2, <2>3, <2>4, <1>1, <1>2 DEF Level
<1> QED BY <1>5, <1>6
Views == [set : BOOLEAN, at : [Axes -> Int]]

LEMMA FollowedType ==
    ASSUME NEW v \in Views, NEW p \in [Axes -> Int], NEW c \in [Axes -> Int]
    PROVE /\ Followed(v, p, c) \in Views /\ Followed(v, p, c).set
          /\ \A a \in Axes :
               Followed(v, p, c).at[a] =
                 IF v.set THEN Between(SteppedOver(v.at[a], p, a), c[a] * TILE,
                                       c[a] * TILE + 2 * TILE - Screen[a])
                 ELSE p[a] - Screen[a] \div 2
<1> DEFINE f == [a \in Axes |->
                   IF v.set THEN OnCanvas(SteppedOver(v.at[a], p, a), c, a)
                   ELSE p[a] - Screen[a] \div 2]
<1>1. Followed(v, p, c) = [set |-> TRUE, at |-> f] BY DEF Followed
<1>2. ASSUME NEW a \in Axes
      PROVE /\ f[a] \in Int
            /\ f[a] = IF v.set THEN Between(SteppedOver(v.at[a], p, a), c[a] * TILE,
                                            c[a] * TILE + 2 * TILE - Screen[a])
                      ELSE p[a] - Screen[a] \div 2
  <2>1. TILE \in Int /\ Screen[a] \in Int /\ Margin[a] \in Int /\ Screen[a] \div 2 \in Int
        BY Sizes
  <2>2. p[a] \in Int /\ c[a] \in Int /\ c[a] * TILE \in Int BY Middle
  <2>3. (c[a] + GRID_N) * TILE = c[a] * TILE + 2 * TILE
        BY <2>1, <2>2, Multiples DEF GRID_N
  <2>4. v.at[a] \in Int BY DEF Views
  <2>5. SteppedOver(v.at[a], p, a) \in Int BY <2>1, <2>2, <2>4 DEF SteppedOver
  <2>6. OnCanvas(SteppedOver(v.at[a], p, a), c, a)
          = Between(SteppedOver(v.at[a], p, a), c[a] * TILE, c[a] * TILE + 2 * TILE - Screen[a])
    <3> DEFINE w == SteppedOver(v.at[a], p, a)
               x == (c[a] + GRID_N) * TILE
               y == c[a] * TILE
    <3>1. x \in Int /\ y \in Int /\ w \in Int /\ x = y + 2 * TILE
          BY <2>1, <2>2, <2>3, <2>5
    <3>2. OnCanvas(w, c, a) = Between(w, y, x - Screen[a]) BY Zenon DEF OnCanvas
    <3> HIDE DEF w, x, y
    <3>3. x - Screen[a] = y + 2 * TILE - Screen[a] BY <3>1, <2>1
    <3>4. OnCanvas(w, c, a) = Between(w, y, y + 2 * TILE - Screen[a]) BY <3>2, <3>3
    <3> QED BY <3>4 DEF w, y
  <2>7. f[a] = IF v.set THEN OnCanvas(SteppedOver(v.at[a], p, a), c, a)
               ELSE p[a] - Screen[a] \div 2
        OBVIOUS
  <2>8. Between(SteppedOver(v.at[a], p, a), c[a] * TILE, c[a] * TILE + 2 * TILE - Screen[a])
          \in Int
        BY <2>1, <2>2, <2>5 DEF Between
  <2>9. p[a] - Screen[a] \div 2 \in Int BY <2>1, <2>2
  <2> HIDE DEF f
  <2> QED BY <2>6, <2>7, <2>8, <2>9
<1>3. f \in [Axes -> Int] BY <1>2
<1> HIDE DEF f
<1>4. Followed(v, p, c).at = f /\ Followed(v, p, c).set BY <1>1
<1> QED BY <1>1, <1>2, <1>3, <1>4 DEF Views

LEMMA DriftIs ==
    ASSUME NEW p \in [Axes -> Int], NEW c \in [Axes -> Int], NEW a \in Axes
    PROVE /\ Drift(p, c)[a] \in -1 .. 1
          /\ Drift(p, c)[a] = -1 <=> 2 * FromMiddle(p, c, a) < -TILE
          /\ Drift(p, c)[a] = 1 <=> 2 * FromMiddle(p, c, a) >= TILE
          /\ Drift(p, c)[a] = 0 <=> Level(p, c, a)
<1>1. FromMiddle(p, c, a) \in Int /\ TILE \in Nat \ {0} BY Middle, Sizes
<1>2. Drift(p, c)[a] = IF 2 * FromMiddle(p, c, a) < -TILE THEN -1
                       ELSE IF 2 * FromMiddle(p, c, a) >= TILE THEN 1 ELSE 0
      BY DEF Drift
<1> QED BY <1>1, <1>2 DEF Level

LEMMA DriftedIs ==
    ASSUME NEW p \in [Axes -> Int], NEW c \in [Axes -> Int]
    PROVE Drifted(p, c) <=> \E a \in Axes : ~Level(p, c, a)
BY DriftIs DEF Drifted

LEMMA CarriedIs ==
    ASSUME NEW p \in [Axes -> Int], NEW c \in [Axes -> Int]
    PROVE LET e == [a \in Axes |-> c[a] + Drift(p, c)[a]]
          IN  /\ e \in [Axes -> Int]
              /\ \A a \in Axes :
                   /\ e[a] * TILE = c[a] * TILE + (IF Drift(p, c)[a] = 1 THEN TILE
                                                 ELSE IF Drift(p, c)[a] = -1 THEN -TILE ELSE 0)
                   /\ FromMiddle(p, e, a) = FromMiddle(p, c, a)
                        - (IF Drift(p, c)[a] = 1 THEN TILE
                           ELSE IF Drift(p, c)[a] = -1 THEN -TILE ELSE 0)
<1> DEFINE e == [a \in Axes |-> c[a] + Drift(p, c)[a]]
<1>1. \A a \in Axes : e[a] = c[a] + Drift(p, c)[a] /\ e[a] \in Int BY Middle, DriftIs
<1>2. e \in [Axes -> Int] BY <1>1
<1> HIDE DEF e
<1>3. ASSUME NEW a \in Axes
      PROVE e[a] * TILE = c[a] * TILE + (IF Drift(p, c)[a] = 1 THEN TILE
                                         ELSE IF Drift(p, c)[a] = -1 THEN -TILE ELSE 0)
  <2>1. c[a] \in Int /\ TILE \in Int /\ c[a] * TILE \in Int BY Middle, Sizes
  <2>2. CASE Drift(p, c)[a] = 1
    <3>1. e[a] = c[a] + 1 BY <1>1, <2>2
    <3> QED BY <3>1, <2>1, <2>2, Multiples
  <2>3. CASE Drift(p, c)[a] = -1
    <3>1. e[a] = c[a] + (-1) BY <1>1, <2>3
    <3>2. e[a] * TILE = c[a] * TILE - TILE BY <3>1, <2>1, Multiples
    <3> QED BY <3>2, <2>1, <2>3
  <2>4. CASE Drift(p, c)[a] = 0 BY <1>1, <2>1, <2>4
  <2> QED BY <2>2, <2>3, <2>4, DriftIs
<1>4. ASSUME NEW a \in Axes
      PROVE FromMiddle(p, e, a) = FromMiddle(p, c, a)
                        - (IF Drift(p, c)[a] = 1 THEN TILE
                           ELSE IF Drift(p, c)[a] = -1 THEN -TILE ELSE 0)
  <2>1. /\ p[a] \in Int /\ c[a] * TILE \in Int /\ e[a] * TILE \in Int /\ TILE \in Int
        /\ FromMiddle(p, c, a) = p[a] - c[a] * TILE - TILE
        /\ FromMiddle(p, e, a) = p[a] - e[a] * TILE - TILE
        BY <1>2, Middle, Sizes
  <2> QED BY <2>1, <1>3
<1> QED BY <1>2, <1>3, <1>4 DEF e

LEMMA RefittedType ==
    ASSUME NEW p \in [Axes -> Int], NEW w \in Views, view \in Views, corner \in [Axes -> Int],
           Refitted(p, w)
    PROVE view' \in Views /\ corner' \in [Axes -> Int]
<1>1. CASE ~Drifted(p, corner) BY <1>1, FollowedType DEF Refitted
<1>2. CASE Drifted(p, corner) /\ Jumped(p, corner) BY <1>2, OriginIsLevel DEF Refitted
<1>3. CASE Drifted(p, corner) /\ ~Jumped(p, corner)
  <2> DEFINE e == [a \in Axes |-> corner[a] + Drift(p, corner)[a]]
  <2>1. view' = Followed(view, p, corner) /\ corner' = e BY <1>3 DEF Refitted
  <2>2. e \in [Axes -> Int] BY CarriedIs
  <2> HIDE DEF e
  <2>3. Followed(view, p, corner) \in Views BY FollowedType
  <2> QED BY <2>1, <2>2, <2>3
<1> QED BY <1>1, <1>2, <1>3

(* A tile is no smaller than the screen: SUBTILE_PX is the longer side of   *)
(* the panel (mapconfig.h:24).                                              *)
SmallScreen == SCREEN_W =< TILE /\ SCREEN_H =< TILE

LEMMA SmallSizes ==
    ASSUME SmallScreen, NEW a \in Axes
    PROVE Screen[a] =< TILE
BY DEF SmallScreen, Screen, Axes

LEMMA JumpedIs ==
    ASSUME NEW p \in [Axes -> Int], NEW c \in [Axes -> Int]
    PROVE Jumped(p, c) <=> \E a \in Axes : \/ 2 * FromMiddle(p, c, a) < -3 * TILE
                                           \/ 2 * FromMiddle(p, c, a) > 3 * TILE
<1>1. ASSUME NEW a \in Axes
      PROVE 2 * FromMiddle(p, c, a) \notin -3 * TILE .. 3 * TILE
              <=> \/ 2 * FromMiddle(p, c, a) < -3 * TILE
                  \/ 2 * FromMiddle(p, c, a) > 3 * TILE
  <2>1. FromMiddle(p, c, a) \in Int /\ TILE \in Int BY Middle, Sizes
  <2> QED BY <2>1
<1> QED BY <1>1 DEF Jumped

(* After one pass from anywhere.                                            *)
LEMMA FirstPass ==
    ASSUME SmallScreen,
           NEW p \in [Axes -> Int], view \in Views, corner \in [Axes -> Int],
           Refitted(p, NoView)
    PROVE \A a \in Axes : Near(p, corner', view', a)
<1>1. CASE ~Drifted(p, corner) BY <1>1, DriftedIs DEF Refitted, Near
<1>2. CASE Drifted(p, corner) /\ Jumped(p, corner) BY <1>2, OriginIsLevel DEF Refitted, Near
<1>3. CASE Drifted(p, corner) /\ ~Jumped(p, corner)
  <2> DEFINE e == [a \in Axes |-> corner[a] + Drift(p, corner)[a]]
  <2>1. view' = Followed(view, p, corner) /\ corner' = e BY <1>3 DEF Refitted
  <2>2. SUFFICES ASSUME NEW a \in Axes PROVE Near(p, e, view', a) BY <2>1
  <2>3. view'.set
        /\ view'.at[a] = IF view.set
                         THEN Between(SteppedOver(view.at[a], p, a), corner[a] * TILE,
                                      corner[a] * TILE + 2 * TILE - Screen[a])
                         ELSE p[a] - Screen[a] \div 2
        BY <2>1, FollowedType
  <2>4. /\ e \in [Axes -> Int]
        /\ e[a] * TILE = corner[a] * TILE + (IF Drift(p, corner)[a] = 1 THEN TILE
                              ELSE IF Drift(p, corner)[a] = -1 THEN -TILE ELSE 0)
        /\ FromMiddle(p, e, a) = FromMiddle(p, corner, a)
                 - (IF Drift(p, corner)[a] = 1 THEN TILE
                    ELSE IF Drift(p, corner)[a] = -1 THEN -TILE ELSE 0)
        BY CarriedIs
  <2>5. /\ TILE \in Nat \ {0} /\ Screen[a] \in Nat /\ Margin[a] \in Nat
        /\ Screen[a] \div 2 \in Nat /\ p[a] \in Int
        /\ corner[a] * TILE \in Int /\ FromMiddle(p, corner, a) \in Int
        BY Sizes, Middle
  <2>6. e[a] \in Int /\ (e[a] + 1) * TILE = e[a] * TILE + TILE BY <2>4, <2>5, Multiples
  <2>7. -3 * TILE =< 2 * FromMiddle(p, corner, a) /\ 2 * FromMiddle(p, corner, a) =< 3 * TILE
        BY <1>3, <2>5, JumpedIs
  <2>8. /\ Drift(p, corner)[a] \in -1 .. 1
        /\ Drift(p, corner)[a] = -1 <=> 2 * FromMiddle(p, corner, a) < -TILE
        /\ Drift(p, corner)[a] = 1 <=> 2 * FromMiddle(p, corner, a) >= TILE
        /\ Drift(p, corner)[a] = 0 <=> Level(p, corner, a)
        BY DriftIs
  <2> HIDE DEF e
  <2>9. CASE Drift(p, corner)[a] = 0
    <3>1. FromMiddle(p, e, a) = FromMiddle(p, corner, a) BY <2>9, <2>4, <2>5
    <3> QED BY <3>1, <2>8, <2>9 DEF Near, Level
  <2>10. CASE Drift(p, corner)[a] = -1
    <3>1. FromMiddle(p, e, a) = FromMiddle(p, corner, a) + TILE BY <2>10, <2>4, <2>5
    <3>2. Level(p, e, a) BY <3>1, <2>5, <2>7, <2>8, <2>10 DEF Level
    <3> QED BY <3>2 DEF Near
  <2>11. CASE Drift(p, corner)[a] = 1
    <3>1. FromMiddle(p, e, a) = FromMiddle(p, corner, a) - TILE /\ e[a] * TILE = corner[a] * TILE + TILE
          BY <2>11, <2>4, <2>5
    <3>2. CASE 2 * FromMiddle(p, e, a) < TILE
      <4>1. Level(p, e, a) BY <3>1, <3>2, <2>5, <2>8, <2>11 DEF Level
      <4> QED BY <4>1 DEF Near
    <3>3. CASE 2 * FromMiddle(p, e, a) >= TILE
      <4>1. 2 * FromMiddle(p, e, a) = TILE
        <5>1. FromMiddle(p, e, a) \in Int BY <2>4, Middle
        <5>2. ASSUME NEW f \in Int, NEW g \in Int, g = f - TILE, 2 * f =< 3 * TILE, 2 * g >= TILE
              PROVE 2 * g = TILE
              BY <5>2, <2>5
        <5> QED BY <5>1, <5>2, <3>1, <3>3, <2>5, <2>7
      <4>2. CASE view.set
        <5>1. view'.at[a] = Between(SteppedOver(view.at[a], p, a), corner[a] * TILE,
                                    corner[a] * TILE + 2 * TILE - Screen[a])
              BY <2>3, <4>2
        <5>2. view.at[a] \in Int BY DEF Views
        <5>3. SteppedOver(view.at[a], p, a) \in Int BY <5>2, <2>5 DEF SteppedOver
        <5>4. view'.at[a] =< corner[a] * TILE + 2 * TILE - Screen[a]
              BY <5>1, <5>3, <2>5, SmallSizes DEF Between
        <5>5. view'.at[a] =< (e[a] + 1) * TILE - Screen[a]
          <6> DEFINE x == corner[a] * TILE
                     y == (e[a] + 1) * TILE
          <6>1. x \in Int /\ y = x + 2 * TILE BY <3>1, <2>5, <2>6
          <6>2. view'.at[a] =< x + 2 * TILE - Screen[a] BY <5>4
          <6> HIDE DEF x, y
          <6>3. view'.at[a] =< y - Screen[a] BY <6>1, <6>2, <2>5
          <6> QED BY <6>3 DEF y
        <5> QED BY <5>5, <4>1, <2>3, Zenon DEF Near
      <4>3. CASE ~view.set BY <4>1, <4>3, <2>3 DEF Near
      <4> QED BY <4>2, <4>3
    <3> QED BY <3>1, <3>2, <3>3, <2>5
  <2> QED BY <2>8, <2>9, <2>10, <2>11
<1> QED BY <1>1, <1>2, <1>3

LEMMA NearBounds ==
    ASSUME NEW p \in [Axes -> Int], NEW c \in [Axes -> Int], NEW v \in Views, NEW a \in Axes,
           Near(p, c, v, a)
    PROVE -3 * TILE =< 2 * FromMiddle(p, c, a) /\ 2 * FromMiddle(p, c, a) =< 3 * TILE
<1>1. FromMiddle(p, c, a) \in Int /\ TILE \in Nat \ {0} BY Middle, Sizes
<1>2. -TILE =< 2 * FromMiddle(p, c, a) /\ 2 * FromMiddle(p, c, a) =< TILE
      BY <1>1 DEF Near, Level
<1> QED BY <1>1, <1>2

(* A pass that has no shift to do, and the one that has the last.           *)
LEMMA FilledWhenLevel ==
    ASSUME SmallScreen, NEW p \in [Axes -> Int], NEW c \in [Axes -> Int], NEW v \in Views,
           NEW a \in Axes, Level(p, c, a)
    PROVE Filled(Followed(v, p, c).at[a], p, c, a)
<1> DEFINE x == c[a] * TILE
           z == Followed(v, p, c).at[a]
           w == SteppedOver(v.at[a], p, a)
<1>1. /\ TILE \in Nat \ {0} /\ Screen[a] \in Nat /\ Margin[a] \in Nat
      /\ 3 * Margin[a] =< Screen[a] /\ Screen[a] < 3 * Margin[a] + 3
      /\ Screen[a] \div 2 \in Nat /\ Screen[a] =< TILE
      /\ 2 * (Screen[a] \div 2) =< Screen[a] /\ Screen[a] =< 2 * (Screen[a] \div 2) + 1
      BY Sizes, SmallSizes
<1>2. p[a] \in Int /\ c[a] \in Int /\ x \in Int /\ FromMiddle(p, c, a) = p[a] - x - TILE
      BY Middle
<1>3. z = IF v.set THEN Between(w, x, x + 2 * TILE - Screen[a]) ELSE p[a] - Screen[a] \div 2
      BY FollowedType
<1>4. v.at[a] \in Int /\ z \in Int
      BY FollowedType DEF Views
<1>5. w = IF v.at[a] < p[a] - (Screen[a] - Margin[a]) THEN p[a] - Margin[a]
          ELSE IF v.at[a] > p[a] - Margin[a] THEN p[a] - (Screen[a] - Margin[a]) ELSE v.at[a]
      BY DEF SteppedOver
<1>6. (c[a] + GRID_N) * TILE = x + 2 * TILE BY <1>1, <1>2, Multiples DEF GRID_N
<1> HIDE DEF x, z, w
<1>7. 2 * x + TILE =< 2 * p[a] /\ 2 * p[a] < 2 * x + 3 * TILE
      BY <1>1, <1>2 DEF Level
<1>8. w \in Int BY <1>1, <1>2, <1>4, <1>5
<1>9. p[a] - z \in Margin[a] .. Screen[a] - Margin[a] /\ x =< z /\ z =< x + 2 * TILE - Screen[a]
  <2>1. CASE v.set
    <3>1. z = Between(w, x, x + 2 * TILE - Screen[a]) BY <1>3, <2>1
    <3> QED BY <3>1, <1>1, <1>2, <1>4, <1>5, <1>7, <1>8, InBand
  <2>2. CASE ~v.set
    <3>1. z = p[a] - Screen[a] \div 2 BY <1>3, <2>2
    <3> QED BY <3>1, <1>1, <1>2, <1>7
  <2> QED BY <2>1, <2>2
<1>10. z =< (c[a] + GRID_N) * TILE - Screen[a]
  <2> DEFINE y == (c[a] + GRID_N) * TILE
  <2>1. y = x + 2 * TILE BY <1>6
  <2> HIDE DEF y
  <2>2. z =< y - Screen[a] BY <2>1, <1>9, <1>1, <1>2
  <2> QED BY <2>2 DEF y
<1> QED BY <1>9, <1>10 DEF Filled, x, z

LEMMA FilledAfterShift ==
    ASSUME SmallScreen, NEW p \in [Axes -> Int], NEW c \in [Axes -> Int], NEW v \in Views,
           NEW a \in Axes, v.set, 2 * FromMiddle(p, c, a) = TILE,
           \/ v.at[a] =< (c[a] + 1) * TILE - Screen[a]
           \/ v.at[a] = p[a] - Screen[a] \div 2,
           NEW e \in [Axes -> Int], e[a] = c[a] + 1
    PROVE Level(p, e, a) /\ Filled(Followed(v, p, c).at[a], p, e, a)
<1> DEFINE x == c[a] * TILE
           z == Followed(v, p, c).at[a]
           w == SteppedOver(v.at[a], p, a)
           y == (e[a] + GRID_N) * TILE
           ex == e[a] * TILE
           h == Screen[a] \div 2
<1>1. /\ TILE \in Nat \ {0} /\ Screen[a] \in Nat /\ Margin[a] \in Nat
      /\ 3 * Margin[a] =< Screen[a] /\ Screen[a] < 3 * Margin[a] + 3
      /\ h \in Nat /\ Screen[a] =< TILE
      /\ 2 * h =< Screen[a] /\ Screen[a] =< 2 * h + 1
      BY Sizes, SmallSizes
<1>2. p[a] \in Int /\ c[a] \in Int /\ e[a] \in Int /\ x \in Int
      /\ FromMiddle(p, c, a) = p[a] - x - TILE
      /\ FromMiddle(p, e, a) = p[a] - ex - TILE
      BY Middle
<1>3. z = Between(w, x, x + 2 * TILE - Screen[a])
      BY FollowedType
<1>4. v.at[a] \in Int /\ z \in Int
      BY FollowedType DEF Views
<1>5. w = IF v.at[a] < p[a] - (Screen[a] - Margin[a]) THEN p[a] - Margin[a]
          ELSE IF v.at[a] > p[a] - Margin[a] THEN p[a] - (Screen[a] - Margin[a]) ELSE v.at[a]
      BY DEF SteppedOver
<1>6. ex = x + TILE BY <1>1, <1>2, Multiples
<1>7. y = ex + 2 * TILE BY <1>1, <1>2, Multiples DEF GRID_N
<1>8. v.at[a] =< x + TILE - Screen[a] \/ v.at[a] = p[a] - h
  <2>1. CASE v.at[a] = p[a] - Screen[a] \div 2 BY <2>1
  <2>2. CASE v.at[a] =< (c[a] + 1) * TILE - Screen[a]
    <3> DEFINE g == (c[a] + 1) * TILE
    <3>1. g = x + TILE /\ v.at[a] =< g - Screen[a] BY <2>2, <1>1, <1>2, Multiples
    <3> HIDE DEF g, x
    <3>2. v.at[a] =< x + TILE - Screen[a] BY <3>1, <1>1, <1>2, <1>4
    <3> QED BY <3>2
  <2> QED BY <2>1, <2>2
<1> HIDE DEF x, z, w, y, ex, h
<1>9. 2 * p[a] = 2 * x + 3 * TILE
  <2>1. ASSUME NEW q \in Int, NEW u \in Int, NEW t \in Int, NEW m \in Int,
               m = q - u - t, 2 * m = t
        PROVE 2 * q = 2 * u + 3 * t
    <3>1. 2 * m = 2 * q - 2 * u - 2 * t BY <2>1
    <3> QED BY <2>1, <3>1
  <2>2. FromMiddle(p, c, a) \in Int BY Middle
  <2> QED BY <1>1, <1>2, <2>1, <2>2
<1>10. w \in Int BY <1>1, <1>2, <1>4, <1>5
<1>11. /\ p[a] - z \in Margin[a] .. Screen[a] - Margin[a]
       /\ x + TILE =< z /\ z =< x + 2 * TILE - Screen[a]
  <2> DEFINE s == Screen[a]
             m == Margin[a]
             q == p[a]
             u == v.at[a]
  <2>1. /\ s \in Nat /\ m \in Nat /\ h \in Nat /\ s =< TILE /\ 3 * m =< s
        /\ 2 * h =< s /\ s =< 2 * h + 1 /\ s < 3 * m + 3
        BY <1>1
  <2>2. q \in Int /\ u \in Int /\ x \in Int /\ 2 * q = 2 * x + 3 * TILE
        BY <1>2, <1>4, <1>9
  <2>3. u =< x + TILE - s \/ u = q - h BY <1>8
  <2>4. w \in Int /\ w = IF u < q - (s - m) THEN q - m
                           ELSE IF u > q - m THEN q - (s - m) ELSE u
        BY <1>5, <1>10
  <2>5. z \in Int /\ z = Between(w, x, x + 2 * TILE - s) BY <1>3, <1>4
  <2>6. TILE \in Nat \ {0} BY <1>1
  <2> HIDE DEF s, m, q, u
  <2>7. q - z \in m .. s - m /\ x + TILE =< z /\ z =< x + 2 * TILE - s
    <3>1. CASE u =< x + TILE - s
      <4>1. u < q - (s - m) BY <3>1, <2>1, <2>2, <2>6
      <4>2. w = q - m BY <4>1, <2>4
      <4> QED BY <4>2, <2>1, <2>2, <2>5, <2>6 DEF Between
    <3>2. CASE u = q - h
      <4>1. m =< h /\ h =< s - m BY <2>1
      <4>2. w = q - h BY <4>1, <3>2, <2>1, <2>2, <2>4
      <4> QED BY <4>1, <4>2, <2>1, <2>2, <2>5, <2>6 DEF Between
    <3> QED BY <3>1, <3>2, <2>3
  <2> QED BY <2>7 DEF s, m, q
<1>12. Level(p, e, a) BY <1>1, <1>2, <1>6, <1>9 DEF Level
<1>13. ex =< z /\ z =< y - Screen[a] BY <1>1, <1>2, <1>4, <1>6, <1>7, <1>11
<1> QED BY <1>11, <1>12, <1>13 DEF Filled, z, y, ex

(* After a second pass, and after every further one.                        *)
LEMMA SecondPass ==
    ASSUME SmallScreen,
           NEW p \in [Axes -> Int], view \in Views, corner \in [Axes -> Int],
           \A a \in Axes : Near(p, corner, view, a),
           Refitted(p, NoView)
    PROVE view'.set
          /\ \A a \in Axes : Level(p, corner', a) /\ Filled(view'.at[a], p, corner', a)
<1>1. CASE ~Drifted(p, corner)
  <2>1. view' = Followed(view, p, corner) /\ corner' = corner BY <1>1 DEF Refitted
  <2> QED BY <2>1, <1>1, DriftedIs, FilledWhenLevel, FollowedType
<1>2. CASE Drifted(p, corner)
  <2> DEFINE e == [a \in Axes |-> corner[a] + Drift(p, corner)[a]]
  <2>1. ~Jumped(p, corner)
    <3>1. \A a \in Axes : FromMiddle(p, corner, a) \in Int /\ TILE \in Int BY Middle, Sizes
    <3>2. \A a \in Axes : ~(2 * FromMiddle(p, corner, a) < -3 * TILE
                            \/ 2 * FromMiddle(p, corner, a) > 3 * TILE)
          BY <3>1, NearBounds
    <3> QED BY <3>2, JumpedIs
  <2>2. view' = Followed(view, p, corner) /\ corner' = e BY <1>2, <2>1 DEF Refitted
  <2>3. ASSUME NEW a \in Axes
        PROVE Level(p, e, a) /\ Filled(Followed(view, p, corner).at[a], p, e, a)
    <3>1. e \in [Axes -> Int] /\ e[a] = corner[a] + Drift(p, corner)[a]
          BY CarriedIs
    <3>2. FromMiddle(p, corner, a) \in Int /\ TILE \in Nat \ {0} /\ corner[a] \in Int
          BY Middle, Sizes
    <3>3. CASE Level(p, corner, a)
      <4>1. Drift(p, corner)[a] = 0 BY <3>3, DriftIs
      <4> HIDE DEF e
      <4>2. e[a] = corner[a] BY <4>1, <3>1, <3>2
      <4>3. Filled(Followed(view, p, corner).at[a], p, corner, a) BY <3>3, FilledWhenLevel
      <4> QED BY <3>3, <4>2, <4>3 DEF Level, Filled, FromMiddle
    <3>4. CASE ~Level(p, corner, a)
      <4>1. /\ view.set /\ 2 * FromMiddle(p, corner, a) = TILE
            /\ \/ view.at[a] =< (corner[a] + 1) * TILE - Screen[a]
               \/ view.at[a] = p[a] - Screen[a] \div 2
            BY <3>4 DEF Near
      <4>2. Drift(p, corner)[a] = 1 BY <4>1, <3>2, DriftIs
      <4> HIDE DEF e
      <4>3. e[a] = corner[a] + 1 BY <4>2, <3>1
      <4> QED BY <3>1, <4>1, <4>3, FilledAfterShift
    <3> QED BY <3>3, <3>4
  <2> QED BY <2>2, <2>3, FollowedType
<1> QED BY <1>1, <1>2

ViewTypes ==
    /\ here \in [placed : BOOLEAN, at : [Axes -> Int]]
    /\ corner \in [Axes -> Int] /\ anchor \in [Axes -> Int]
    /\ view \in Views
    /\ marker \in [valid : BOOLEAN, at : [Axes -> Int]]
    /\ engine \in [centred : BOOLEAN, panning : BOOLEAN]
    /\ calm \in 0 .. 2

(* What is known of the view after no, one and two passes since the fix     *)
(* came to rest.                                                            *)
Settling ==
    /\ calm # 0 => here.placed /\ engine.centred /\ ~engine.panning
    /\ calm = 1 => \A a \in Axes : Near(here.at, corner, view, a)
    /\ calm = 2 => /\ view.set
                   /\ \A a \in Axes : /\ Level(here.at, corner, a)
                                      /\ Filled(view.at[a], here.at, corner, a)

LEMMA ViewConstants ==
    /\ Origin \in [Axes -> Int] /\ NoView \in Views /\ ~NoView.set
    /\ Points \subseteq [Axes -> Int]
<1>1. Origin = [a \in Axes |-> 0]
  <2>1. Origin \in [{"x", "y"} -> Int] BY DEF Origin
  <2> QED BY <2>1 DEF Axes, Origin
<1>2. Origin \in [Axes -> Int] BY <1>1
<1>3. NoView \in Views /\ ~NoView.set BY <1>2 DEF NoView, Views
<1>4. ASSUME NEW p \in Points PROVE p \in [Axes -> Int]
      BY ViewAssumption DEF Points, Axes
<1> QED BY <1>2, <1>3, <1>4

LEMMA FollowedNoView ==
    ASSUME NEW p \in [Axes -> Int]
    PROVE OriginFor(p) \in [Axes -> Int] /\ Followed(NoView, p, OriginFor(p)) \in Views
BY OriginIsLevel, FollowedType, ViewConstants

LEMMA ViewStartTypes == ViewInit => ViewTypes
BY ViewConstants DEF ViewInit, ViewTypes

LEMMA PanPoint ==
    ASSUME ViewTypes, NEW d \in [Axes -> -1 .. 1]
    PROVE [a \in Axes |-> PanFrom[a] + d[a] * PanBy[a]] \in [Axes -> Int]
<1>1. PanFrom \in [Axes -> Int] BY DEF PanFrom, ViewTypes
<1>2. ASSUME NEW a \in Axes PROVE PanFrom[a] + d[a] * PanBy[a] \in Int
  <2>1. PanFrom[a] \in Int /\ d[a] \in Int BY <1>1
  <2>2. PanBy[a] = Screen[a] - 2 * Margin[a] + (IF a = "x" THEN OVER ELSE 0) BY DEF PanBy
  <2>3. PanBy[a] \in Int BY <2>2, Sizes, ViewAssumption
  <2> QED BY <2>1, <2>3
<1> QED BY <1>2

LEMMA ViewStepTypes == ViewTypes /\ [ViewNext]_viewVars => ViewTypes'
<1> SUFFICES ASSUME ViewTypes, [ViewNext]_viewVars PROVE ViewTypes'
    OBVIOUS
<1>0. view \in Views /\ corner \in [Axes -> Int] /\ here.at \in [Axes -> Int]
      /\ marker.at \in [Axes -> Int]
      BY DEF ViewTypes
<1>1. CASE FixMoves
  <2>1. here' \in [placed : BOOLEAN, at : [Axes -> Int]]
    <3>1. ASSUME NEW p \in Points, here' = [placed |-> TRUE, at |-> p]
          PROVE here' \in [placed : BOOLEAN, at : [Axes -> Int]]
          BY <3>1, ViewConstants
    <3>2. ASSUME here' = [here EXCEPT !.placed = FALSE]
          PROVE here' \in [placed : BOOLEAN, at : [Axes -> Int]]
          BY <3>2 DEF ViewTypes
    <3> QED BY <1>1, <3>1, <3>2 DEF FixMoves
  <2> QED BY <1>1, <2>1 DEF FixMoves, ViewTypes
<1>2. CASE Seed
  <2>1. PICK p \in Points : /\ anchor' = p /\ marker' = [marker EXCEPT !.at = p]
                            /\ corner' = OriginFor(p)
                            /\ view' = Followed(NoView, p, OriginFor(p))
        BY <1>2 DEF Seed
  <2>2. p \in [Axes -> Int] BY ViewConstants
  <2>3. marker' \in [valid : BOOLEAN, at : [Axes -> Int]] BY <2>1, <2>2 DEF ViewTypes
  <2>4. engine' \in [centred : BOOLEAN, panning : BOOLEAN] BY <1>2 DEF Seed, ViewTypes
  <2>5. corner' \in [Axes -> Int] /\ view' \in Views BY <2>1, <2>2, FollowedNoView
  <2>6. here' = here /\ calm' = calm BY <1>2 DEF Seed
  <2> QED BY <2>1, <2>2, <2>3, <2>4, <2>5, <2>6 DEF ViewTypes
<1>3. CASE FirstFix
  <2>1. marker' \in [valid : BOOLEAN, at : [Axes -> Int]] BY <1>0, <1>3 DEF FirstFix
  <2>2. engine' \in [centred : BOOLEAN, panning : BOOLEAN] BY <1>3 DEF FirstFix, ViewTypes
  <2>3. corner' \in [Axes -> Int] /\ view' \in Views
        BY <1>0, <1>3, OriginIsLevel, ViewConstants DEF FirstFix
  <2> QED BY <1>3, <2>1, <2>2, <2>3 DEF FirstFix, ViewTypes
<1>4. CASE FollowFix
  <2>1. marker' \in [valid : BOOLEAN, at : [Axes -> Int]] /\ anchor' \in [Axes -> Int]
        BY <1>0, <1>4 DEF FollowFix
  <2>2. Refitted(here.at, NoView) BY <1>4 DEF FollowFix
  <2>3. corner' \in [Axes -> Int] /\ view' \in Views
        BY <1>0, <2>2, RefittedType, ViewConstants
  <2>4. calm' \in 0 .. 2 BY <1>4 DEF FollowFix, ViewTypes
  <2> QED BY <1>4, <2>1, <2>3, <2>4 DEF FollowFix, ViewTypes
<1>5. CASE MarkFix
  <2>1. marker' \in [valid : BOOLEAN, at : [Axes -> Int]] BY <1>0, <1>5 DEF MarkFix
  <2> QED BY <1>5, <2>1 DEF MarkFix, ViewTypes
<1>6. CASE Pan
  <2>1. PICK d \in Fields : PanStep(d) BY <1>6 DEF Pan
  <2> DEFINE p == [a \in Axes |-> PanFrom[a] + d[a] * PanBy[a]]
  <2>2. p \in [Axes -> Int] BY PanPoint DEF Fields
  <2>3. /\ anchor' = p /\ engine' = [engine EXCEPT !.panning = TRUE]
        /\ Refitted(p, Followed(NoView, p, OriginFor(p)))
        /\ calm' = 0 /\ here' = here /\ marker' = marker
        BY <2>1 DEF PanStep
  <2> HIDE DEF p
  <2>4. corner' \in [Axes -> Int] /\ view' \in Views
        BY <1>0, <2>2, <2>3, RefittedType, FollowedNoView
  <2>5. engine' \in [centred : BOOLEAN, panning : BOOLEAN] BY <2>3 DEF ViewTypes
  <2> QED BY <2>2, <2>3, <2>4, <2>5 DEF ViewTypes
<1>7. CASE PanReset
  <2>1. engine' \in [centred : BOOLEAN, panning : BOOLEAN] BY <1>7 DEF PanReset, ViewTypes
  <2>2. corner' \in [Axes -> Int] /\ view' \in Views /\ anchor' \in [Axes -> Int]
        BY <1>0, <1>7, FollowedNoView DEF PanReset
  <2> QED BY <1>7, <2>1, <2>2 DEF PanReset, ViewTypes
<1>8. CASE UNCHANGED viewVars BY <1>8 DEF viewVars, ViewTypes
<1> QED BY <1>1, <1>2, <1>3, <1>4, <1>5, <1>6, <1>7, <1>8 DEF ViewNext, MapUpdate

LEMMA ViewStepSettles ==
    ASSUME SmallScreen PROVE ViewTypes /\ Settling /\ [ViewNext]_viewVars => Settling'
<1> SUFFICES ASSUME ViewTypes, Settling, [ViewNext]_viewVars PROVE Settling'
    OBVIOUS
<1>0. /\ view \in Views /\ corner \in [Axes -> Int] /\ here.at \in [Axes -> Int]
      /\ calm \in 0 .. 2
      BY DEF ViewTypes
<1>1. CASE FixMoves \/ Pan \/ PanReset
  <2>1. calm' = 0 BY <1>1 DEF FixMoves, Pan, PanStep, PanReset
  <2> QED BY <2>1 DEF Settling
<1>2. CASE Seed \/ FirstFix
  <2>1. calm = 0 /\ calm' = calm BY <1>2 DEF Seed, FirstFix, Settling
  <2> QED BY <2>1 DEF Settling
<1>3. CASE MarkFix
  <2>1. calm = 0 /\ calm' = calm BY <1>3 DEF MarkFix, Settling
  <2> QED BY <2>1 DEF Settling
<1>4. CASE FollowFix
  <2>1. Refitted(here.at, NoView) /\ here' = here /\ engine' = engine
        /\ here.placed /\ engine.centred /\ ~engine.panning
        BY <1>4 DEF FollowFix
  <2>2. CASE calm = 0
    <3>1. calm' = 1 BY <1>4, <2>2 DEF FollowFix
    <3>2. \A a \in Axes : Near(here.at, corner', view', a) BY <1>0, <2>1, FirstPass
    <3> QED BY <2>1, <3>1, <3>2 DEF Settling
  <2>3. CASE calm # 0
    <3>1. calm' = 2 BY <1>0, <1>4, <2>3 DEF FollowFix
    <3>2. \A a \in Axes : Near(here.at, corner, view, a)
          BY <1>0, <2>3 DEF Settling, Near
    <3>3. view'.set /\ \A a \in Axes : /\ Level(here.at, corner', a)
                                       /\ Filled(view'.at[a], here.at, corner', a)
          BY <1>0, <2>1, <3>2, SecondPass
    <3> QED BY <2>1, <3>1, <3>3 DEF Settling
  <2> QED BY <2>2, <2>3
<1>5. CASE UNCHANGED viewVars BY <1>5 DEF viewVars, Settling, Near, Level, Filled, FromMiddle
<1> QED BY <1>1, <1>2, <1>3, <1>4, <1>5 DEF ViewNext, MapUpdate

LEMMA SettledInBand == ViewTypes /\ Settling => MarkerInBand
<1> SUFFICES ASSUME ViewTypes, Settling, calm = 2
             PROVE /\ view.set
                   /\ \A a \in Axes :
                        /\ here.placed => here.at[a] - view.at[a] \in Margin[a] .. Screen[a] - Margin[a]
                        /\ OnCanvas(view.at[a], corner, a) = view.at[a]
    BY DEF MarkerInBand
<1>1. view.set /\ \A a \in Axes : Filled(view.at[a], here.at, corner, a) BY DEF Settling
<1>2. ASSUME NEW a \in Axes
      PROVE OnCanvas(view.at[a], corner, a) = view.at[a]
  <2> DEFINE lo == corner[a] * TILE
             hi == (corner[a] + GRID_N) * TILE - Screen[a]
             v == view.at[a]
  <2>1. lo \in Int /\ hi \in Int /\ v \in Int
        BY Middle, Sizes DEF ViewTypes, Views, GRID_N
  <2>2. lo =< v /\ v =< hi BY <1>1 DEF Filled
  <2>3. OnCanvas(v, corner, a) = Between(v, lo, hi) BY DEF OnCanvas
  <2> HIDE DEF lo, hi, v
  <2>4. OnCanvas(v, corner, a) = v BY <2>1, <2>2, <2>3 DEF Between
  <2> QED BY <2>4 DEF v
<1> QED BY <1>1, <1>2 DEF Filled

(* However far the fix had jumped and whatever was shown, panned or shifted *)
(* before, two passes after it came to rest the marker is in the band and   *)
(* the canvas fills the screen (mapengine.cpp:1343-1411).                   *)
THEOREM MarkerStaysInBand ==
    ASSUME SmallScreen PROVE ViewSpec => []MarkerInBand
<1>1. ViewInit => ViewTypes /\ Settling BY ViewStartTypes DEF ViewInit, Settling
<1>2. ViewTypes /\ Settling /\ [ViewNext]_viewVars => (ViewTypes /\ Settling)'
      BY ViewStepTypes, ViewStepSettles
<1> QED BY <1>1, <1>2, SettledInBand, PTL DEF ViewSpec

(* The types alone need no assumption about the screen.                     *)
THEOREM ViewsAreTyped == ViewSpec => []ViewTypeOK
<1>1. ViewTypes => ViewTypeOK
    BY DEF ViewTypes, ViewTypeOK, Views
<1> QED BY <1>1, ViewStartTypes, ViewStepTypes, PTL DEF ViewSpec

-----------------------------------------------------------------------------
(***************************************************************************)
(* Together                                                                 *)
(***************************************************************************)
LEMMA PositionPartsStart == PositionInit => LinkInit /\ TrustInit /\ WifiLocInit /\ ViewInit
BY DEF PositionInit

LEMMA PositionPartsStep ==
    [PositionNext]_positionVars =>
        /\ [LinkNext]_linkVars /\ [TrustNext]_trustVars
        /\ [WifiLocNext]_wifiLocVars /\ [ViewNext]_viewVars
<1>1. CASE PositionNext
    BY <1>1 DEF PositionNext, Others
<1>2. CASE UNCHANGED positionVars
    BY <1>2 DEF positionVars
<1> QED BY <1>1, <1>2

(* A behaviour of the modules about the position is one of each of them.    *)
(* Only that the polls go on is not asked for: no safety property needs it. *)
THEOREM PositionPartsHold ==
    PositionSpec =>
        [](PositionTypeOK /\ CaptureHeld /\ CaptureWalks /\ SuspicionShown /\ LearnedNearby)
<1>1. PositionSpec => LinkSpec /\ TrustSpec /\ ViewSpec
    BY PositionPartsStart, PositionPartsStep, PTL DEF PositionSpec, LinkSpec, TrustSpec, ViewSpec
<1>2. PositionSpec => [](WifiLocTypeOK /\ LearnedNearby)
    BY PositionPartsStart, PositionPartsStep, WifiStarts, WifiStep, WifiInvImplies, PTL
       DEF PositionSpec
<1>3. LinkTypeOK /\ TrustTypeOK /\ WifiLocTypeOK /\ ViewTypeOK => PositionTypeOK
    BY DEF PositionTypeOK
<1> QED BY <1>1, <1>2, <1>3, CapturesStayInside, CapturesWalk, SuspicionsAreShown, ViewsAreTyped,
           PTL
=============================================================================
