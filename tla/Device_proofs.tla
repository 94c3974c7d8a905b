---------------------------- MODULE Device_proofs ----------------------------
(***************************************************************************)
(* What holds of the parts MC_Device puts together, for every value of      *)
(* their constants: each part is proved correct under its own steps, and a  *)
(* behaviour of them all is one of each.                                    *)
(***************************************************************************)
EXTENDS MC_Device, FiniteSetTheorems, SequenceTheorems, TLAPS

-----------------------------------------------------------------------------
(***************************************************************************)
(* Boot                                                                     *)
(***************************************************************************)
UsbEvents == [kind : {"connected", "disconnected"}, no : UsbAddresses]
UsbQueues == Seq(UsbEvents)
UsbJobs == [kind : {"none", "connected", "disconnected", "removing"}, no : 0 .. 2]
Usbs == [events : UsbQueues, task : UsbJobs, dev : BOOLEAN, vfs : BOOLEAN, mounted : BOOLEAN]
Ports == [drive : {"none", "fat", "foreign"}, no : UsbAddresses]
Stores == [fs : {"none", "USB", "SDMMC", "SPI"}, have : BOOLEAN]
Waits == 0 .. LAST_WAIT
BootStates == [at : Places, left : Waits, asked : BOOLEAN, taps : 0 .. 2]
Pictures == {"list", "question", "map", "world", "portal", "blank"}
Pages == [panelOk : BOOLEAN, active : BOOLEAN, fill : BOOLEAN, screen : Pictures]

(* The list stays active, or the world may be drawn, until loop() begins.   *)
PageSound(p, at) ==
    p.panelOk =>
        /\ at # "stopped" => p.active \/ p.fill
        /\ at \in {"map", "check"} => p.active
        /\ at = "loop" => p.fill /\ ~p.active

BootInv ==
    /\ port \in Ports /\ usb \in Usbs /\ Len(usb.events) =< USB_EVENTS
    /\ store \in Stores
    /\ boot \in BootStates /\ (boot.at = "ask" => boot.taps =< 1)
    /\ page \in Pages /\ PageSound(page, boot.at)

LEMMA BootFields ==
    ASSUME NEW b \in BootStates
    PROVE b.at \in Places /\ b.left \in Waits /\ b.asked \in BOOLEAN /\ b.taps \in 0 .. 2
BY DEF BootStates

LEMMA PageFields ==
    ASSUME NEW p \in Pages
    PROVE p.panelOk \in BOOLEAN /\ p.active \in BOOLEAN /\ p.fill \in BOOLEAN
          /\ p.screen \in Pictures
BY DEF Pages

LEMMA UsbFields ==
    ASSUME NEW u \in Usbs
    PROVE /\ u.events \in UsbQueues /\ u.task \in UsbJobs /\ u.dev \in BOOLEAN
          /\ u.vfs \in BOOLEAN /\ u.mounted \in BOOLEAN
          /\ u = [events |-> u.events, task |-> u.task, dev |-> u.dev, vfs |-> u.vfs,
                  mounted |-> u.mounted]
BY DEF Usbs

LEMMA IdleIs == Idle \in UsbJobs
BY DEF Idle, UsbJobs

LEMMA PickedIs == \A m : Picked(m) \in Stores
<1> SUFFICES ASSUME NEW m PROVE Picked(m) \in Stores
    OBVIOUS
<1>1. CASE usb.mounted
    BY <1>1 DEF Picked, Stores
<1>2. CASE ~usb.mounted /\ m = "SDMMC"
    BY <1>2 DEF Picked, Stores
<1>3. CASE ~usb.mounted /\ m # "SDMMC"
    BY <1>3 DEF Picked, Stores
<1> QED BY <1>1, <1>2, <1>3

(* What the steps of setup() do to the page.                                *)
LEMMA ScreenIs ==
    ASSUME NEW p \in Pages, NEW x \in Pictures, NEW q, q = [p EXCEPT !.screen = x]
    PROVE /\ q \in Pages /\ q.panelOk = p.panelOk /\ q.active = p.active /\ q.fill = p.fill
BY DEF Pages

LEMMA ListBegunIs ==
    ASSUME page \in Pages
    PROVE /\ ListBegun \in Pages /\ ListBegun.panelOk = page.panelOk
          /\ ListBegun.fill = page.fill
          /\ page.panelOk => ListBegun.active
          /\ ~page.panelOk => ListBegun = page
<1>1. CASE page.panelOk
  <2>1. ListBegun = [page EXCEPT !.active = TRUE, !.screen = "list"]
    BY <1>1 DEF ListBegun
  <2>2. ListBegun = [panelOk |-> page.panelOk, active |-> TRUE, fill |-> page.fill,
                     screen |-> "list"]
    BY <2>1 DEF Pages
  <2> QED BY <1>1, <2>2, PageFields DEF Pages, Pictures
<1>2. CASE ~page.panelOk
    BY <1>2 DEF ListBegun
<1> QED BY <1>1, <1>2

LEMMA ListShownIs ==
    ASSUME page \in Pages
    PROVE /\ ListShown \in Pages /\ ListShown.panelOk = page.panelOk
          /\ ListShown.fill = page.fill /\ ListShown.active = page.active
BY DEF ListShown, Pages, Pictures

LEMMA BootEndedIs ==
    ASSUME page \in Pages, NEW picture
    PROVE LET p == BootEnded(picture)
          IN  /\ p \in Pages /\ p.panelOk = page.panelOk
              /\ page.panelOk => /\ ~p.active
                                 /\ page.active => p.fill
                                 /\ ~page.active => p.fill = page.fill
<1>1. CASE ~page.panelOk \/ ~page.active
    BY <1>1, PageFields DEF BootEnded
<1>2. CASE page.panelOk /\ page.active
  <2> DEFINE x == IF picture THEN "map" ELSE "world"
  <2>1. BootEnded(picture) = [page EXCEPT !.active = FALSE, !.fill = TRUE, !.screen = x]
    BY <1>2 DEF BootEnded
  <2>2. x \in Pictures
    BY DEF Pictures
  <2> HIDE DEF x
  <2>3. BootEnded(picture) = [panelOk |-> page.panelOk, active |-> FALSE, fill |-> TRUE,
                              screen |-> x]
    BY <2>1 DEF Pages
  <2> QED BY <1>2, <2>2, <2>3, PageFields DEF Pages
<1> QED BY <1>1, <1>2

LEMMA BootStarts == BootInit => BootInv
<1> SUFFICES ASSUME BootInit PROVE BootInv
    OBVIOUS
<1>1. usb \in Usbs /\ Len(usb.events) =< USB_EVENTS
  <2>1. <<>> \in UsbQueues /\ Len(<<>>) = 0
    BY EmptySeq DEF UsbQueues
  <2> QED BY <2>1, IdleIs, BootAssumption DEF BootInit, Usbs
<1>2. port \in Ports /\ store \in Stores
    BY DEF BootInit, Ports, Stores, UsbAddresses
<1>3. boot \in BootStates /\ boot.at = "mount"
    BY BootAssumption DEF BootInit, BootStates, Places, Waits
<1>4. page \in Pages /\ page.active
    BY DEF BootInit, Pages, Pictures
<1> QED BY <1>1, <1>2, <1>3, <1>4 DEF BootInv, PageSound

(* A step of setup() that goes to a place, or waits there.                  *)
LEMMA AtIs ==
    ASSUME boot \in BootStates, NEW place \in Places, boot' = [boot EXCEPT !.at = place]
    PROVE boot' \in BootStates /\ boot'.at = place
BY DEF BootStates

LEMMA WaitAtIs ==
    ASSUME boot \in BootStates, NEW place \in Places, WaitAt(place)
    PROVE boot' \in BootStates /\ boot'.at = place
<1>1. boot' = [boot EXCEPT !.at = place, !.left = LAST_WAIT]
    BY DEF WaitAt
<1>2. boot' = [at |-> place, left |-> LAST_WAIT, asked |-> boot.asked, taps |-> boot.taps]
    BY <1>1 DEF BootStates
<1>3. LAST_WAIT \in Waits
    BY BootAssumption DEF Waits
<1> QED BY <1>2, <1>3, BootFields DEF BootStates

LEMMA PolledAgainIs ==
    ASSUME boot \in BootStates, boot.left > 0, boot' = [boot EXCEPT !.left = @ - 1]
    PROVE boot' \in BootStates /\ boot'.at = boot.at
<1> DEFINE n == boot.left - 1
<1>1. n \in Waits
    BY BootFields, BootAssumption DEF Waits
<1>2. boot' = [boot EXCEPT !.left = n]
    OBVIOUS
<1> HIDE DEF n
<1> QED BY <1>1, <1>2 DEF BootStates

(* What the steps of the driver and of its task do to the queue.            *)
LEMMA SentIs ==
    ASSUME usb \in Usbs, Len(usb.events) =< USB_EVENTS,
           NEW kind \in {"connected", "disconnected"}, NEW no \in UsbAddresses, Sent(kind, no)
    PROVE usb' \in Usbs /\ Len(usb'.events) =< USB_EVENTS
<1>1. CASE Len(usb.events) < USB_EVENTS
  <2> DEFINE e == [kind |-> kind, no |-> no]
             q == Append(usb.events, e)
  <2>1. e \in UsbEvents
    BY DEF UsbEvents
  <2> HIDE DEF e
  <2>2. q \in UsbQueues /\ Len(q) = Len(usb.events) + 1 /\ Len(usb.events) \in Nat
    BY <2>1, UsbFields, AppendProperties, LenProperties DEF UsbQueues
  <2>3. usb' = [usb EXCEPT !.events = q]
    BY <1>1 DEF Sent, e
  <2> HIDE DEF q
  <2>4. usb' = [events |-> q, task |-> usb.task, dev |-> usb.dev, vfs |-> usb.vfs,
                mounted |-> usb.mounted]
    BY <2>3 DEF Usbs
  <2>5. usb' \in Usbs /\ usb'.events = q
    BY <2>4, <2>2, UsbFields DEF Usbs
  <2> QED BY <1>1, <2>2, <2>5, BootAssumption
<1>2. CASE ~(Len(usb.events) < USB_EVENTS)
    BY <1>2 DEF Sent
<1> QED BY <1>1, <1>2

LEMMA TakenIs ==
    ASSUME usb \in Usbs, Len(usb.events) =< USB_EVENTS, usb.events # <<>>
    PROVE /\ Head(usb.events) \in UsbEvents /\ Tail(usb.events) \in UsbQueues
          /\ Len(Tail(usb.events)) =< USB_EVENTS
BY UsbFields, HeadTailProperties, LenProperties, BootAssumption DEF UsbQueues

(* An action that leaves where setup() is, the store and the page alone.    *)
LEMMA OutsideSetup ==
    ASSUME BootInv, UNCHANGED <<store, boot, page>>,
           port' \in Ports, usb' \in Usbs, Len(usb'.events) =< USB_EVENTS
    PROVE BootInv'
BY DEF BootInv, PageSound

LEMMA BootStep == BootInv /\ [BootNext]_bootVars => BootInv'
<1> SUFFICES ASSUME BootInv, [BootNext]_bootVars PROVE BootInv'
    OBVIOUS
<1>0. /\ port \in Ports /\ usb \in Usbs /\ Len(usb.events) =< USB_EVENTS
      /\ store \in Stores
      /\ boot \in BootStates /\ (boot.at = "ask" => boot.taps =< 1)
      /\ page \in Pages /\ PageSound(page, boot.at)
    BY DEF BootInv
<1>s. ASSUME boot' \in BootStates, boot'.at = "ask" => boot'.taps =< 1,
             page' \in Pages, PageSound(page', boot'.at), store' \in Stores,
             UNCHANGED <<port, usb>>
      PROVE BootInv'
    BY <1>s, <1>0 DEF BootInv, PageSound
<1>1. CASE MountSD
  <2>1. PICK place \in {"wait", "found"} : boot' = [boot EXCEPT !.at = place]
    BY <1>1 DEF MountSD, At
  <2>2. boot' \in BootStates /\ boot'.at = place
    BY <2>1, <1>0, AtIs DEF Places
  <2>3. PageSound(page', boot'.at)
    BY <2>2, <1>0, <1>1 DEF MountSD, PageSound
  <2> QED BY <1>0, <1>1, <2>2, <2>3, <1>s DEF MountSD
<1>2. CASE WaitForStorage
  <2>1. store' \in Stores /\ UNCHANGED <<port, usb>>
    BY <1>2, PickedIs DEF WaitForStorage, Polled
  <2>2. boot.at = "wait"
    BY <1>2 DEF WaitForStorage
  <2>3. CASE At("found") /\ UNCHANGED page
    <3>1. boot' \in BootStates /\ boot'.at = "found"
      BY <2>3, <1>0, AtIs DEF Places, At
    <3> QED BY <3>1, <2>1, <2>2, <2>3, <1>0, <1>s DEF PageSound
  <2>4. CASE ~(At("found") /\ UNCHANGED page)
    <3>1. PICK seen \in BOOLEAN :
            /\ boot' = IF seen /\ ~boot.asked
                       THEN [boot EXCEPT !.asked = TRUE, !.taps = 0,
                                         !.at = IF page.panelOk THEN "ask" ELSE "wait"]
                       ELSE boot
            /\ page' = IF boot'.at = "ask" THEN [page EXCEPT !.screen = "question"] ELSE page
      BY <1>2, <2>4 DEF WaitForStorage
    <3>2. boot' \in BootStates /\ boot'.at \in {"ask", "wait"} /\ (boot'.at = "ask" => boot'.taps =< 1)
      <4>1. CASE seen /\ ~boot.asked
        <5> DEFINE place == IF page.panelOk THEN "ask" ELSE "wait"
        <5>1. boot' = [boot EXCEPT !.asked = TRUE, !.taps = 0, !.at = place]
          BY <4>1, <3>1
        <5>2. place \in {"ask", "wait"} /\ place \in Places
          BY DEF Places
        <5> HIDE DEF place
        <5>3. boot' = [at |-> place, left |-> boot.left, asked |-> TRUE, taps |-> 0]
          BY <5>1, <1>0 DEF BootStates
        <5> QED BY <5>2, <5>3, <1>0, BootFields DEF BootStates
      <4>2. CASE ~(seen /\ ~boot.asked)
        BY <4>2, <3>1, <2>2, <1>0
      <4> QED BY <4>1, <4>2
    <3>3. page' \in Pages /\ page'.panelOk = page.panelOk /\ page'.active = page.active
          /\ page'.fill = page.fill
      <4>1. CASE boot'.at = "ask"
        BY <4>1, <3>1, <1>0, ScreenIs DEF Pictures
      <4>2. CASE boot'.at # "ask"
        BY <4>2, <3>1, <1>0
      <4> QED BY <4>1, <4>2
    <3>4. PageSound(page', boot'.at)
      BY <3>2, <3>3, <2>2, <1>0 DEF PageSound
    <3> QED BY <3>2, <3>3, <3>4, <2>1, <1>s
  <2> QED BY <2>3, <2>4
<1>3. CASE ConfirmFormat
  <2>1. PICK touched \in BOOLEAN :
          boot' = [boot EXCEPT !.at = NextAfter(touched), !.taps = IF touched THEN @ + 1 ELSE 0]
    BY <1>3 DEF ConfirmFormat
  <2> DEFINE place == NextAfter(touched)
             n == IF touched THEN boot.taps + 1 ELSE 0
  <2>2. /\ place \in {"wait", "ask", "try"} /\ place \in Places
        /\ n \in 0 .. 2 /\ (place = "ask" => n =< 1)
    BY <1>0, <1>3, BootFields DEF ConfirmFormat, NextAfter, Places
  <2>3. boot' = [boot EXCEPT !.at = place, !.taps = n]
    BY <2>1
  <2> HIDE DEF place, n
  <2>4. boot' = [at |-> place, left |-> boot.left, asked |-> boot.asked, taps |-> n]
    BY <2>3, <1>0 DEF BootStates
  <2>5. boot' \in BootStates /\ boot'.at = place /\ boot'.taps = n
    BY <2>2, <2>4, <1>0, BootFields DEF BootStates
  <2>6. PageSound(page', boot'.at)
    BY <2>2, <2>5, <1>0, <1>3 DEF ConfirmFormat, PageSound
  <2> QED BY <2>2, <2>5, <2>6, <1>0, <1>3, <1>s DEF ConfirmFormat
<1>4. CASE TryAgain
  <2>1. PICK place \in {"format", "found"} : boot' = [boot EXCEPT !.at = place]
    BY <1>4 DEF TryAgain, At
  <2>2. boot' \in BootStates /\ boot'.at = place
    BY <2>1, <1>0, AtIs DEF Places
  <2>3. page' \in Pages /\ PageSound(page', boot'.at)
    BY <2>2, <1>0, <1>4, ListBegunIs DEF TryAgain, PageSound
  <2> QED BY <1>0, <1>4, <2>2, <2>3, <1>s DEF TryAgain
<1>5. CASE Format
  <2>1. PICK place \in {"wait", "found"} : boot' = [boot EXCEPT !.at = place]
    BY <1>5 DEF Format, At
  <2>2. boot' \in BootStates /\ boot'.at = place
    BY <2>1, <1>0, AtIs DEF Places
  <2>3. PageSound(page', boot'.at)
    BY <2>2, <1>0, <1>5 DEF Format, PageSound
  <2> QED BY <1>0, <1>5, <2>2, <2>3, <1>s DEF Format
<1>6. CASE Settle
  <2>1. boot' = [at |-> "map", left |-> boot.left, asked |-> FALSE, taps |-> 0]
    BY <1>6, <1>0 DEF Settle, BootStates
  <2>2. boot' \in BootStates /\ boot'.at = "map"
    BY <2>1, <1>0, BootFields DEF BootStates, Places
  <2>3. page' \in Pages /\ PageSound(page', boot'.at)
    BY <2>2, <1>0, <1>6, ListBegunIs DEF Settle, PageSound
  <2>4. store' \in Stores
    BY <1>6, PickedIs DEF Settle
  <2> QED BY <1>6, <2>2, <2>3, <2>4, <1>s DEF Settle
<1>7. CASE OpenMap
  <2>1. CASE WaitAt("check") /\ UNCHANGED page
    <3>1. boot' \in BootStates /\ boot'.at = "check"
      BY <2>1, <1>0, WaitAtIs DEF Places
    <3>2. PageSound(page', boot'.at)
      BY <3>1, <2>1, <1>0, <1>7 DEF OpenMap, PageSound
    <3> QED BY <3>1, <3>2, <2>1, <1>7, <1>0, <1>s DEF OpenMap
  <2>2. CASE At("stopped") /\ page' = [page EXCEPT !.active = FALSE]
    <3>1. boot' \in BootStates /\ boot'.at = "stopped"
      BY <2>2, <1>0, AtIs DEF Places, At
    <3>2. page' \in Pages
      BY <2>2, <1>0 DEF Pages
    <3>3. PageSound(page', boot'.at)
      BY <3>1 DEF PageSound
    <3> QED BY <3>1, <3>2, <3>3, <1>7, <1>0, <1>s DEF OpenMap
  <2> QED BY <1>7, <2>1, <2>2 DEF OpenMap
<1>8. CASE CheckArchive
  <2>1. CASE boot.left > 0 /\ boot' = [boot EXCEPT !.left = @ - 1] /\ UNCHANGED page
    <3>1. boot' \in BootStates /\ boot'.at = "check"
      BY <2>1, <1>0, <1>8, PolledAgainIs DEF CheckArchive
    <3>2. PageSound(page', boot'.at)
      BY <3>1, <2>1, <1>0, <1>8 DEF CheckArchive, PageSound
    <3> QED BY <3>1, <3>2, <2>1, <1>8, <1>0, <1>s DEF CheckArchive
  <2>2. CASE /\ WaitAt("picture") \/ WaitAt("radio")
             /\ page' = [ListShown EXCEPT !.fill = FALSE]
    <3>1. boot' \in BootStates /\ boot'.at \in {"picture", "radio"}
      BY <2>2, <1>0, WaitAtIs DEF Places
    <3> DEFINE shown == ListShown
    <3>2. shown \in Pages /\ shown.panelOk = page.panelOk /\ shown.active = page.active
      BY <1>0, ListShownIs
    <3>3. page' = [shown EXCEPT !.fill = FALSE]
      BY <2>2
    <3> HIDE DEF shown
    <3>4. page' \in Pages /\ page'.panelOk = page.panelOk /\ page'.active = page.active
      BY <3>2, <3>3 DEF Pages
    <3>5. PageSound(page', boot'.at)
      BY <3>1, <3>4, <1>0, <1>8 DEF CheckArchive, PageSound
    <3> QED BY <3>1, <3>4, <3>5, <1>8, <1>0, <1>s DEF CheckArchive
  <2> QED BY <1>8, <2>1, <2>2 DEF CheckArchive
<1>9. CASE DrawLastArea
  <2>1. CASE boot.left > 0 /\ boot' = [boot EXCEPT !.left = @ - 1] /\ UNCHANGED page
    <3>1. boot' \in BootStates /\ boot'.at = "picture"
      BY <2>1, <1>0, <1>9, PolledAgainIs DEF DrawLastArea
    <3>2. PageSound(page', boot'.at)
      BY <3>1, <2>1, <1>0, <1>9 DEF DrawLastArea, PageSound
    <3> QED BY <3>1, <3>2, <2>1, <1>9, <1>0, <1>s DEF DrawLastArea
  <2>2. CASE At("radio") /\ page' = [BootEnded(TRUE) EXCEPT !.screen = "map"]
    <3>1. boot' \in BootStates /\ boot'.at = "radio"
      BY <2>2, <1>0, AtIs DEF Places, At
    <3> DEFINE ended == BootEnded(TRUE)
    <3>2. /\ ended \in Pages /\ ended.panelOk = page.panelOk
          /\ page.panelOk => (page.active => ended.fill) /\ (~page.active => ended.fill = page.fill)
      BY <1>0, BootEndedIs
    <3>3. page' = [ended EXCEPT !.screen = "map"] /\ "map" \in Pictures
      BY <2>2 DEF Pictures
    <3> HIDE DEF ended
    <3>4. page' \in Pages /\ page'.panelOk = page.panelOk /\ page'.fill = ended.fill
      BY <3>2, <3>3, ScreenIs
    <3>5. PageSound(page', boot'.at)
      BY <3>1, <3>2, <3>4, <1>0, <1>9, PageFields DEF DrawLastArea, PageSound
    <3> QED BY <3>1, <3>4, <3>5, <1>9, <1>0, <1>s DEF DrawLastArea
  <2> QED BY <1>9, <2>1, <2>2 DEF DrawLastArea
<1>10. CASE BringUpRadio
  <2>1. CASE At("end") /\ page' = ListShown
    <3>1. boot' \in BootStates /\ boot'.at = "end"
      BY <2>1, <1>0, AtIs DEF Places, At
    <3>2. page' \in Pages /\ PageSound(page', boot'.at)
      BY <3>1, <2>1, <1>0, <1>10, ListShownIs DEF BringUpRadio, PageSound
    <3> QED BY <3>1, <3>2, <1>10, <1>0, <1>s DEF BringUpRadio
  <2>2. CASE WaitAt("portal") /\ page' = [page EXCEPT !.screen = "portal"]
    <3>1. boot' \in BootStates /\ boot'.at = "portal"
      BY <2>2, <1>0, WaitAtIs DEF Places
    <3>2. "portal" \in Pictures
      BY DEF Pictures
    <3>3. page' \in Pages /\ PageSound(page', boot'.at)
      BY <3>1, <3>2, <2>2, <1>0, <1>10, ScreenIs DEF BringUpRadio, PageSound
    <3> QED BY <3>1, <3>3, <1>10, <1>0, <1>s DEF BringUpRadio
  <2> QED BY <1>10, <2>1, <2>2 DEF BringUpRadio
<1>11. CASE BootPortal
  <2>1. CASE boot.left > 0 /\ boot' = [boot EXCEPT !.left = @ - 1] /\ UNCHANGED page
    <3>1. boot' \in BootStates /\ boot'.at = "portal"
      BY <2>1, <1>0, <1>11, PolledAgainIs DEF BootPortal
    <3>2. PageSound(page', boot'.at)
      BY <3>1, <2>1, <1>0, <1>11 DEF BootPortal, PageSound
    <3> QED BY <3>1, <3>2, <2>1, <1>11, <1>0, <1>s DEF BootPortal
  <2>2. CASE At("end") /\ page' = [page EXCEPT !.screen = "blank"]
    <3>1. boot' \in BootStates /\ boot'.at = "end"
      BY <2>2, <1>0, AtIs DEF Places, At
    <3>2. "blank" \in Pictures
      BY DEF Pictures
    <3>3. page' \in Pages /\ PageSound(page', boot'.at)
      BY <3>1, <3>2, <2>2, <1>0, <1>11, ScreenIs DEF BootPortal, PageSound
    <3> QED BY <3>1, <3>3, <1>11, <1>0, <1>s DEF BootPortal
  <2> QED BY <1>11, <2>1, <2>2 DEF BootPortal
<1>12. CASE EnterLoop
  <2>1. PICK picture \in BOOLEAN : page' = BootEnded(picture)
    BY <1>12 DEF EnterLoop
  <2>2. boot' \in BootStates /\ boot'.at = "loop"
    BY <1>12, <1>0, AtIs DEF EnterLoop, Places, At
  <2>3. page' \in Pages /\ PageSound(page', boot'.at)
    BY <2>1, <2>2, <1>0, <1>12, BootEndedIs, PageFields DEF EnterLoop, PageSound
  <2> QED BY <2>2, <2>3, <1>12, <1>0, <1>s DEF EnterLoop
<1>13. CASE UsbInstall
  <2> DEFINE e == Head(usb.events)
             d == Reachable(e.no)
             q == Tail(usb.events)
             job == IF d THEN e ELSE Idle
  <2>1. e \in UsbEvents /\ q \in UsbQueues /\ Len(q) =< USB_EVENTS
    BY <1>0, <1>13, TakenIs DEF UsbInstall
  <2>2. d \in BOOLEAN
    BY DEF Reachable
  <2>3. job \in UsbJobs
    BY <2>1, IdleIs DEF UsbEvents, UsbJobs, UsbAddresses
  <2>4. usb' = [usb EXCEPT !.events = q, !.dev = d, !.task = job]
    BY <1>13 DEF UsbInstall
  <2> HIDE DEF e, d, q, job
  <2>5. usb' = [events |-> q, task |-> job, dev |-> d, vfs |-> usb.vfs, mounted |-> usb.mounted]
    BY <2>4, <1>0 DEF Usbs
  <2>6. usb' \in Usbs /\ usb'.events = q
    BY <2>1, <2>2, <2>3, <2>5, <1>0, UsbFields DEF Usbs
  <2> QED BY <2>1, <2>6, <1>0, <1>13, OutsideSetup DEF UsbInstall
<1>14. CASE UsbRegister
  <2> DEFINE e == usb.task
  <2>1. usb' \in Usbs /\ usb'.events = usb.events
    <3>1. CASE Reachable(e.no) /\ port.drive = "fat" /\ ~usb.vfs
      <4>1. usb' = [usb EXCEPT !.vfs = TRUE, !.mounted = TRUE, !.task = Idle]
        BY <1>14, <3>1 DEF UsbRegister, Registered
      <4>2. usb' = [events |-> usb.events, task |-> Idle, dev |-> usb.dev, vfs |-> TRUE,
                    mounted |-> TRUE]
        BY <4>1, <1>0 DEF Usbs
      <4> QED BY <4>2, <1>0, UsbFields, IdleIs DEF Usbs
    <3>2. CASE ~(Reachable(e.no) /\ port.drive = "fat" /\ ~usb.vfs)
      <4>1. usb' = [usb EXCEPT !.dev = FALSE, !.task = Idle]
        BY <1>14, <3>2 DEF UsbRegister, Registered
      <4>2. usb' = [events |-> usb.events, task |-> Idle, dev |-> FALSE, vfs |-> usb.vfs,
                    mounted |-> usb.mounted]
        BY <4>1, <1>0 DEF Usbs
      <4> QED BY <4>2, <1>0, UsbFields, IdleIs DEF Usbs
    <3> QED BY <3>1, <3>2
  <2> QED BY <2>1, <1>0, <1>14, OutsideSetup DEF UsbRegister
<1>15. CASE UsbRemoved
  <2> DEFINE q == Tail(usb.events)
             job == [kind |-> "removing", no |-> Head(usb.events).no]
  <2>1. Head(usb.events) \in UsbEvents /\ q \in UsbQueues /\ Len(q) =< USB_EVENTS
    BY <1>0, <1>15, TakenIs DEF UsbRemoved
  <2>2. job \in UsbJobs
    BY <2>1 DEF UsbEvents, UsbJobs, UsbAddresses
  <2>3. usb' = [usb EXCEPT !.events = q, !.mounted = FALSE, !.task = job]
    BY <1>15 DEF UsbRemoved
  <2> HIDE DEF q, job
  <2>4. usb' = [events |-> q, task |-> job, dev |-> usb.dev, vfs |-> usb.vfs, mounted |-> FALSE]
    BY <2>3, <1>0 DEF Usbs
  <2>5. usb' \in Usbs /\ usb'.events = q
    BY <2>1, <2>2, <2>4, <1>0, UsbFields DEF Usbs
  <2> QED BY <2>1, <2>5, <1>0, <1>15, OutsideSetup DEF UsbRemoved
<1>16. CASE UsbReleased
  <2>1. usb' = [usb EXCEPT !.vfs = FALSE, !.dev = FALSE, !.task = Idle]
    BY <1>16 DEF UsbReleased
  <2>2. usb' = [events |-> usb.events, task |-> Idle, dev |-> FALSE, vfs |-> FALSE,
                mounted |-> usb.mounted]
    BY <2>1, <1>0 DEF Usbs
  <2>3. usb' \in Usbs /\ usb'.events = usb.events
    BY <2>2, <1>0, UsbFields, IdleIs DEF Usbs
  <2> QED BY <2>3, <1>0, <1>16, OutsideSetup DEF UsbReleased
<1>17. CASE PlugDrive
  <2>1. PICK drive \in {"fat", "foreign"} :
          port' = [drive |-> drive, no |-> 3 - port.no] /\ Sent("connected", port'.no)
    BY <1>17 DEF PlugDrive
  <2>2. 3 - port.no \in UsbAddresses
    BY <1>0 DEF Ports, UsbAddresses
  <2>3. port' \in Ports /\ port'.no \in UsbAddresses
    BY <2>1, <2>2 DEF Ports
  <2>4. usb' \in Usbs /\ Len(usb'.events) =< USB_EVENTS
    BY <2>1, <2>3, <1>0, SentIs
  <2> QED BY <2>3, <2>4, <1>17, OutsideSetup DEF PlugDrive
<1>18. CASE UnplugDrive
  <2>1. port' \in Ports /\ port.no \in UsbAddresses
    BY <1>18, <1>0 DEF UnplugDrive, Ports
  <2>2. usb' \in Usbs /\ Len(usb'.events) =< USB_EVENTS
    BY <1>18, <2>1, <1>0, SentIs DEF UnplugDrive
  <2> QED BY <2>1, <2>2, <1>18, OutsideSetup DEF UnplugDrive
<1>19. CASE ChangeCard
    BY <1>19, <1>0, OutsideSetup DEF ChangeCard
<1>20. CASE UNCHANGED bootVars
    BY <1>20, <1>0, OutsideSetup DEF bootVars
<1> QED BY <1>1, <1>2, <1>3, <1>4, <1>5, <1>6, <1>7, <1>8, <1>9, <1>10, <1>11, <1>12, <1>13,
           <1>14, <1>15, <1>16, <1>17, <1>18, <1>19, <1>20 DEF BootNext, Setup, UsbTask

LEMMA BootInvImplies == BootInv => BootTypeOK
<1> SUFFICES ASSUME BootInv PROVE BootTypeOK
    OBVIOUS
<1>1. usb.events \in UsbQueues /\ Len(usb.events) \in 0 .. USB_EVENTS
    BY UsbFields, LenProperties, BootAssumption DEF BootInv, UsbQueues
<1>2. usb.events \in [1 .. Len(usb.events) -> UsbEvents]
    BY <1>1, LenProperties DEF UsbQueues
<1>3. usb.events \in BoundedSeq(UsbEvents, USB_EVENTS)
    BY <1>1, <1>2 DEF BoundedSeq, SeqOf
<1>4. boot.at = "loop" /\ page.panelOk => page.fill /\ ~page.active
    BY DEF BootInv, PageSound
<1> QED BY <1>3, <1>4 DEF BootInv, BootTypeOK, BootStates, Stores, Waits, UsbEvents

(* Whatever is in the slot and in the port, whenever drives and cards come  *)
(* and go and however the polls end, the driver's queue keeps within its    *)
(* room, the question counts its taps, and loop() with a panel begins with  *)
(* the world allowed and no boot list (tab5_map.cpp:4060-4422).  *)
THEOREM BootIsTyped == BootSpec => []BootTypeOK
BY BootStarts, BootStep, BootInvImplies, PTL DEF BootSpec

-----------------------------------------------------------------------------
(***************************************************************************)
(* Battery                                                                  *)
(***************************************************************************)
GaugeStates == {"converting", "powered down"}
Buses == [wedged : BOOLEAN, held : BOOLEAN, gauge : GaugeStates]
Readings == [ok : BOOLEAN, miss : 0 .. MISSES + 1, age : 0 .. BATT_STALE_MS + 1,
             try : 0 .. REINIT + 1]

BatteryInv == bus \in Buses /\ batt \in Readings

LEMMA ReinitedIs ==
    ASSUME NEW b \in Buses PROVE Reinited(b) \in Buses
BY DEF Reinited, Buses

LEMMA DiagnosedIs ==
    ASSUME NEW b \in Buses, NEW works PROVE Diagnosed(b, works) \in Buses
<1>1. Reinited(b) \in Buses
    BY ReinitedIs
<1>2. [Reinited(b) EXCEPT !.held = FALSE] \in Buses
    BY <1>1 DEF Buses
<1>3. [Reinited(b) EXCEPT !.gauge = "converting"] \in Buses
    BY <1>1 DEF Buses, GaugeStates
<1> QED BY <1>2, <1>3 DEF Diagnosed

LEMMA BatteryStarts == BatteryInit => BatteryInv
<1>1. 0 \in 0 .. MISSES + 1 /\ 0 \in 0 .. BATT_STALE_MS + 1 /\ REINIT + 1 \in 0 .. REINIT + 1
    BY BatteryAssumption
<1> QED BY <1>1 DEF BatteryInit, BatteryInv, Buses, Readings, GaugeStates

LEMMA BatteryStep == BatteryInv /\ [BatteryNext]_batteryVars => BatteryInv'
<1> SUFFICES ASSUME BatteryInv, [BatteryNext]_batteryVars PROVE BatteryInv'
    OBVIOUS
<1>0. /\ bus \in Buses /\ batt \in Readings
      /\ MISSES \in Nat /\ REINIT \in Nat /\ BATT_STALE_MS \in Nat
    BY BatteryAssumption DEF BatteryInv
<1>1. ASSUME NEW elapsed \in 1 .. 2, NEW preempted \in BOOLEAN, NEW works \in BOOLEAN,
             LET miss == Within(MISSES + 1, batt.miss + 1)
                 try == Within(REINIT + 1, batt.try + elapsed)
                 age == Within(BATT_STALE_MS + 1, batt.age + elapsed)
                 reinit == ReinitDue(miss, try)
                 after == IF reinit /\ works THEN Reinited(bus) ELSE bus
                 diagnose == batt.ok /\ age > BATT_STALE_MS
                 read == Answers /\ ~preempted
             IN  IF read
                 THEN /\ batt' = [ok |-> TRUE, miss |-> 0, age |-> 0, try |-> try]
                      /\ UNCHANGED bus
                 ELSE /\ batt' = [ok |-> batt.ok /\ ~diagnose, age |-> age,
                                  try |-> IF reinit THEN 0 ELSE try,
                                  miss |-> IF diagnose /\ works
                                              /\ (after.held \/ after.gauge # "converting")
                                           THEN 0 ELSE miss]
                      /\ bus' = IF diagnose THEN Diagnosed(after, works) ELSE after
      PROVE BatteryInv'
  <2> DEFINE miss == Within(MISSES + 1, batt.miss + 1)
             try == Within(REINIT + 1, batt.try + elapsed)
             age == Within(BATT_STALE_MS + 1, batt.age + elapsed)
             reinit == ReinitDue(miss, try)
             after == IF reinit /\ works THEN Reinited(bus) ELSE bus
             diagnose == batt.ok /\ age > BATT_STALE_MS
             read == Answers /\ ~preempted
             ok == batt.ok /\ ~diagnose
             m == IF diagnose /\ works /\ (after.held \/ after.gauge # "converting") THEN 0 ELSE miss
             t == IF reinit THEN 0 ELSE try
  <2>1. /\ miss \in 0 .. MISSES + 1 /\ try \in 0 .. REINIT + 1 /\ age \in 0 .. BATT_STALE_MS + 1
    <3>1. batt.miss + 1 \in Nat /\ batt.try + elapsed \in Nat /\ batt.age + elapsed \in Nat
      BY <1>0 DEF Readings
    <3>2. MISSES + 1 \in Nat /\ REINIT + 1 \in Nat /\ BATT_STALE_MS + 1 \in Nat
      BY <1>0
    <3> QED BY <3>1, <3>2 DEF Within
  <2>2. after \in Buses
    BY <1>0, ReinitedIs
  <2>3. Diagnosed(after, works) \in Buses
    BY <2>2, DiagnosedIs
  <2>4. \/ batt' = [ok |-> TRUE, miss |-> 0, age |-> 0, try |-> try] /\ bus' = bus
        \/ /\ batt' = [ok |-> ok, age |-> age, try |-> t, miss |-> m]
           /\ bus' = IF diagnose THEN Diagnosed(after, works) ELSE after
    BY <1>1
  <2>5. m \in 0 .. MISSES + 1 /\ t \in 0 .. REINIT + 1 /\ ok \in BOOLEAN
    BY <1>0, <2>1
  <2> HIDE DEF miss, try, age, reinit, after, diagnose, read, ok, m, t
  <2>6. bus' \in Buses
    BY <1>0, <2>2, <2>3, <2>4
  <2>7. batt' \in Readings
    <3>1. CASE batt' = [ok |-> TRUE, miss |-> 0, age |-> 0, try |-> try]
      BY <1>0, <2>1, <3>1 DEF Readings
    <3>2. CASE batt' = [ok |-> ok, age |-> age, try |-> t, miss |-> m]
      BY <2>1, <2>5, <3>2 DEF Readings
    <3> QED BY <2>4, <3>1, <3>2
  <2> QED BY <2>6, <2>7 DEF BatteryInv
<1>2. CASE Fault
  <2>1. \/ bus' = [bus EXCEPT !.wedged = TRUE]
        \/ bus' = [bus EXCEPT !.held = TRUE]
        \/ bus' = [bus EXCEPT !.gauge = "powered down"]
    BY <1>2 DEF Fault
  <2>2. bus' \in Buses
    BY <1>0, <2>1 DEF Buses, GaugeStates
  <2> QED BY <1>0, <1>2, <2>2 DEF Fault, BatteryInv
<1>3. CASE UNCHANGED batteryVars
    BY <1>3 DEF batteryVars, BatteryInv
<1> QED BY <1>1, <1>2, <1>3 DEF BatteryNext, Poll

LEMMA BatteryInvImplies == BatteryInv => BatteryTypeOK
BY DEF BatteryInv, BatteryTypeOK, Buses, Readings, GaugeStates

-----------------------------------------------------------------------------
(***************************************************************************)
(* NetSource                                                                *)
(***************************************************************************)
EveryDay == 0 .. MAX_DAY
Contents == {NotCached, Marker} \cup [what : {"blob"}, of : EveryDay, at : Nat]
Memos == [of : EveryDay, off : Nat]
TileMaps == [Tiles -> Contents]
Devices == [build : EveryDay, adopted : EveryDay, remote : EveryDay, memo : Memos,
            tiles : TileMaps]
WalkPlaces == [build : EveryDay, at : 0 .. TILES]
TileSets == SUBSET Tiles
Disks == [build : EveryDay, adopted : EveryDay, pos : WalkPlaces, ok : BOOLEAN,
          flushed : TileSets]
Walks == [at : 0 .. TILES + 1, asked : BOOLEAN]

(* What a device has of tiles is its build's. *)
TilesTrue(d) == \A t \in Tiles : d.tiles[t] \in {NotCached, Holds(d.build, t)}

(* So is what it has open and what it has last read. *)
DevSound(d) ==
    /\ d \in Devices /\ TilesTrue(d)
    /\ d.remote \in {0, d.build}
    /\ d.memo.off # 0 => d.memo.of = d.build

LEMMA NetNumbers ==
    /\ TILES \in Nat \ {0} /\ MAX_DAY \in Nat \ {0}
    /\ 0 \in EveryDay /\ 1 \in EveryDay /\ EveryDay \subseteq Nat
    /\ Covered \subseteq Tiles
    /\ NotCached \in Contents /\ Marker \in Contents /\ Marker # NotCached
    /\ NoMemo \in Memos /\ NoMemo.off = 0
    /\ NoTiles \in TileMaps
    /\ NoPos \in WalkPlaces /\ NoPos.at = 0
<1>1. /\ TILES \in Nat \ {0} /\ MAX_DAY \in Nat \ {0}
      /\ 0 \in EveryDay /\ 1 \in EveryDay /\ EveryDay \subseteq Nat
      /\ Covered \subseteq Tiles
    BY NetAssumption DEF EveryDay, Tiles
<1>2. NotCached \in Contents /\ Marker \in Contents /\ Marker # NotCached
    BY DEF Contents, NotCached, Marker
<1>3. NoMemo \in Memos /\ NoMemo.off = 0
    BY <1>1 DEF NoMemo, Memos
<1>4. NoTiles \in TileMaps
    BY <1>2 DEF NoTiles, TileMaps
<1>5. NoPos \in WalkPlaces /\ NoPos.at = 0
    BY <1>1 DEF NoPos, WalkPlaces
<1> QED BY <1>1, <1>2, <1>3, <1>4, <1>5

LEMMA DevFields ==
    ASSUME NEW d \in Devices
    PROVE /\ d.build \in EveryDay /\ d.adopted \in EveryDay /\ d.remote \in EveryDay
          /\ d.memo \in Memos /\ d.tiles \in TileMaps
          /\ d = [build |-> d.build, adopted |-> d.adopted, remote |-> d.remote,
                  memo |-> d.memo, tiles |-> d.tiles]
BY DEF Devices

LEMMA MemoFields ==
    ASSUME NEW m \in Memos PROVE m.of \in EveryDay /\ m.off \in Nat
BY DEF Memos

LEMMA ClassIs == \A t \in Tiles : Class(t) \in Nat /\ Class(t) # 0
BY DEF Class, Tiles

LEMMA BlobIs ==
    ASSUME NEW b \in EveryDay, NEW n \in Nat
    PROVE Blob(b, n) \in Contents /\ Blob(b, n) # NotCached
BY DEF Blob, Contents, NotCached

LEMMA HoldsIs ==
    ASSUME NEW b \in EveryDay, NEW t \in Tiles
    PROVE Holds(b, t) \in Contents /\ Holds(b, t) # NotCached
<1>1. Blob(b, Class(t)) \in Contents /\ Blob(b, Class(t)) # NotCached
    BY ClassIs, BlobIs
<1> QED BY <1>1, NetNumbers DEF Holds

LEMMA OpenRemoteIs ==
    ASSUME NEW d \in Devices
    PROVE /\ OpenRemote(d) \in Devices
          /\ OpenRemote(d).build = d.build /\ OpenRemote(d).adopted = d.adopted
          /\ OpenRemote(d).tiles = d.tiles /\ OpenRemote(d).memo = NoMemo
          /\ OpenRemote(d).remote \in {0, d.build}
<1> DEFINE r == IF Reads(d.build) THEN d.build ELSE 0
<1>1. r \in EveryDay /\ r \in {0, d.build}
    BY DevFields, NetNumbers
<1>2. OpenRemote(d) = [d EXCEPT !.memo = NoMemo, !.remote = r]
    BY DEF OpenRemote
<1> HIDE DEF r
<1>3. OpenRemote(d) = [build |-> d.build, adopted |-> d.adopted, remote |-> r,
                       memo |-> NoMemo, tiles |-> d.tiles]
    BY <1>2 DEF Devices
<1>4. OpenRemote(d) \in Devices
    BY <1>1, <1>3, DevFields, NetNumbers DEF Devices
<1> QED BY <1>1, <1>3, <1>4

(* An archive that is opened is the build's, and what was read of another   *)
(* is forgotten.                                                            *)
LEMMA OpenRemoteSound ==
    ASSUME NEW d \in Devices, TilesTrue(d) PROVE DevSound(OpenRemote(d))
BY OpenRemoteIs, NetNumbers DEF DevSound, TilesTrue

LEMMA ClosedSound ==
    ASSUME NEW d, DevSound(d)
    PROVE /\ DevSound([d EXCEPT !.remote = 0])
          /\ [d EXCEPT !.remote = 0].build = d.build
          /\ [d EXCEPT !.remote = 0].tiles = d.tiles
<1> DEFINE e == [d EXCEPT !.remote = 0]
<1>1. d \in Devices
    BY DEF DevSound
<1>2. e = [build |-> d.build, adopted |-> d.adopted, remote |-> 0, memo |-> d.memo,
           tiles |-> d.tiles]
    BY <1>1 DEF Devices
<1> HIDE DEF e
<1>3. e \in Devices
    BY <1>1, <1>2, DevFields, NetNumbers DEF Devices
<1>4. DevSound(e) /\ e.build = d.build /\ e.tiles = d.tiles
    BY <1>2, <1>3 DEF DevSound, TilesTrue
<1> QED BY <1>4 DEF e

LEMMA RefreshedSound ==
    ASSUME NEW d, DevSound(d), NEW fresh \in EveryDay, date.today \in EveryDay
    PROVE /\ DevSound(Refreshed(d, fresh))
          /\ Refreshed(d, fresh).build = d.build => Refreshed(d, fresh).tiles = d.tiles
<1>1. CASE fresh = 0
    BY <1>1 DEF Refreshed
<1>2. CASE fresh # 0
  <2> DEFINE tiles == IF fresh = d.build THEN d.tiles ELSE NoTiles
             e == [d EXCEPT !.build = fresh, !.adopted = date.today,
                            !.tiles = IF fresh = d.build THEN @ ELSE NoTiles]
  <2>1. d \in Devices /\ TilesTrue(d)
    BY DEF DevSound
  <2>2. e = [build |-> fresh, adopted |-> date.today, remote |-> d.remote, memo |-> d.memo,
             tiles |-> tiles]
    <3>1. e = [d EXCEPT !.build = fresh, !.adopted = date.today, !.tiles = tiles]
      BY <2>1 DEF Devices
    <3> HIDE DEF e, tiles
    <3> DEFINE x == date.today
    <3>2. e = [d EXCEPT !.build = fresh, !.adopted = x, !.tiles = tiles]
      BY <3>1
    <3> HIDE DEF x
    <3>3. e = [build |-> fresh, adopted |-> x, remote |-> d.remote, memo |-> d.memo,
               tiles |-> tiles]
      BY <2>1, <3>2 DEF Devices
    <3> QED BY <3>3 DEF x
  <2>3. tiles \in TileMaps
    BY <2>1, DevFields, NetNumbers
  <2>4. \A t \in Tiles : tiles[t] \in {NotCached, Holds(fresh, t)}
    BY <2>1 DEF TilesTrue, NoTiles
  <2>5. Refreshed(d, fresh) = OpenRemote(e)
    BY <1>2 DEF Refreshed
  <2> HIDE DEF e, tiles
  <2>6. e \in Devices
    BY <2>1, <2>2, <2>3, DevFields DEF Devices
  <2>7. TilesTrue(e)
    BY <2>2, <2>4 DEF TilesTrue
  <2>8. e.build = fresh /\ e.tiles = tiles
    BY <2>2
  <2>9. fresh = d.build => tiles = d.tiles
    BY DEF tiles
  <2> QED BY <2>5, <2>6, <2>7, <2>8, <2>9, OpenRemoteSound, OpenRemoteIs
<1> QED BY <1>1, <1>2

LEMMA MaybeRefreshedSound ==
    ASSUME DevSound(dev), NEW fresh \in EveryDay, date.today \in EveryDay
    PROVE /\ DevSound(MaybeRefreshed(fresh))
          /\ MaybeRefreshed(fresh).build = dev.build => MaybeRefreshed(fresh).tiles = dev.tiles
<1>0. dev \in Devices /\ TilesTrue(dev)
    BY DEF DevSound
<1>1. CASE dev.remote # 0 /\ ~AgedOut
  <2>1. MaybeRefreshed(fresh) = dev
    BY <1>1 DEF MaybeRefreshed
  <2> QED BY <2>1
<1>2. CASE dev.remote # 0 /\ AgedOut
  <2> DEFINE d == [dev EXCEPT !.remote = 0]
  <2>1. MaybeRefreshed(fresh) = Refreshed(d, fresh)
    BY <1>2 DEF MaybeRefreshed
  <2>2. DevSound(d) /\ d.build = dev.build /\ d.tiles = dev.tiles
    BY ClosedSound
  <2> HIDE DEF d
  <2> QED BY <2>1, <2>2, RefreshedSound
<1>3. CASE dev.remote = 0 /\ ~world.link
  <2>1. MaybeRefreshed(fresh) = dev
    BY <1>3 DEF MaybeRefreshed
  <2> QED BY <2>1
<1>4. CASE dev.remote = 0 /\ world.link
  <2> DEFINE d == IF dev.build = 0 THEN dev ELSE OpenRemote(dev)
  <2>1. MaybeRefreshed(fresh) = IF d.remote # 0 THEN d ELSE Refreshed(d, fresh)
    BY <1>4 DEF MaybeRefreshed
  <2>2. DevSound(d) /\ d.build = dev.build /\ d.tiles = dev.tiles
    BY <1>0, OpenRemoteSound, OpenRemoteIs
  <2> HIDE DEF d
  <2> QED BY <2>1, <2>2, RefreshedSound
<1> QED BY <1>1, <1>2, <1>3, <1>4

(* What one fetch may do to the tiles: nothing, or put one of them in.      *)
Gains(d, e, t) ==
    /\ e.build = d.build /\ e.adopted = d.adopted
    /\ \A u \in Tiles : d.tiles[u] # NotCached => e.tiles[u] # NotCached

LEMMA StoredSound ==
    ASSUME NEW d, DevSound(d), NEW t \in Tiles, NEW x, x = Holds(d.build, t),
           NEW m \in Memos, m.off # 0 => m.of = d.build,
           NEW e, e = [build |-> d.build, adopted |-> d.adopted, remote |-> d.remote,
                       memo |-> m, tiles |-> [d.tiles EXCEPT ![t] = x]]
    PROVE DevSound(e) /\ Gains(d, e, t)
<1>1. d \in Devices /\ TilesTrue(d) /\ d.remote \in {0, d.build}
    BY DEF DevSound
<1>2. /\ d.build \in EveryDay /\ d.adopted \in EveryDay /\ d.remote \in EveryDay
      /\ d.tiles \in [Tiles -> Contents]
    BY <1>1, DevFields DEF TileMaps
<1>3. x \in Contents /\ x # NotCached
    BY <1>2, HoldsIs
<1> DEFINE f == [d.tiles EXCEPT ![t] = x]
<1>4. f \in TileMaps /\ \A u \in Tiles : f[u] = IF u = t THEN x ELSE d.tiles[u]
    BY <1>2, <1>3 DEF TileMaps
<1>5. e.build = d.build /\ e.adopted = d.adopted /\ e.remote = d.remote /\ e.memo = m
      /\ e.tiles = f
    OBVIOUS
<1>6. e = [build |-> d.build, adopted |-> d.adopted, remote |-> d.remote, memo |-> m, tiles |-> f]
    OBVIOUS
<1> HIDE DEF f
<1>7. e \in Devices
    BY <1>2, <1>4, <1>6 DEF Devices
<1>8. TilesTrue(e)
    BY <1>1, <1>4, <1>5 DEF TilesTrue
<1>9. Gains(d, e, t)
    BY <1>3, <1>4, <1>5 DEF Gains
<1> QED BY <1>1, <1>5, <1>7, <1>8, <1>9 DEF DevSound

LEMMA FetchedSound ==
    ASSUME NEW d, DevSound(d), d.remote # 0, NEW t \in Tiles,
           NEW outcome \in {"nothing", "directory", "bytes"}
    PROVE DevSound(Fetched(d, t, outcome)) /\ Gains(d, Fetched(d, t, outcome), t)
<1> DEFINE e == Fetched(d, t, outcome)
<1>1. /\ d \in Devices /\ d.remote = d.build /\ d.build \in EveryDay
      /\ d.memo \in Memos /\ (d.memo.off # 0 => d.memo.of = d.build)
      /\ d.tiles \in TileMaps
      /\ d = [build |-> d.build, adopted |-> d.adopted, remote |-> d.remote,
              memo |-> d.memo, tiles |-> d.tiles]
    BY DevFields DEF DevSound
<1>2. CASE e = d
    BY <1>2 DEF Gains
<1>3. CASE outcome # "nothing" /\ IsSea(d.remote, t)
  <2>1. e = [d EXCEPT !.tiles[t] = Marker]
    BY <1>3 DEF Fetched
  <2>2. Marker = Holds(d.build, t)
    BY <1>1, <1>3 DEF Holds
  <2> HIDE DEF e
  <2>3. e = [build |-> d.build, adopted |-> d.adopted, remote |-> d.remote,
             memo |-> d.memo, tiles |-> [d.tiles EXCEPT ![t] = Marker]]
    BY <1>1, <2>1 DEF Devices
  <2>4. DevSound(e) /\ Gains(d, e, t)
    BY <1>1, <2>2, <2>3, StoredSound
  <2> QED BY <2>4 DEF e
<1>4. CASE outcome # "nothing" /\ ~IsSea(d.remote, t) /\ d.memo.off = Class(t)
  <2> DEFINE x == Blob(d.memo.of, d.memo.off)
  <2>1. e = [d EXCEPT !.tiles[t] = x]
    BY <1>4 DEF Fetched
  <2>2. x = Holds(d.build, t)
    BY <1>1, <1>4, ClassIs DEF Holds
  <2> HIDE DEF e, x
  <2>3. e = [build |-> d.build, adopted |-> d.adopted, remote |-> d.remote,
             memo |-> d.memo, tiles |-> [d.tiles EXCEPT ![t] = x]]
    BY <1>1, <2>1 DEF Devices
  <2>4. DevSound(e) /\ Gains(d, e, t)
    BY <1>1, <2>2, <2>3, StoredSound
  <2> QED BY <2>4 DEF e
<1>5. CASE outcome = "bytes" /\ Reads(d.remote) /\ ~IsSea(d.remote, t) /\ d.memo.off # Class(t)
  <2> DEFINE x == Blob(d.remote, Class(t))
             m == [of |-> d.remote, off |-> Class(t)]
  <2>1. e = [d EXCEPT !.tiles[t] = x, !.memo = m]
    BY <1>5 DEF Fetched
  <2>2. x = Holds(d.build, t)
    BY <1>1, <1>5 DEF Holds
  <2>3. m \in Memos /\ m.of = d.build
    BY <1>1, ClassIs DEF Memos
  <2> HIDE DEF e, x, m
  <2>4. e = [build |-> d.build, adopted |-> d.adopted, remote |-> d.remote,
             memo |-> m, tiles |-> [d.tiles EXCEPT ![t] = x]]
    BY <1>1, <2>1 DEF Devices
  <2>5. DevSound(e) /\ Gains(d, e, t)
    BY <1>1, <2>2, <2>3, <2>4, StoredSound
  <2> QED BY <2>5 DEF e
<1>6. CASE outcome = "nothing"
  <2>1. e = d
    BY <1>6 DEF Fetched
  <2> QED BY <1>2, <2>1
<1>7. CASE outcome # "nothing" /\ ~IsSea(d.remote, t) /\ d.memo.off # Class(t)
           /\ ~(outcome = "bytes" /\ Reads(d.remote))
  <2>1. e = d
    BY <1>7 DEF Fetched
  <2> QED BY <1>2, <2>1
<1> HIDE DEF e
<1> QED BY <1>3, <1>4, <1>5, <1>6, <1>7 DEF e

LEMMA GotSound ==
    ASSUME DevSound(dev), date.today \in EveryDay, NEW t \in Tiles, NEW onCard,
           NEW fresh \in EveryDay, NEW outcome \in {"nothing", "directory", "bytes"}
    PROVE LET e == Got(t, onCard, fresh, outcome)
          IN  /\ DevSound(e)
              /\ e.build = dev.build =>
                    \A u \in Tiles : dev.tiles[u] # NotCached => e.tiles[u] # NotCached
<1> DEFINE e == Got(t, onCard, fresh, outcome)
<1>1. CASE ~AsksNetwork(t, onCard)
  <2>1. e = dev
    BY <1>1 DEF Got
  <2> QED BY <2>1
<1>2. CASE AsksNetwork(t, onCard)
  <2> DEFINE d == MaybeRefreshed(fresh)
  <2>1. e = IF d.remote = 0 THEN d ELSE Fetched(d, t, outcome)
    BY <1>2 DEF Got
  <2>2. DevSound(d) /\ (d.build = dev.build => d.tiles = dev.tiles)
    BY MaybeRefreshedSound
  <2> HIDE DEF d, e
  <2>3. CASE d.remote = 0
    <3>1. e = d
      BY <2>1, <2>3
    <3> QED BY <2>2, <3>1 DEF e
  <2>4. CASE d.remote # 0
    <3>1. e = Fetched(d, t, outcome)
      BY <2>1, <2>4
    <3>2. DevSound(e) /\ Gains(d, e, t)
      BY <2>2, <2>4, <3>1, FetchedSound
    <3> QED BY <2>2, <3>2 DEF Gains, e
  <2> QED BY <2>3, <2>4
<1> QED BY <1>1, <1>2

(* A tile the walk need not come back to: it never comes to be one again.   *)
Settled(t) == t \in Covered \cup gone \/ dev.tiles[t] # NotCached

NetTyped ==
    /\ world \in [day : Days, link : BOOLEAN]
    /\ date \in [today : EveryDay, set : BOOLEAN]
    /\ disk \in Disks
    /\ walk \in Walks
    /\ gone \subseteq Tiles

(* The walk is at a tile that is its to fetch, and the checkpoint names one. *)
WalkTyped ==
    /\ walk.asked => walk.at \in Tiles \ Covered
    /\ disk.pos.at \in {0} \cup (Tiles \ Covered)

(* A restart is given the build the device has.                             *)
DiskFollows == disk.build = dev.build /\ disk.adopted = dev.adopted

(* Everything the walk, or a walk resumed at the checkpoint, has behind it. *)
WalkSettles ==
    /\ walk.at # 0 => \A t \in Tiles : t < walk.at => Settled(t)
    /\ disk.pos.at # 0 => \A t \in Tiles : t < disk.pos.at => Settled(t)
    /\ disk.ok => \A t \in Tiles : Settled(t)

NetInv == NetTyped /\ WalkTyped /\ DiskFollows /\ DevSound(dev) /\ WalkSettles

LEMMA DiskFields ==
    ASSUME NEW d \in Disks
    PROVE /\ d.build \in EveryDay /\ d.adopted \in EveryDay /\ d.pos \in WalkPlaces
          /\ d.ok \in BOOLEAN /\ d.flushed \in TileSets
          /\ d = [build |-> d.build, adopted |-> d.adopted, pos |-> d.pos, ok |-> d.ok,
                  flushed |-> d.flushed]
BY DEF Disks

LEMMA WalkFields ==
    ASSUME NEW w \in Walks
    PROVE w.at \in 0 .. TILES + 1 /\ w.asked \in BOOLEAN
BY DEF Walks

LEMMA NetStarts == NetInit => NetInv
<1> SUFFICES ASSUME NetInit PROVE NetInv
    OBVIOUS
<1>1. NetTyped
  <2>1. disk \in Disks
    BY NetNumbers DEF NetInit, Disks, TileSets
  <2>2. walk \in Walks
    BY NetNumbers DEF NetInit, Walks
  <2>3. 1 \in Days
    BY NetNumbers DEF Days
  <2> QED BY <2>1, <2>2, <2>3, NetNumbers DEF NetInit, NetTyped
<1>2. dev = [build |-> 0, adopted |-> 0, remote |-> 0, memo |-> NoMemo, tiles |-> NoTiles]
    BY DEF NetInit
<1>3. dev \in Devices
    BY <1>2, NetNumbers DEF Devices
<1>4. \A t \in Tiles : dev.tiles[t] = NotCached
    BY <1>2 DEF NoTiles
<1>5. DevSound(dev)
    BY <1>2, <1>3, <1>4, NetNumbers DEF DevSound, TilesTrue
<1>6. WalkTyped /\ DiskFollows
    BY <1>2, NetNumbers DEF NetInit, WalkTyped, DiskFollows
<1>7. WalkSettles
  <2>1. walk.at = 1 /\ disk.pos.at = 0 /\ ~disk.ok
    BY NetNumbers DEF NetInit
  <2> QED BY <2>1 DEF WalkSettles, Tiles
<1> QED BY <1>1, <1>5, <1>6, <1>7 DEF NetInv

(* A step that leaves the checkpoint and the walk keeps what is behind them *)
(* if no tile stops being settled.                                          *)
LEMMA WalkSettlesOn ==
    ASSUME WalkSettles, \A t \in Tiles : Settled(t) => Settled(t)',
           walk'.at = walk.at, disk'.pos = disk.pos, disk'.ok = disk.ok
    PROVE WalkSettles'
BY DEF WalkSettles

LEMMA GetKeeps ==
    ASSUME NetInv, NEW t \in Tiles, Get(t)
    PROVE /\ DevSound(dev') /\ disk' \in Disks /\ gone' \subseteq Tiles
          /\ DiskFollows' /\ disk'.pos = disk.pos /\ disk'.ok = disk.ok
          /\ \A u \in Tiles : Settled(u) => Settled(u)'
<1>1. PICK onCard \in {FALSE, (t \in Covered)}, fresh \in Discovered(date.today),
         outcome \in {"nothing", "directory", "bytes"} :
        /\ dev' = Got(t, onCard, fresh, outcome)
        /\ disk' = IF dev'.adopted = dev.adopted /\ dev'.build = dev.build THEN disk
                   ELSE [disk EXCEPT !.build = dev'.build, !.adopted = dev'.adopted,
                                     !.flushed = IF dev'.build = dev.build THEN @ ELSE {}]
        /\ gone' = gone \cup (IF dev'.build = dev.build THEN {}
                              ELSE {u \in Tiles : dev.tiles[u] # NotCached})
    BY DEF Get
<1>2. fresh \in EveryDay
  <2>1. HostedOn(world.day) \subseteq EveryDay
    BY NetNumbers DEF HostedOn, Days, EveryDay
  <2>2. fresh \in EveryDay
    BY <2>1, NetNumbers DEF Discovered
  <2> QED BY <2>2
<1>3. /\ DevSound(dev')
      /\ dev'.build = dev.build =>
            \A u \in Tiles : dev.tiles[u] # NotCached => dev'.tiles[u] # NotCached
    BY <1>1, <1>2, GotSound DEF NetInv, NetTyped
<1>4. /\ disk \in Disks /\ disk.build = dev.build /\ disk.adopted = dev.adopted
    BY DEF NetInv, NetTyped, DiskFollows
<1>5. gone' \subseteq Tiles /\ \A u \in Tiles : Settled(u) => Settled(u)'
  <2>1. gone \subseteq Tiles
    BY DEF NetInv, NetTyped
  <2> QED BY <1>1, <1>3, <2>1 DEF Settled
<1>6. CASE dev'.adopted = dev.adopted /\ dev'.build = dev.build
  <2>1. disk' = disk
    BY <1>1, <1>6
  <2> QED BY <1>3, <1>4, <1>5, <1>6, <2>1 DEF DiskFollows
<1>7. CASE ~(dev'.adopted = dev.adopted /\ dev'.build = dev.build)
  <2> DEFINE b == dev'.build
             a == dev'.adopted
             f == IF dev'.build = dev.build THEN disk.flushed ELSE {}
  <2>1. disk' = [disk EXCEPT !.build = b, !.adopted = a,
                             !.flushed = IF dev'.build = dev.build THEN @ ELSE {}]
    BY <1>1, <1>7
  <2>2. disk' = [disk EXCEPT !.build = b, !.adopted = a, !.flushed = f]
    BY <1>4, <2>1 DEF Disks
  <2>3. b \in EveryDay /\ a \in EveryDay /\ f \in TileSets
    BY <1>3, <1>4, DevFields, DiskFields DEF DevSound, TileSets
  <2> HIDE DEF b, a, f
  <2>4. disk' = [build |-> b, adopted |-> a, pos |-> disk.pos, ok |-> disk.ok, flushed |-> f]
    BY <1>4, <2>2 DEF Disks
  <2>5. disk' \in Disks
    BY <1>4, <2>3, <2>4, DiskFields DEF Disks
  <2>6. disk'.build = b /\ disk'.adopted = a /\ disk'.pos = disk.pos /\ disk'.ok = disk.ok
    BY <2>4
  <2> QED BY <1>3, <1>5, <2>5, <2>6 DEF DiskFollows, a, b
<1> QED BY <1>6, <1>7

LEMMA NetStep == NetInv /\ [NetNext]_netVars => NetInv'
<1> SUFFICES ASSUME NetInv, [NetNext]_netVars PROVE NetInv'
    OBVIOUS
<1>0. /\ NetTyped /\ WalkTyped /\ DiskFollows /\ DevSound(dev) /\ WalkSettles
      /\ walk.at \in 0 .. TILES + 1 /\ walk.asked \in BOOLEAN
      /\ dev \in Devices /\ disk \in Disks
    BY WalkFields DEF NetInv, NetTyped, DevSound
<1>1. ASSUME NEW t \in Tiles, Get(t), UNCHANGED <<world, date, walk>>
      PROVE  NetInv'
  <2>1. /\ DevSound(dev') /\ disk' \in Disks /\ gone' \subseteq Tiles
        /\ DiskFollows' /\ disk'.pos = disk.pos /\ disk'.ok = disk.ok
        /\ \A u \in Tiles : Settled(u) => Settled(u)'
    BY <1>1, GetKeeps
  <2>2. NetTyped' /\ WalkTyped'
    BY <1>0, <1>1, <2>1 DEF NetTyped, WalkTyped
  <2>3. WalkSettles'
    BY <1>0, <1>1, <2>1, WalkSettlesOn
  <2> QED BY <2>1, <2>2, <2>3 DEF NetInv
<1>2. CASE WalkPast
  <2>1. /\ walk.at \in Tiles \cap Covered /\ ~walk.asked
        /\ walk' = [walk EXCEPT !.at = @ + 1]
        /\ UNCHANGED <<world, date, dev, disk, gone>>
    BY <1>2 DEF WalkPast, Waiting
  <2>2. walk' \in Walks /\ walk'.at = walk.at + 1 /\ ~walk'.asked
    <3>1. walk.at + 1 \in 0 .. TILES + 1
      BY <2>1, NetNumbers DEF Tiles
    <3>2. walk' = [at |-> walk.at + 1, asked |-> walk.asked]
      BY <1>0, <2>1 DEF NetTyped, Walks
    <3> QED BY <1>0, <2>1, <3>1, <3>2 DEF Walks
  <2>3. NetTyped' /\ WalkTyped' /\ DiskFollows' /\ DevSound(dev')
    BY <1>0, <2>1, <2>2 DEF NetTyped, WalkTyped, DiskFollows, DevSound, TilesTrue
  <2>4. \A t \in Tiles : t < walk'.at => Settled(t)
    <3>1. ASSUME NEW t \in Tiles, t < walk.at + 1
          PROVE  Settled(t)
      <4>1. CASE t = walk.at
        BY <2>1, <4>1 DEF Settled
      <4>2. CASE t < walk.at
        BY <1>0, <2>1, <4>2 DEF WalkSettles, Tiles
      <4> QED BY <3>1, <4>1, <4>2, <1>0, <2>1 DEF Tiles
    <3> QED BY <2>2, <3>1
  <2>5. WalkSettles'
    BY <1>0, <2>1, <2>4 DEF WalkSettles, Settled
  <2> QED BY <2>3, <2>5 DEF NetInv
<1>3. CASE WalkAsk
  <2>1. /\ walk.at \in Tiles \ Covered /\ ~walk.asked /\ Get(walk.at)
        /\ walk' = [walk EXCEPT !.asked = TRUE]
        /\ UNCHANGED <<world, date>>
    BY <1>3 DEF WalkAsk, Waiting
  <2>2. walk' \in Walks /\ walk'.at = walk.at
    BY <1>0, <2>1 DEF NetTyped, Walks
  <2>3. /\ DevSound(dev') /\ disk' \in Disks /\ gone' \subseteq Tiles
        /\ DiskFollows' /\ disk'.pos = disk.pos /\ disk'.ok = disk.ok
        /\ \A u \in Tiles : Settled(u) => Settled(u)'
    BY <2>1, GetKeeps
  <2>4. NetTyped' /\ WalkTyped'
    BY <1>0, <2>1, <2>2, <2>3 DEF NetTyped, WalkTyped
  <2>5. WalkSettles'
    BY <1>0, <2>2, <2>3, WalkSettlesOn
  <2> QED BY <2>3, <2>4, <2>5 DEF NetInv
<1>4. CASE WalkOn
  <2>0. walk.asked /\ walk.at \in Tiles \ Covered /\ UNCHANGED <<world, date, dev>>
    BY <1>0, <1>4 DEF WalkOn, WalkTyped
  <2>1. SavedPos \in Disks /\ SavedPos.build = disk.build /\ SavedPos.adopted = disk.adopted
        /\ SavedPos.ok = disk.ok
        /\ SavedPos.pos.at \in {disk.pos.at, walk.at}
    <3> DEFINE p == IF disk.build # 0 THEN [build |-> dev.build, at |-> walk.at] ELSE disk.pos
    <3>1. p \in WalkPlaces /\ p.at \in {disk.pos.at, walk.at}
      <4>1. dev.build \in EveryDay /\ walk.at \in 0 .. TILES
        BY <1>0, <2>0, DevFields, NetNumbers DEF Tiles
      <4> QED BY <1>0, <4>1, DiskFields DEF WalkPlaces
    <3>2. SavedPos = [disk EXCEPT !.pos = p]
      BY <1>0 DEF SavedPos, Disks
    <3> HIDE DEF p
    <3>3. SavedPos = [build |-> disk.build, adopted |-> disk.adopted, pos |-> p,
                      ok |-> disk.ok, flushed |-> disk.flushed]
      BY <1>0, <3>2 DEF Disks
    <3>4. SavedPos \in Disks
      BY <1>0, <3>1, <3>3, DiskFields DEF Disks
    <3> QED BY <3>1, <3>3, <3>4
  <2>2. disk' \in {disk, SavedPos}
    BY <1>4 DEF WalkOn
  <2>3. disk' \in Disks /\ disk'.build = disk.build /\ disk'.adopted = disk.adopted
        /\ disk'.ok = disk.ok /\ disk'.pos.at \in {disk.pos.at, walk.at}
    BY <1>0, <2>1, <2>2
  <2>4. DiskFollows' /\ DevSound(dev')
    BY <1>0, <2>0, <2>3 DEF DiskFollows, DevSound, TilesTrue
  <2>5. CASE world.link
    <3>1. /\ walk' = [at |-> walk.at + 1, asked |-> FALSE]
          /\ gone' = gone \cup (IF dev.tiles[walk.at] = NotCached THEN {walk.at} ELSE {})
      BY <1>4, <2>5 DEF WalkOn
    <3>2. walk' \in Walks /\ walk'.at = walk.at + 1 /\ ~walk'.asked
      <4>1. walk.at + 1 \in 0 .. TILES + 1
        BY <2>0, NetNumbers DEF Tiles
      <4> QED BY <3>1, <4>1 DEF Walks
    <3>3. gone' \subseteq Tiles
      BY <1>0, <2>0, <3>1 DEF NetTyped
    <3>4. \A t \in Tiles : (Settled(t) \/ t = walk.at) => Settled(t)'
      BY <2>0, <3>1 DEF Settled
    <3>5. NetTyped' /\ WalkTyped'
      BY <1>0, <2>0, <2>3, <3>2, <3>3 DEF NetTyped, WalkTyped
    <3>6. ASSUME NEW t \in Tiles, t < walk.at + 1
          PROVE  Settled(t)'
      <4>1. CASE t = walk.at
        BY <3>4, <4>1
      <4>2. CASE t < walk.at
        <5>1. Settled(t)
          BY <1>0, <2>0, <4>2 DEF WalkSettles, Tiles
        <5> QED BY <3>4, <5>1
      <4> QED BY <2>0, <3>6, <4>1, <4>2 DEF Tiles
    <3>7. ASSUME NEW t \in Tiles, disk'.pos.at # 0, t < disk'.pos.at
          PROVE  Settled(t)'
      <4>1. CASE disk'.pos.at = walk.at
        BY <2>0, <3>6, <3>7, <4>1 DEF Tiles
      <4>2. CASE disk'.pos.at = disk.pos.at
        BY <1>0, <3>4, <3>7, <4>2 DEF WalkSettles
      <4> QED BY <2>3, <4>1, <4>2
    <3>8. WalkSettles'
      <4>1. disk'.ok => \A t \in Tiles : Settled(t)'
        BY <1>0, <2>3, <3>4 DEF WalkSettles
      <4> QED BY <3>2, <3>6, <3>7, <4>1 DEF WalkSettles
    <3> QED BY <2>4, <3>5, <3>8 DEF NetInv
  <2>6. CASE ~world.link
    <3>1. walk' = [at |-> 0, asked |-> FALSE] /\ UNCHANGED gone
      BY <1>4, <2>6 DEF WalkOn
    <3>2. walk' \in Walks /\ walk'.at = 0 /\ ~walk'.asked
      BY <3>1, NetNumbers DEF Walks
    <3>3. \A t \in Tiles : Settled(t) => Settled(t)'
      BY <2>0, <3>1 DEF Settled
    <3>4. NetTyped' /\ WalkTyped'
      BY <1>0, <2>0, <2>3, <3>1, <3>2 DEF NetTyped, WalkTyped
    <3>5. ASSUME NEW t \in Tiles, disk'.pos.at # 0, t < disk'.pos.at
          PROVE  Settled(t)'
      <4>1. CASE disk'.pos.at = walk.at
        <5>1. Settled(t)
          BY <1>0, <2>0, <3>5, <4>1 DEF WalkSettles, Tiles
        <5> QED BY <3>3, <5>1
      <4>2. CASE disk'.pos.at = disk.pos.at
        BY <1>0, <3>3, <3>5, <4>2 DEF WalkSettles
      <4> QED BY <2>3, <4>1, <4>2
    <3>6. WalkSettles'
      <4>1. disk'.ok => \A t \in Tiles : Settled(t)'
        BY <1>0, <2>3, <3>3 DEF WalkSettles
      <4> QED BY <3>2, <3>5, <4>1 DEF WalkSettles
    <3> QED BY <2>4, <3>4, <3>6 DEF NetInv
  <2> QED BY <2>5, <2>6
<1>5. CASE WalkDone
  <2>1. /\ walk.at = TILES + 1 /\ walk' = [at |-> 0, asked |-> FALSE]
        /\ disk' = [disk EXCEPT !.pos = NoPos, !.ok = disk.build # 0]
        /\ UNCHANGED <<world, date, dev, gone>>
    BY <1>5 DEF WalkDone
  <2>2. walk' \in Walks /\ walk'.at = 0 /\ ~walk'.asked
    BY <2>1, NetNumbers DEF Walks
  <2>3. disk' \in Disks /\ disk'.build = disk.build /\ disk'.adopted = disk.adopted
        /\ disk'.pos.at = 0
    <3> DEFINE ok == disk.build # 0
    <3>1. ok \in BOOLEAN
      OBVIOUS
    <3>2. disk' = [disk EXCEPT !.pos = NoPos, !.ok = ok]
      BY <2>1
    <3> HIDE DEF ok
    <3>3. disk' = [build |-> disk.build, adopted |-> disk.adopted, pos |-> NoPos,
                   ok |-> ok, flushed |-> disk.flushed]
      BY <1>0, <3>2 DEF Disks
    <3>4. disk' \in Disks
      BY <1>0, <3>1, <3>3, DiskFields, NetNumbers DEF Disks
    <3> QED BY <3>3, <3>4, NetNumbers
  <2>4. \A t \in Tiles : Settled(t)
    BY <1>0, <2>1, NetNumbers DEF WalkSettles, Tiles
  <2>5. \A t \in Tiles : Settled(t)'
    BY <2>1, <2>4 DEF Settled
  <2> QED BY <1>0, <2>1, <2>2, <2>3, <2>5
          DEF NetInv, NetTyped, WalkTyped, DiskFollows, DevSound, TilesTrue, WalkSettles
<1>6. CASE Flush
  <2> DEFINE f == {t \in Tiles : dev.tiles[t] # NotCached}
  <2>1. disk' = [disk EXCEPT !.flushed = f] /\ UNCHANGED <<world, date, dev, walk, gone>>
    BY <1>6 DEF Flush
  <2>2. f \in TileSets
    BY DEF TileSets
  <2> HIDE DEF f
  <2>3. disk' = [build |-> disk.build, adopted |-> disk.adopted, pos |-> disk.pos,
                 ok |-> disk.ok, flushed |-> f]
    BY <1>0, <2>1 DEF Disks
  <2>4. disk' \in Disks
    BY <1>0, <2>2, <2>3, DiskFields DEF Disks
  <2>5. disk'.build = disk.build /\ disk'.adopted = disk.adopted /\ disk'.pos = disk.pos
        /\ disk'.ok = disk.ok
    BY <2>3
  <2>6. \A t \in Tiles : Settled(t) => Settled(t)'
    BY <2>1 DEF Settled
  <2>7. WalkSettles'
    BY <1>0, <2>1, <2>5, <2>6, WalkSettlesOn
  <2> QED BY <1>0, <2>1, <2>4, <2>5, <2>7
          DEF NetInv, NetTyped, WalkTyped, DiskFollows, DevSound, TilesTrue
<1>7. CASE NetRestart
  <2>1. PICK link \in BOOLEAN :
          /\ world' = [world EXCEPT !.link = link]
          /\ date' = [today |-> 0, set |-> FALSE]
          /\ dev' = [build |-> disk.build, adopted |-> disk.adopted, remote |-> 0, memo |-> NoMemo,
                     tiles |-> [t \in Tiles |-> IF t \in disk.flushed THEN dev.tiles[t] ELSE NotCached]]
          /\ gone' = gone \cup {t \in Tiles \ disk.flushed : dev.tiles[t] # NotCached}
          /\ walk' = [at |-> IF link /\ ~disk.ok THEN Resumed(disk.pos, disk.build) ELSE 0,
                      asked |-> FALSE]
          /\ UNCHANGED disk
    BY <1>7 DEF NetRestart
  <2> DEFINE at == IF link /\ ~disk.ok THEN Resumed(disk.pos, disk.build) ELSE 0
             tiles == [t \in Tiles |-> IF t \in disk.flushed THEN dev.tiles[t] ELSE NotCached]
  <2>2. at \in 0 .. TILES + 1 /\ at \in {0, 1, disk.pos.at}
    <3>1. disk.pos.at \in 0 .. TILES
      BY <1>0, DiskFields DEF WalkPlaces
    <3> QED BY <3>1, NetNumbers DEF Resumed
  <2>3. walk' = [at |-> at, asked |-> FALSE]
    BY <2>1
  <2>4. dev' = [build |-> disk.build, adopted |-> disk.adopted, remote |-> 0, memo |-> NoMemo,
                tiles |-> tiles]
    BY <2>1
  <2>5. tiles \in TileMaps /\ \A t \in Tiles : tiles[t] \in {dev.tiles[t], NotCached}
    BY <1>0, DevFields, NetNumbers DEF TileMaps
  <2>6. \A t \in Tiles : t \in disk.flushed => tiles[t] = dev.tiles[t]
    OBVIOUS
  <2> HIDE DEF at, tiles
  <2>7. walk' \in Walks /\ walk'.at = at /\ ~walk'.asked
    BY <2>2, <2>3 DEF Walks
  <2>8. DevSound(dev')
    <3>1. dev' \in Devices
      BY <1>0, <2>4, <2>5, DiskFields, NetNumbers DEF Devices
    <3>2. TilesTrue(dev')
      BY <1>0, <2>4, <2>5 DEF TilesTrue, DevSound, DiskFollows
    <3> QED BY <2>4, <3>1, <3>2, NetNumbers DEF DevSound
  <2>9. \A t \in Tiles : Settled(t) => Settled(t)'
    BY <2>1, <2>4, <2>6 DEF Settled
  <2>10. NetTyped' /\ WalkTyped' /\ DiskFollows'
    <3>1. world' \in [day : Days, link : BOOLEAN] /\ date' \in [today : EveryDay, set : BOOLEAN]
      BY <1>0, <2>1, NetNumbers DEF NetTyped
    <3>2. gone' \subseteq Tiles
      BY <1>0, <2>1 DEF NetTyped
    <3>3. dev'.build = disk.build /\ dev'.adopted = disk.adopted
      BY <2>4
    <3> QED BY <1>0, <2>1, <2>7, <3>1, <3>2, <3>3 DEF NetTyped, WalkTyped, DiskFollows
  <2>11. WalkSettles'
    <3>1. ASSUME NEW t \in Tiles, at # 0, t < at
          PROVE  Settled(t)'
      <4>1. at = disk.pos.at
        BY <2>2, <3>1 DEF Tiles
      <4> QED BY <1>0, <2>9, <3>1, <4>1 DEF WalkSettles
    <3>2. disk' = disk
      BY <2>1
    <3> QED BY <1>0, <2>7, <2>9, <3>1, <3>2 DEF WalkSettles
  <2> QED BY <2>8, <2>10, <2>11 DEF NetInv
<1>8. CASE SetDate
  <2>1. UNCHANGED <<world, dev, disk, walk, gone>>
    BY <1>8 DEF SetDate
  <2>2. date' \in [today : EveryDay, set : BOOLEAN]
    <3>1. world.day \in EveryDay
      BY <1>0, NetNumbers DEF NetTyped, Days, EveryDay
    <3>2. date' = [today |-> world.day, set |-> TRUE] \/ date' = [today |-> world.day, set |-> FALSE]
      <4>1. date' \in {[today |-> world.day, set |-> TRUE]} \cup
                        {[today |-> world.day, set |-> FALSE]}
        BY <1>8 DEF SetDate
      <4> QED BY <4>1
    <3>3. CASE date' = [today |-> world.day, set |-> TRUE]
      BY <3>1, <3>3
    <3>4. CASE date' = [today |-> world.day, set |-> FALSE]
      BY <3>1, <3>4
    <3> QED BY <3>2, <3>3, <3>4
  <2> QED BY <1>0, <2>1, <2>2
          DEF NetInv, NetTyped, WalkTyped, DiskFollows, DevSound, TilesTrue, WalkSettles, Settled
<1>9. CASE Outside
  <2>1. UNCHANGED <<date, dev, disk, walk, gone>>
    BY <1>9 DEF Outside
  <2>2. world' \in [day : Days, link : BOOLEAN]
    <3>1. CASE world' = [world EXCEPT !.link = ~@]
      BY <1>0, <3>1 DEF NetTyped
    <3>2. CASE world.day < MAX_DAY /\ world' = [world EXCEPT !.day = @ + 1]
      <4>1. world.day + 1 \in Days
        BY <1>0, <3>2, NetNumbers DEF NetTyped, Days
      <4> QED BY <1>0, <3>2, <4>1 DEF NetTyped
    <3> QED BY <1>9, <3>1, <3>2 DEF Outside
  <2> QED BY <1>0, <2>1, <2>2
          DEF NetInv, NetTyped, WalkTyped, DiskFollows, DevSound, TilesTrue, WalkSettles, Settled
<1>10. CASE UNCHANGED netVars
  <2>1. UNCHANGED <<world, date, dev, disk, walk, gone>>
    BY <1>10 DEF netVars
  <2> QED BY <1>0, <2>1
          DEF NetInv, NetTyped, WalkTyped, DiskFollows, DevSound, TilesTrue, WalkSettles, Settled
<1> QED BY <1>1, <1>2, <1>3, <1>4, <1>5, <1>6, <1>7, <1>8, <1>9, <1>10 DEF NetNext, Fetch

LEMMA NetInvImplies == NetInv => NetTypeOK /\ CacheOfBuild /\ FloorStored
<1> SUFFICES ASSUME NetInv PROVE NetTypeOK /\ CacheOfBuild /\ FloorStored
    OBVIOUS
<1>1. dev.build \in EveryDay /\ dev.adopted \in EveryDay /\ dev.remote \in {0, dev.build}
    BY DevFields DEF NetInv, DevSound
<1>2. walk.at \in 0 .. TILES + 1 /\ disk.flushed \subseteq Tiles
    BY WalkFields, DiskFields DEF NetInv, NetTyped, TileSets
<1>3. CacheOfBuild
    BY DEF NetInv, DevSound, TilesTrue, CacheOfBuild
<1>4. FloorStored
    BY DEF NetInv, WalkSettles, Settled, FloorStored
<1> QED BY <1>1, <1>2, <1>3, <1>4 DEF NetInv, WalkTyped, NetTypeOK, EveryDay

(* Every tile the cache has is what its build has for it, whatever memo,    *)
(* builds, restarts and failed reads came between; and a world marked as    *)
(* stored has every tile, but for those that failed with the link up or     *)
(* that were lost later (netsource.cpp:1283-1349, mapengine.cpp:2318-2480). *)
THEOREM CacheKeepsItsBuild == NetSpec => [](NetTypeOK /\ CacheOfBuild /\ FloorStored)
BY NetStarts, NetStep, NetInvImplies, PTL DEF NetSpec

-----------------------------------------------------------------------------
(***************************************************************************)
(* LocalArchives                                                            *)
(***************************************************************************)
DirOffsets == 0 .. MID
Owned == 0 .. ARCHIVES
Dirs == [of : Owned, at : DirOffsets]
CachedDirs == [cap : Nat, full : BOOLEAN, off : DirOffsets, dir : Dirs]
DirPaths == Seq(DirOffsets)
Lookups == [tile : 0 .. LTILES, next : 0 .. ARCHIVES + 1, todo : DirPaths,
            given : Dirs, asked : Dirs]

LoTyped ==
    /\ local \in [open : Seq(Archives), left : SUBSET Archives]
    /\ Len(local.open) + Cardinality(local.left) =< ARCHIVES
    /\ claim \in [Archives -> DirOffsets]
    /\ owner \in Owned
    /\ rooted \subseteq Archives
    /\ slots \in [1 .. SLOTS -> CachedDirs]
    /\ recent \in [1 .. SLOTS -> 1 .. SLOTS]
    /\ \A s \in 1 .. SLOTS : \E i \in 1 .. SLOTS : recent[i] = s
    /\ look \in Lookups

(* While the card is looked through nothing is looked up, and a lookup that *)
(* is in an archive is in the one that owns buffer and slots.               *)
LookupsOwn ==
    /\ local.left # {} => owner = 0 /\ look = NoLook
    /\ look.tile # 0 => look.next # 0
    /\ look.todo # <<>> \/ look.asked # NoDir =>
          look.tile # 0 /\ owner # 0 /\ look.next \in 1 .. Len(local.open)

(* What the buffer and the slots are taken to hold, they hold of the owner. *)
ClaimsTrue ==
    /\ \A a \in Archives : claim[a] # 0 => a = owner /\ dirBuf = Dir(a, claim[a])
    /\ \A s \in 1 .. SLOTS : slots[s].full => slots[s].dir = Dir(owner, slots[s].off)

LoInv == LoTyped /\ LookupsOwn /\ ClaimsTrue /\ LocalFaithful

LEMMA LoNumbers ==
    /\ ARCHIVES \in Nat \ {0} /\ LTILES \in Nat \ {0} /\ SLOTS \in Nat \ {0}
    /\ MID \in Nat /\ MID # 0 /\ 0 \in DirOffsets /\ 0 \in Owned /\ 0 \notin Archives
    /\ NoDir \in Dirs /\ <<>> \in DirPaths /\ NoLook \in Lookups
    /\ EmptySlot \in CachedDirs /\ ~EmptySlot.full
    /\ Archives \subseteq Owned
<1>1. ARCHIVES \in Nat \ {0} /\ LTILES \in Nat \ {0} /\ SLOTS \in Nat \ {0}
    BY ArchivesAssumption
<1>2. MID \in Nat /\ MID # 0 /\ 0 \in DirOffsets /\ 0 \in Owned /\ 0 \notin Archives
      /\ Archives \subseteq Owned
    BY <1>1 DEF MID, DirOffsets, Owned, Archives
<1>3. NoDir \in Dirs
    BY <1>2 DEF NoDir, Dirs
<1>4. <<>> \in DirPaths
    BY EmptySeq DEF DirPaths
<1>5. NoLook \in Lookups
    BY <1>1, <1>3, <1>4 DEF NoLook, Lookups
<1>6. EmptySlot \in CachedDirs /\ ~EmptySlot.full
    BY <1>2, <1>3 DEF EmptySlot, CachedDirs
<1> QED BY <1>1, <1>2, <1>3, <1>4, <1>5, <1>6

LEMMA LookFields ==
    ASSUME NEW k \in Lookups
    PROVE /\ k.tile \in 0 .. LTILES /\ k.next \in 0 .. ARCHIVES + 1 /\ k.todo \in DirPaths
          /\ k.given \in Dirs /\ k.asked \in Dirs
BY DEF Lookups

LEMMA DirIs ==
    ASSUME NEW a \in Archives, NEW off \in DirOffsets
    PROVE Dir(a, off) \in Dirs /\ Dir(a, off) # NoDir
BY LoNumbers DEF Dir, Dirs, NoDir

LEMMA AskedIs ==
    ASSUME NEW k \in Lookups, k.todo # <<>>
    PROVE Head(k.todo) \in DirOffsets /\ Tail(k.todo) \in DirPaths
<1>1. k.todo \in Seq(DirOffsets) /\ k.todo # <<>>
    BY LookFields DEF DirPaths
<1> QED BY <1>1, HeadTailProperties DEF DirPaths

LEMMA GivenIs ==
    ASSUME look \in Lookups, look.todo # <<>>, owner \in Archives,
           NEW d \in Dirs, Given(d)
    PROVE /\ look' \in Lookups
          /\ look'.tile = look.tile /\ look'.next = look.next
          /\ look'.given = d /\ look'.asked = Dir(owner, Asked)
<1>1. /\ look.tile \in 0 .. LTILES /\ look.next \in 0 .. ARCHIVES + 1
      /\ Tail(look.todo) \in DirPaths /\ Asked \in DirOffsets
    BY LookFields, AskedIs DEF Asked
<1> DEFINE asked == Dir(owner, Asked)
           rest == Tail(look.todo)
<1>2. asked \in Dirs
    BY <1>1, DirIs
<1>3. look' = [look EXCEPT !.given = d, !.asked = asked, !.todo = rest]
    BY DEF Given, Lookups
<1>4. look' = [tile |-> look.tile, next |-> look.next, todo |-> rest, given |-> d, asked |-> asked]
  <2> HIDE DEF asked, rest
  <2> QED BY <1>3 DEF Lookups
<1>5. rest \in DirPaths
    BY <1>1
<1> HIDE DEF asked, rest
<1>6. look' \in Lookups
    BY <1>1, <1>2, <1>4, <1>5 DEF Lookups
<1> QED BY <1>4, <1>6 DEF asked

LEMMA NextIs ==
    ASSUME look \in Lookups, look.next =< ARCHIVES
    PROVE /\ NextArchive \in Lookups /\ NextArchive.tile = look.tile
          /\ NextArchive.next = look.next + 1 /\ NextArchive.todo = <<>>
          /\ NextArchive.given = NoDir /\ NextArchive.asked = NoDir
<1>1. look.tile \in 0 .. LTILES /\ look.next + 1 \in 0 .. ARCHIVES + 1
    BY LookFields, LoNumbers
<1>2. NextArchive = [tile |-> look.tile, next |-> look.next + 1, todo |-> <<>>,
                     given |-> NoDir, asked |-> NoDir]
  <2>1. ASSUME NEW t, NEW n
        PROVE [NoLook EXCEPT !.tile = t, !.next = n]
                = [tile |-> t, next |-> n, todo |-> <<>>, given |-> NoDir, asked |-> NoDir]
    <3>1. [NoLook EXCEPT !.tile = t]
            = [tile |-> t, next |-> 0, todo |-> <<>>, given |-> NoDir, asked |-> NoDir]
      BY DEF NoLook
    <3>2. [NoLook EXCEPT !.tile = t, !.next = n] = [[NoLook EXCEPT !.tile = t] EXCEPT !.next = n]
      BY DEF NoLook
    <3>3. ASSUME NEW r, r = [tile |-> t, next |-> 0, todo |-> <<>>, given |-> NoDir, asked |-> NoDir]
          PROVE [r EXCEPT !.next = n]
                  = [tile |-> t, next |-> n, todo |-> <<>>, given |-> NoDir, asked |-> NoDir]
      BY <3>3
    <3> QED BY <3>1, <3>2, <3>3, Zenon
  <2> QED BY <2>1 DEF NextArchive
<1> QED BY <1>1, <1>2, LoNumbers DEF Lookups

LEMMA PathIs ==
    ASSUME NEW a, NEW t \in 1 .. LTILES
    PROVE Path(a, t) \in DirPaths /\ Path(a, t) # <<>>
<1>1. 0 \in DirOffsets /\ MID \in DirOffsets /\ t \in DirOffsets
    BY LoNumbers DEF DirOffsets, MID
<1>2. <<ROOT, MID, t>> \in DirPaths /\ <<ROOT, t>> \in DirPaths
    BY <1>1 DEF DirPaths, ROOT
<1> QED BY <1>2 DEF Path

(* The slots are still ordered by when they were used. *)
LEMMA UsedIs ==
    ASSUME recent \in [1 .. SLOTS -> 1 .. SLOTS],
           \A u \in 1 .. SLOTS : \E i \in 1 .. SLOTS : recent[i] = u,
           NEW s \in 1 .. SLOTS, Used(s)
    PROVE /\ recent' \in [1 .. SLOTS -> 1 .. SLOTS]
          /\ \A u \in 1 .. SLOTS : \E i \in 1 .. SLOTS : recent'[i] = u
<1> DEFINE i == CHOOSE j \in 1 .. SLOTS : recent[j] = s
<1>0. SLOTS \in Nat \ {0}
    BY LoNumbers
<1>1. i \in 1 .. SLOTS /\ recent[i] = s
    BY DEF Used
<1>2. recent' = [j \in 1 .. SLOTS |-> IF j < i THEN recent[j]
                                     ELSE IF j < SLOTS THEN recent[j + 1] ELSE s]
    BY DEF Used
<1> HIDE DEF i
<1>3. ASSUME NEW j \in 1 .. SLOTS
      PROVE recent'[j] \in 1 .. SLOTS
  <2>1. CASE j < i
    BY <1>2, <2>1
  <2>2. CASE ~(j < i) /\ j < SLOTS
    <3>1. j + 1 \in 1 .. SLOTS
      BY <1>0, <2>2
    <3> QED BY <1>2, <2>2, <3>1
  <2>3. CASE ~(j < i) /\ ~(j < SLOTS)
    BY <1>2, <2>3
  <2> QED BY <2>1, <2>2, <2>3
<1>4. ASSUME NEW u \in 1 .. SLOTS
      PROVE \E j \in 1 .. SLOTS : recent'[j] = u
  <2>1. CASE u = s
    <3>1. SLOTS \in 1 .. SLOTS /\ recent'[SLOTS] = s
      BY <1>0, <1>1, <1>2
    <3> QED BY <2>1, <3>1
  <2>2. CASE u # s
    <3>1. PICK j \in 1 .. SLOTS : recent[j] = u
      OBVIOUS
    <3>2. j # i
      BY <1>1, <2>2, <3>1
    <3>3. CASE j < i
      BY <1>2, <3>1, <3>3
    <3>4. CASE j > i
      <4>1. j - 1 \in 1 .. SLOTS /\ ~(j - 1 < i) /\ j - 1 < SLOTS /\ (j - 1) + 1 = j
        BY <1>0, <1>1, <3>4
      <4>2. recent'[j - 1] = recent[j]
        BY <1>2, <4>1
      <4> QED BY <3>1, <4>1, <4>2
    <3> QED BY <1>1, <3>2, <3>3, <3>4
  <2> QED BY <2>1, <2>2
<1>5. recent' \in [1 .. SLOTS -> 1 .. SLOTS]
    BY <1>2, <1>3
<1> QED BY <1>4, <1>5

LEMMA LoStarts == LoInit => LoInv
<1> SUFFICES ASSUME LoInit PROVE LoInv
    OBVIOUS
<1>1. local = [open |-> <<>>, left |-> Archives] /\ <<>> \in Seq(Archives) /\ Len(<<>>) = 0
    BY EmptySeq DEF LoInit
<1>2. Cardinality(Archives) = ARCHIVES
    BY FS_Interval, LoNumbers DEF Archives
<1>3. local \in [open : Seq(Archives), left : SUBSET Archives]
      /\ Len(local.open) + Cardinality(local.left) =< ARCHIVES
    BY <1>1, <1>2, LoNumbers
<1>4. slots \in [1 .. SLOTS -> CachedDirs] /\ \A s \in 1 .. SLOTS : ~slots[s].full
    BY LoNumbers DEF LoInit
<1>5. claim \in [Archives -> DirOffsets] /\ \A a \in Archives : claim[a] = 0
    BY LoNumbers DEF LoInit
<1>6. /\ recent \in [1 .. SLOTS -> 1 .. SLOTS]
      /\ \A s \in 1 .. SLOTS : \E i \in 1 .. SLOTS : recent[i] = s
    BY DEF LoInit
<1>7. LoTyped
    BY <1>3, <1>4, <1>5, <1>6, LoNumbers DEF LoInit, LoTyped
<1>8. LookupsOwn /\ LocalFaithful
    BY DEF LoInit, LookupsOwn, LocalFaithful, NoLook
<1>9. ClaimsTrue
    BY <1>4, <1>5 DEF ClaimsTrue
<1> QED BY <1>7, <1>8, <1>9 DEF LoInv

(* What stays as it is when a step only looks something up. *)
LEMMA OpenSteps ==
    ASSUME LoInv, NEW a \in Archives, OpenArchive(a) PROVE LoInv'
<1>1. a \in local.left /\ look = NoLook /\ owner = 0
      /\ UNCHANGED <<claim, slots, recent, owner, look>>
    BY DEF OpenArchive, LoInv, LookupsOwn
<1> DEFINE open == IF a \in Cut THEN local.open ELSE Append(local.open, a)
           left == local.left \ {a}
<1>2. local' = [open |-> open, left |-> left]
    BY DEF OpenArchive
<1>3. local.open \in Seq(Archives) /\ local.left \subseteq Archives
    BY DEF LoInv, LoTyped
<1>4. open \in Seq(Archives) /\ Len(open) =< Len(local.open) + 1 /\ Len(open) \in Nat
      /\ Len(local.open) \in Nat
    BY <1>3, AppendProperties, LenProperties
<1>5. left \subseteq Archives
    BY <1>3
<1>6. /\ IsFiniteSet(local.left) /\ Cardinality(left) = Cardinality(local.left) - 1
      /\ Cardinality(local.left) \in Nat
  <2>1. IsFiniteSet(Archives)
    BY FS_Interval, LoNumbers DEF Archives
  <2>2. IsFiniteSet(local.left)
    BY <1>3, <2>1, FS_Subset
  <2> QED BY <1>1, <2>2, FS_RemoveElement, FS_CardinalityType
<1>7. local' \in [open : Seq(Archives), left : SUBSET Archives]
      /\ Len(local'.open) + Cardinality(local'.left) =< ARCHIVES
  <2> HIDE DEF open, left
  <2>1. Len(local.open) + Cardinality(local.left) =< ARCHIVES
    BY DEF LoInv, LoTyped
  <2>2. Len(open) + Cardinality(left) =< ARCHIVES
    BY <2>1, <1>4, <1>6, LoNumbers
  <2> QED BY <1>2, <1>4, <1>5, <2>2
<1>8. rooted' \subseteq Archives
    BY DEF OpenArchive, LoInv, LoTyped
<1>9. LoTyped'
    BY <1>1, <1>7, <1>8 DEF LoInv, LoTyped
<1>10. LookupsOwn' /\ LocalFaithful'
    BY <1>1 DEF LoInv, LookupsOwn, LocalFaithful, NoLook
<1>11. \A b \in Archives : claim'[b] = 0
  <2>1. \A b \in Archives : b # 0
    BY LoNumbers
  <2> QED BY <1>1, <2>1 DEF LoInv, ClaimsTrue
<1>12. ClaimsTrue'
    BY <1>1, <1>11 DEF LoInv, ClaimsTrue
<1> QED BY <1>9, <1>10, <1>12 DEF LoInv

LEMMA TrySteps ==
    ASSUME LoInv, NEW t \in 1 .. LTILES, TryLocal(t) PROVE LoInv'
<1>1. /\ local.left = {} /\ UNCHANGED <<local, dirBuf, claim, rooted, slots, recent, owner>>
      /\ look' = [NoLook EXCEPT !.tile = t, !.next = 1]
    BY DEF TryLocal, Ready
<1>2. /\ look' = [tile |-> t, next |-> 1, todo |-> <<>>, given |-> NoDir, asked |-> NoDir]
  <2>1. [NoLook EXCEPT !.tile = t]
          = [tile |-> t, next |-> 0, todo |-> <<>>, given |-> NoDir, asked |-> NoDir]
    BY DEF NoLook
  <2>2. [NoLook EXCEPT !.tile = t, !.next = 1] = [[NoLook EXCEPT !.tile = t] EXCEPT !.next = 1]
    BY DEF NoLook
  <2>3. ASSUME NEW r, r = [tile |-> t, next |-> 0, todo |-> <<>>, given |-> NoDir, asked |-> NoDir]
        PROVE [r EXCEPT !.next = 1]
                = [tile |-> t, next |-> 1, todo |-> <<>>, given |-> NoDir, asked |-> NoDir]
    BY <2>3
  <2>4. [[NoLook EXCEPT !.tile = t] EXCEPT !.next = 1]
          = [tile |-> t, next |-> 1, todo |-> <<>>, given |-> NoDir, asked |-> NoDir]
    BY <2>1, <2>3, Zenon
  <2> QED BY <1>1, <2>2, <2>4, Zenon
<1>3. look' \in Lookups
    BY <1>2, LoNumbers DEF Lookups
<1>4. LoTyped'
    BY <1>1, <1>3 DEF LoInv, LoTyped
<1>5. LookupsOwn' /\ LocalFaithful'
  <2>1. /\ look'.todo = <<>> /\ look'.asked = NoDir /\ look'.given = NoDir /\ look'.next = 1
    BY <1>2
  <2>2. local'.left = {}
    BY <1>1
  <2> QED BY <2>1, <2>2 DEF LookupsOwn, LocalFaithful
<1>6. ClaimsTrue'
    BY <1>1 DEF LoInv, ClaimsTrue
<1> QED BY <1>4, <1>5, <1>6 DEF LoInv

LEMMA AskSteps ==
    ASSUME LoInv, AskArchive PROVE LoInv'
<1>1. /\ look.tile # 0 /\ look.todo = <<>> /\ look.asked = NoDir /\ look.next =< Len(local.open)
      /\ UNCHANGED <<local, dirBuf, rooted, recent>>
    BY DEF AskArchive, BetweenArchives
<1>2. /\ local.open \in Seq(Archives) /\ local.left \subseteq Archives /\ look \in Lookups
      /\ claim \in [Archives -> DirOffsets] /\ owner \in Owned
      /\ slots \in [1 .. SLOTS -> CachedDirs]
      /\ Len(local.open) + Cardinality(local.left) =< ARCHIVES
    BY DEF LoInv, LoTyped
<1>3. local.left = {}
    BY <1>1 DEF LoInv, LookupsOwn, NoLook
<1>4. Len(local.open) \in Nat /\ Len(local.open) =< ARCHIVES
    BY <1>2, <1>3, FS_EmptySet, LenProperties, LoNumbers
<1>5. look.next \in 0 .. ARCHIVES
    BY <1>1, <1>2, <1>4, LookFields, LoNumbers
<1>6. CASE look' = [look EXCEPT !.next = @ + 1] /\ UNCHANGED <<claim, slots, owner>>
  <2>1. look.next + 1 \in 0 .. ARCHIVES + 1
    BY <1>5, LoNumbers
  <2>2. ASSUME NEW n \in 0 .. ARCHIVES + 1, look' = [look EXCEPT !.next = n]
        PROVE look' \in Lookups /\ look'.todo = look.todo /\ look'.asked = look.asked
              /\ look'.given = look.given /\ look'.next = n
    BY <1>2, <2>2 DEF Lookups
  <2>3. look' \in Lookups /\ look'.todo = look.todo /\ look'.asked = look.asked
        /\ look'.given = look.given /\ look'.next # 0
    BY <1>5, <1>6, <2>1, <2>2
  <2>4. LoTyped'
    BY <1>1, <1>6, <2>3 DEF LoInv, LoTyped
  <2>5. LookupsOwn' /\ LocalFaithful'
    BY <1>1, <1>3, <2>3 DEF LoInv, LookupsOwn, LocalFaithful
  <2>6. ClaimsTrue'
    BY <1>1, <1>6 DEF LoInv, ClaimsTrue
  <2> QED BY <2>4, <2>5, <2>6 DEF LoInv
<1>7. CASE /\ LET a == local.open[look.next] IN
                /\ IF a = owner THEN UNCHANGED <<claim, slots>> ELSE HandedOver(owner)
                /\ owner' = a
                /\ look' = [look EXCEPT !.todo = Path(a, look.tile)]
  <2> DEFINE a == local.open[look.next]
             path == Path(a, look.tile)
  <2>1. look.next \in 1 .. Len(local.open) /\ a \in Archives /\ look.tile \in 1 .. LTILES
    <3>1. look.next # 0 /\ look.tile \in 0 .. LTILES
      BY <1>1, <1>2, LookFields DEF LoInv, LookupsOwn
    <3>2. look.next \in 1 .. Len(local.open)
      BY <1>1, <1>4, <1>5, <3>1
    <3> QED BY <1>1, <1>2, <3>1, <3>2, ElementOfSeq, LoNumbers
  <2>2. path \in DirPaths /\ path # <<>>
    BY <2>1, PathIs
  <2>3. look' = [look EXCEPT !.todo = path] /\ owner' = a
    BY <1>7
  <2>4. IF a = owner THEN UNCHANGED <<claim, slots>> ELSE HandedOver(owner)
    BY <1>7
  <2> HIDE DEF a, path
  <2>5. /\ look' \in Lookups /\ look'.asked = look.asked /\ look'.given = look.given
        /\ look'.tile = look.tile /\ look'.next = look.next
    BY <1>2, <2>2, <2>3 DEF Lookups
  <2>6. LookupsOwn' /\ LocalFaithful'
    <3>1. a # 0 /\ local'.left = {} /\ local'.open = local.open
      BY <1>1, <1>3, <2>1, LoNumbers
    <3> QED BY <1>1, <2>1, <2>3, <2>5, <3>1 DEF LoInv, LookupsOwn, LocalFaithful
  <2>7. /\ claim' \in [Archives -> DirOffsets] /\ slots' \in [1 .. SLOTS -> CachedDirs]
        /\ ClaimsTrue'
    <3>1. CASE a = owner
      BY <1>1, <1>2, <2>3, <2>4, <3>1 DEF LoInv, ClaimsTrue
    <3>2. CASE a # owner
      <4>1. HandedOver(owner)
        BY <2>4, <3>2
      <4>2. claim' \in [Archives -> DirOffsets] /\ \A b \in Archives : claim'[b] = 0
        <5>1. CASE owner = 0
          <6>1. claim' = claim
            BY <4>1, <5>1 DEF HandedOver
          <6> QED BY <1>2, <5>1, <6>1, LoNumbers DEF LoInv, ClaimsTrue
        <5>2. CASE owner # 0
          <6>1. claim' = [claim EXCEPT ![owner] = 0]
            BY <4>1, <5>2 DEF HandedOver
          <6> QED BY <1>2, <6>1, LoNumbers DEF LoInv, ClaimsTrue
        <5> QED BY <5>1, <5>2
      <4>3. slots' = [s \in 1 .. SLOTS |-> [slots[s] EXCEPT !.full = FALSE]]
        BY <4>1 DEF HandedOver
      <4>4. ASSUME NEW s \in 1 .. SLOTS
            PROVE slots'[s] \in CachedDirs /\ ~slots'[s].full
        <5>1. slots[s] \in CachedDirs /\ slots'[s] = [slots[s] EXCEPT !.full = FALSE]
          BY <1>2, <4>3
        <5> QED BY <5>1 DEF CachedDirs
      <4>5. slots' \in [1 .. SLOTS -> CachedDirs]
        BY <4>3, <4>4
      <4> QED BY <4>2, <4>4, <4>5 DEF ClaimsTrue
    <3> QED BY <3>1, <3>2
  <2>8. LoTyped'
    BY <1>1, <2>1, <2>3, <2>5, <2>7, LoNumbers DEF LoInv, LoTyped
  <2> QED BY <2>6, <2>7, <2>8 DEF LoInv
<1> QED BY <1>6, <1>7 DEF AskArchive

(* A lookup that is in an archive. *)
LEMMA InArchive ==
    ASSUME LoInv, look.todo # <<>> \/ look.asked # NoDir
    PROVE /\ owner \in Archives /\ look.tile # 0 /\ local.left = {}
          /\ look.next \in 1 .. Len(local.open) /\ Len(local.open) \in Nat
          /\ look.next =< ARCHIVES
<1>1. look.tile # 0 /\ owner # 0 /\ look.next \in 1 .. Len(local.open)
    BY DEF LoInv, LookupsOwn
<1>2. local.left = {}
    BY <1>1 DEF LoInv, LookupsOwn, NoLook
<1>3. Len(local.open) \in Nat /\ Len(local.open) + 0 =< ARCHIVES
    BY <1>2, FS_EmptySet, LenProperties DEF LoInv, LoTyped
<1>4. owner \in Archives
    BY <1>1, LoNumbers DEF LoInv, LoTyped, Owned, Archives
<1> QED BY <1>1, <1>2, <1>3, <1>4, LoNumbers

LEMMA MemorySteps ==
    ASSUME LoInv, LoadFromMemory PROVE LoInv'
<1>1. /\ Loading /\ look.todo # <<>>
      /\ UNCHANGED <<local, dirBuf, claim, rooted, slots, owner>>
    BY DEF LoadFromMemory, FromRootCache, FromBuffer, Loading
<1>2. /\ owner \in Archives /\ look.tile # 0 /\ local.left = {}
      /\ look.next \in 1 .. Len(local.open)
    BY <1>1, InArchive
<1>3. look \in Lookups /\ slots \in [1 .. SLOTS -> CachedDirs] /\ Asked \in DirOffsets
      /\ claim \in [Archives -> DirOffsets]
    BY <1>1, AskedIs DEF LoInv, LoTyped, Asked
<1> DEFINE d == Dir(owner, Asked)
<1>4. d \in Dirs /\ d # NoDir
    BY <1>2, <1>3, DirIs
<1>5. /\ Given(d)
      /\ recent' \in [1 .. SLOTS -> 1 .. SLOTS]
      /\ \A u \in 1 .. SLOTS : \E i \in 1 .. SLOTS : recent'[i] = u
  <2>0. /\ recent \in [1 .. SLOTS -> 1 .. SLOTS]
        /\ \A u \in 1 .. SLOTS : \E i \in 1 .. SLOTS : recent[i] = u
    BY DEF LoInv, LoTyped
  <2>1. CASE FromRootCache /\ Given(Dir(owner, ROOT)) /\ UNCHANGED recent
    <3>1. Asked = ROOT
      BY <2>1 DEF FromRootCache
    <3> QED BY <2>0, <2>1, <3>1
  <2>2. CASE FromBuffer /\ Given(dirBuf) /\ UNCHANGED recent
    <3>1. claim[owner] = Asked /\ Asked # 0
      BY <2>2 DEF FromBuffer, ROOT
    <3>2. dirBuf = d
      BY <1>2, <3>1 DEF LoInv, ClaimsTrue
    <3> QED BY <2>0, <2>2, <3>2
  <2>3. ASSUME NEW s \in HoldingSlots, Given(slots[s].dir), Used(s)
        PROVE /\ Given(d) /\ recent' \in [1 .. SLOTS -> 1 .. SLOTS]
              /\ \A u \in 1 .. SLOTS : \E i \in 1 .. SLOTS : recent'[i] = u
    <3>3. s \in 1 .. SLOTS /\ slots[s].full /\ slots[s].off = Asked
      BY DEF HoldingSlots
    <3>5. slots[s].dir = d
      BY <3>3 DEF LoInv, ClaimsTrue
    <3>6. Given(d)
      BY <2>3, <3>5
    <3> QED BY <2>0, <2>3, <3>3, <3>6, UsedIs
  <2> QED BY <2>1, <2>2, <2>3 DEF LoadFromMemory
<1>6. /\ look' \in Lookups /\ look'.tile = look.tile /\ look'.next = look.next
      /\ look'.given = d /\ look'.asked = d
    BY <1>1, <1>2, <1>3, <1>4, <1>5, GivenIs
<1> HIDE DEF d
<1>7. LoTyped'
    BY <1>1, <1>5, <1>6 DEF LoInv, LoTyped
<1>8. LookupsOwn' /\ LocalFaithful'
  <2>1. owner' # 0 /\ local'.left = {} /\ local'.open = local.open /\ look'.next # 0
    BY <1>1, <1>2, <1>6, LoNumbers
  <2> QED BY <1>2, <1>6, <2>1 DEF LookupsOwn, LocalFaithful
<1>9. ClaimsTrue'
    BY <1>1 DEF LoInv, ClaimsTrue
<1> QED BY <1>7, <1>8, <1>9 DEF LoInv

(* Leaving an archive changes nothing that is claimed. *)
LEMMA NextKeeps ==
    ASSUME LoInv, look.todo # <<>> \/ look.asked # NoDir, look' = NextArchive,
           UNCHANGED <<local, owner>>
    PROVE look' \in Lookups /\ LookupsOwn' /\ LocalFaithful'
<1>1. look \in Lookups /\ look.next \in Nat /\ local.left = {} /\ look.next =< ARCHIVES
    BY InArchive, LookFields DEF LoInv, LoTyped
<1>2. /\ look' \in Lookups /\ look'.next = look.next + 1 /\ look'.todo = <<>>
      /\ look'.given = NoDir /\ look'.asked = NoDir
    BY <1>1, NextIs
<1>3. look'.next # 0 /\ local'.left = {}
    BY <1>1, <1>2
<1> QED BY <1>2, <1>3 DEF LookupsOwn, LocalFaithful

(* The buffer may be overwritten if no archive claims what it holds. *)
LEMMA UnclaimedKeeps ==
    ASSUME LoInv, owner \in Archives, claim' = [claim EXCEPT ![owner] = 0],
           UNCHANGED <<slots, owner>>
    PROVE claim' \in [Archives -> DirOffsets] /\ ClaimsTrue'
<1>1. claim \in [Archives -> DirOffsets]
    BY DEF LoInv, LoTyped
<1>2. \A a \in Archives : claim'[a] = 0
    BY <1>1 DEF LoInv, ClaimsTrue
<1>3. claim' \in [Archives -> DirOffsets]
    BY <1>1, LoNumbers
<1> QED BY <1>2, <1>3 DEF LoInv, ClaimsTrue

LEMMA FailSteps ==
    ASSUME LoInv, LoadFails PROVE LoInv'
<1>1. /\ look.todo # <<>> /\ claim' = [claim EXCEPT ![owner] = 0] /\ look' = NextArchive
      /\ UNCHANGED <<local, rooted, slots, recent, owner>>
    BY DEF LoadFails, NotInMemory, Loading
<1>2. owner \in Archives
    BY <1>1, InArchive
<1>3. look' \in Lookups /\ LookupsOwn' /\ LocalFaithful'
    BY <1>1, NextKeeps
<1>4. claim' \in [Archives -> DirOffsets] /\ ClaimsTrue'
    BY <1>1, <1>2, UnclaimedKeeps
<1>5. LoTyped'
    BY <1>1, <1>3, <1>4 DEF LoInv, LoTyped
<1> QED BY <1>3, <1>4, <1>5 DEF LoInv

LEMMA RootSteps ==
    ASSUME LoInv, LoadRoot PROVE LoInv'
<1>1. /\ look.todo # <<>> /\ Asked = ROOT /\ claim' = [claim EXCEPT ![owner] = 0]
      /\ rooted' = rooted \cup ({owner} \cap Roomy) /\ Given(Dir(owner, ROOT))
      /\ UNCHANGED <<local, slots, recent, owner>>
    BY DEF LoadRoot, NotInMemory, Loading
<1>2. /\ owner \in Archives /\ look.tile # 0 /\ local.left = {}
      /\ look.next \in 1 .. Len(local.open)
    BY <1>1, InArchive
<1>3. Asked \in DirOffsets /\ Given(Dir(owner, Asked)) /\ look \in Lookups
    BY <1>1, AskedIs DEF LoInv, LoTyped, Asked
<1>4. Dir(owner, Asked) \in Dirs
    BY <1>2, <1>3, DirIs
<1>5. /\ look' \in Lookups /\ look'.tile = look.tile /\ look'.next = look.next
      /\ look'.given = Dir(owner, Asked) /\ look'.asked = Dir(owner, Asked)
    BY <1>1, <1>2, <1>3, <1>4, GivenIs
<1>6. claim' \in [Archives -> DirOffsets] /\ ClaimsTrue'
    BY <1>1, <1>2, UnclaimedKeeps
<1>7. LookupsOwn' /\ LocalFaithful'
  <2>1. owner' # 0 /\ local'.left = {} /\ local'.open = local.open /\ look'.next # 0
    BY <1>1, <1>2, <1>5, LoNumbers
  <2> QED BY <1>2, <1>5, <2>1 DEF LookupsOwn, LocalFaithful
<1>8. rooted' \subseteq Archives
    BY <1>1, <1>2 DEF LoInv, LoTyped
<1>9. LoTyped'
    BY <1>1, <1>5, <1>6, <1>8 DEF LoInv, LoTyped
<1> QED BY <1>6, <1>7, <1>9 DEF LoInv

LEMMA LeafSteps ==
    ASSUME LoInv, LoadLeaf PROVE LoInv'
<1> DEFINE d == Dir(owner, Asked)
<1>1. /\ look.todo # <<>> /\ dirBuf' = d /\ claim' = [claim EXCEPT ![owner] = Asked] /\ Given(d)
      /\ UNCHANGED <<local, rooted, owner>>
    BY DEF LoadLeaf, NotInMemory, Loading
<1>2. /\ owner \in Archives /\ look.tile # 0 /\ local.left = {}
      /\ look.next \in 1 .. Len(local.open)
    BY <1>1, InArchive
<1>3. Asked \in DirOffsets /\ look \in Lookups /\ claim \in [Archives -> DirOffsets]
      /\ slots \in [1 .. SLOTS -> CachedDirs]
    BY <1>1, AskedIs DEF LoInv, LoTyped, Asked
<1>4. d \in Dirs
    BY <1>2, <1>3, DirIs
<1>5. /\ look' \in Lookups /\ look'.tile = look.tile /\ look'.next = look.next
      /\ look'.given = d /\ look'.asked = d
    BY <1>1, <1>2, <1>3, <1>4, GivenIs
<1>6. claim' \in [Archives -> DirOffsets]
      /\ \A a \in Archives : claim'[a] # 0 => a = owner /\ claim'[a] = Asked
    BY <1>1, <1>2, <1>3 DEF LoInv, ClaimsTrue
<1>7. /\ slots' \in [1 .. SLOTS -> CachedDirs]
      /\ \A s \in 1 .. SLOTS : slots'[s].full => slots'[s].dir = Dir(owner, slots'[s].off)
      /\ recent' \in [1 .. SLOTS -> 1 .. SLOTS]
      /\ \A u \in 1 .. SLOTS : \E i \in 1 .. SLOTS : recent'[i] = u
  <2>0. /\ recent \in [1 .. SLOTS -> 1 .. SLOTS]
        /\ \A u \in 1 .. SLOTS : \E i \in 1 .. SLOTS : recent[i] = u
        /\ \A s \in 1 .. SLOTS : slots[s].full => slots[s].dir = Dir(owner, slots[s].off)
    BY DEF LoInv, LoTyped, ClaimsTrue
  <2>1. CASE UNCHANGED <<slots, recent>>
    BY <1>3, <2>0, <2>1
  <2>2. ASSUME NEW s \in Large(Size(Asked)), Used(s),
               slots' = [slots EXCEPT ![s] = [@ EXCEPT !.full = TRUE, !.off = Asked, !.dir = d]]
        PROVE  /\ slots' \in [1 .. SLOTS -> CachedDirs]
               /\ \A u \in 1 .. SLOTS : slots'[u].full => slots'[u].dir = Dir(owner, slots'[u].off)
               /\ recent' \in [1 .. SLOTS -> 1 .. SLOTS]
               /\ \A u \in 1 .. SLOTS : \E i \in 1 .. SLOTS : recent'[i] = u
    <3>1. s \in 1 .. SLOTS
      BY DEF Large
    <3> DEFINE n == [slots[s] EXCEPT !.full = TRUE, !.off = Asked, !.dir = d]
    <3>3. slots[s] \in CachedDirs
      BY <1>3, <3>1
    <3>4. n \in CachedDirs /\ n.off = Asked /\ n.dir = d
      <4> DEFINE r == slots[s]
                 x == Asked
      <4>1. r \in CachedDirs /\ x \in DirOffsets /\ d \in Dirs
        BY <1>3, <1>4, <3>3
      <4>2. n = [r EXCEPT !.full = TRUE, !.off = x, !.dir = d]
        OBVIOUS
      <4> HIDE DEF r, x, d, n
      <4>3. n \in CachedDirs /\ n.off = x /\ n.dir = d
        BY <4>1, <4>2 DEF CachedDirs
      <4> QED BY <4>3 DEF x
    <3>5. slots' = [slots EXCEPT ![s] = n]
      BY <2>2
    <3> HIDE DEF n
    <3>6. slots' \in [1 .. SLOTS -> CachedDirs]
      BY <1>3, <3>4, <3>5
    <3>7. ASSUME NEW u \in 1 .. SLOTS, slots'[u].full
          PROVE slots'[u].dir = Dir(owner, slots'[u].off)
      <4>1. CASE u = s
        BY <1>3, <3>1, <3>4, <3>5, <4>1
      <4>2. CASE u # s
        <5>1. slots'[u] = slots[u]
          BY <1>3, <3>5, <4>2
        <5> QED BY <2>0, <3>7, <5>1
      <4> QED BY <4>1, <4>2
    <3> QED BY <2>0, <2>2, <3>1, <3>6, <3>7, UsedIs
  <2> QED BY <2>1, <2>2 DEF LoadLeaf
<1> HIDE DEF d
<1>8. LoTyped'
    BY <1>1, <1>5, <1>6, <1>7 DEF LoInv, LoTyped
<1>9. LookupsOwn' /\ LocalFaithful'
  <2>1. owner' # 0 /\ local'.left = {} /\ local'.open = local.open /\ look'.next # 0
    BY <1>1, <1>2, <1>5, LoNumbers
  <2> QED BY <1>2, <1>5, <2>1 DEF LookupsOwn, LocalFaithful
<1>10. ClaimsTrue'
    BY <1>1, <1>6, <1>7 DEF ClaimsTrue, d
<1> QED BY <1>8, <1>9, <1>10 DEF LoInv

LEMMA ReadSteps ==
    ASSUME LoInv, TileRead PROVE LoInv'
<1>1. /\ look.asked # NoDir /\ look' = NoLook
      /\ UNCHANGED <<local, dirBuf, claim, rooted, recent, owner>>
    BY DEF TileRead
<1>2. owner \in Archives /\ slots \in [1 .. SLOTS -> CachedDirs]
      /\ claim \in [Archives -> DirOffsets] /\ local.left = {}
    BY <1>1, InArchive DEF LoInv, LoTyped
<1>3. /\ slots' \in [1 .. SLOTS -> CachedDirs]
      /\ \A s \in 1 .. SLOTS : slots'[s].full => slots'[s].dir = Dir(owner, slots'[s].off)
  <2>1. CASE UNCHANGED slots
    BY <1>2, <2>1 DEF LoInv, ClaimsTrue
  <2>2. ASSUME NEW got \in 0 .. SLOTS, slots' = Fitted(Size(claim[owner]), got)
        PROVE /\ slots' \in [1 .. SLOTS -> CachedDirs]
              /\ \A s \in 1 .. SLOTS : slots'[s].full => slots'[s].dir = Dir(owner, slots'[s].off)
    <3> DEFINE size == Size(claim[owner])
               cap(s) == IF s =< got THEN size + size \div 2 ELSE 0
               new(s) == IF slots[s].cap >= size \/ s > got + 1 THEN slots[s]
                         ELSE [EmptySlot EXCEPT !.cap = cap(s)]
    <3>1. size \in Nat
      BY DEF Size
    <3>2. \A s \in 1 .. SLOTS : cap(s) \in Nat
      BY <3>1
    <3>3. slots' = [s \in 1 .. SLOTS |-> new(s)]
      BY <2>2 DEF Fitted
    <3>4. ASSUME NEW s \in 1 .. SLOTS
          PROVE new(s) \in CachedDirs /\ (new(s) = slots[s] \/ ~new(s).full)
      <4>1. ASSUME NEW c \in Nat
            PROVE [EmptySlot EXCEPT !.cap = c] \in CachedDirs /\ ~[EmptySlot EXCEPT !.cap = c].full
        BY LoNumbers DEF CachedDirs
      <4>2. slots[s] \in CachedDirs
        BY <1>2
      <4>3. cap(s) \in Nat
        BY <3>2
      <4> HIDE DEF cap, size
      <4>4. [EmptySlot EXCEPT !.cap = cap(s)] \in CachedDirs
            /\ ~[EmptySlot EXCEPT !.cap = cap(s)].full
        BY <4>1, <4>3
      <4> QED BY <4>2, <4>4
    <3> HIDE DEF new
    <3>5. slots' \in [1 .. SLOTS -> CachedDirs]
      BY <3>3, <3>4
    <3>6. ASSUME NEW s \in 1 .. SLOTS, slots'[s].full
          PROVE slots'[s].dir = Dir(owner, slots'[s].off)
      <4>1. slots'[s] = slots[s]
        BY <3>3, <3>4, <3>6
      <4> QED BY <3>6, <4>1 DEF LoInv, ClaimsTrue
    <3> QED BY <3>5, <3>6
  <2> QED BY <2>1, <2>2 DEF TileRead
<1>4. LoTyped'
    BY <1>1, <1>3, LoNumbers DEF LoInv, LoTyped
<1>5. LookupsOwn' /\ LocalFaithful'
  <2>1. look'.tile = 0 /\ look'.todo = <<>> /\ look'.asked = NoDir /\ look'.given = NoDir
        /\ local'.left = {}
    BY <1>1, <1>2 DEF NoLook
  <2> QED BY <2>1 DEF LookupsOwn, LocalFaithful
<1>6. ClaimsTrue'
    BY <1>1, <1>3 DEF LoInv, ClaimsTrue
<1> QED BY <1>4, <1>5, <1>6 DEF LoInv

LEMMA LoStep == LoInv /\ [LoNext]_loVars => LoInv'
<1> SUFFICES ASSUME LoInv, [LoNext]_loVars PROVE LoInv'
    OBVIOUS
<1>1. CASE NotLocal
  <2>1. /\ look.tile # 0 /\ look' = NoLook
        /\ UNCHANGED <<local, dirBuf, claim, rooted, slots, recent, owner>>
    BY <1>1 DEF NotLocal, BetweenArchives
  <2>2. local.left = {}
    BY <2>1 DEF LoInv, LookupsOwn, NoLook
  <2>3. look'.tile = 0 /\ look'.todo = <<>> /\ look'.asked = NoDir /\ look'.given = NoDir
        /\ local'.left = {}
    BY <2>1, <2>2 DEF NoLook
  <2>4. LookupsOwn' /\ LocalFaithful'
    BY <2>3 DEF LookupsOwn, LocalFaithful
  <2> QED BY <2>1, <2>4, LoNumbers DEF LoInv, LoTyped, ClaimsTrue
<1>2. CASE NotHere
  <2>1. /\ look.asked # NoDir /\ look' = NextArchive
        /\ UNCHANGED <<local, dirBuf, claim, rooted, slots, recent, owner>>
    BY <1>2 DEF NotHere
  <2>2. look' \in Lookups /\ LookupsOwn' /\ LocalFaithful'
    BY <2>1, NextKeeps
  <2> QED BY <2>1, <2>2 DEF LoInv, LoTyped, ClaimsTrue
<1>3. CASE UNCHANGED loVars
    BY <1>3 DEF loVars, LoInv, LoTyped, LookupsOwn, ClaimsTrue, LocalFaithful
<1> QED BY <1>1, <1>2, <1>3, OpenSteps, TrySteps, AskSteps, MemorySteps, FailSteps, RootSteps,
           LeafSteps, ReadSteps DEF LoNext

(* A lookup is given the directory it asked its own archive for, whichever  *)
(* archives are asked in which order, whatever reads fail and however few   *)
(* the slots (netsource.cpp:1334-1349).                                     *)
THEOREM DirectoriesAreTheirOwn == LoSpec => [](LoTypeOK /\ LocalFaithful)
<1>1. LoInv => LoTypeOK /\ LocalFaithful
  <2> SUFFICES ASSUME LoInv PROVE LoTypeOK
      BY DEF LoInv
  <2>1. ToSet(recent) = 1 .. SLOTS
    <3>1. recent \in [1 .. SLOTS -> 1 .. SLOTS] /\ DOMAIN recent = 1 .. SLOTS
      BY DEF LoInv, LoTyped
    <3>2. \A s \in 1 .. SLOTS : \E i \in 1 .. SLOTS : recent[i] = s
      BY DEF LoInv, LoTyped
    <3> QED BY <3>1, <3>2 DEF ToSet
  <2>2. look.next \in 0 .. ARCHIVES + 1
    BY LookFields DEF LoInv, LoTyped
  <2> QED BY <2>1, <2>2 DEF LoInv, LoTyped, LoTypeOK, DirOffsets, Owned
<1> QED BY <1>1, LoStarts, LoStep, PTL DEF LoSpec

-----------------------------------------------------------------------------
(***************************************************************************)
(* TileIndex                                                                *)
(***************************************************************************)
WrittenEntries == [id : Int, run : Int, offset : Int, length : Int]
DirEntries == [delta : Int, run : Int, length : Int, offset : Int]

(* Induction over a finite interval: a set of numbers that has 0 and with   *)
(* each number its successor, but not the end, would fit into a smaller one.*)
LEMMA CountingUp ==
    ASSUME NEW N \in Nat, NEW S \in SUBSET (0 .. N), 0 \in S, \A n \in S : n < N => n + 1 \in S
    PROVE  N \in S
<1> SUFFICES ASSUME N \notin S PROVE FALSE
    OBVIOUS
<1> DEFINE T == S \ {0}
           f == [n \in S |-> n + 1]
<1>1. IsFiniteSet(S)
  <2>1. IsFiniteSet(0 .. N)
    BY FS_Interval
  <2> QED BY <2>1, FS_Subset
<1>2. Cardinality(T) = Cardinality(S) - 1 /\ Cardinality(S) \in Nat /\ IsFiniteSet(T)
    BY <1>1, FS_RemoveElement, FS_CardinalityType
<1>3. \A n \in S : n \in Int /\ n < N /\ n >= 0
    OBVIOUS
<1>4. f \in [S -> T]
    BY <1>3
<1>5. \A m, n \in S : f[m] = f[n] => m = n
    BY <1>3
<1>6. PICK m, n \in S : m # n /\ f[m] = f[n]
  <2>1. Cardinality(T) < Cardinality(S)
    BY <1>2
  <2> HIDE DEF f, T
  <2> QED BY <1>1, <1>2, <1>4, <2>1, FS_PigeonHole
<1> QED BY <1>5, <1>6

(* A number that follows another, or begins anew, can be told for every     *)
(* entry of a directory.                                                    *)
Told(r, N, anew, w) ==
    [n \in 0 .. N |-> IF n = 0 THEN 0 ELSE IF anew[n] THEN w[n] ELSE r[n - 1] + w[n]]

LEMMA TellOn ==
    ASSUME NEW N \in Nat, NEW anew, NEW w
    PROVE  \E r : r = Told(r, N, anew, w)
<1> DEFINE Next(r, n) == IF anew[n] THEN w[n] ELSE r[n - 1] + w[n]
           S == {k \in 0 .. N : \E r : r = Told(r, k, anew, w)}
<1>1. 0 \in S
  <2> DEFINE r == [n \in 0 .. 0 |-> 0]
  <2>1. r = Told(r, 0, anew, w)
    BY DEF Told
  <2> HIDE DEF r
  <2> QED BY <2>1
<1>2. ASSUME NEW k \in S, k < N PROVE k + 1 \in S
  <2>0. k \in 0 .. N /\ k \in Nat /\ k + 1 \in 0 .. N
    BY <1>2
  <2>1. PICK r : r = Told(r, k, anew, w)
    OBVIOUS
  <2> DEFINE q == [n \in 0 .. k + 1 |-> IF n = k + 1 THEN Next(r, k + 1) ELSE r[n]]
  <2> HIDE DEF Next
  <2>2. ASSUME NEW n \in 0 .. k + 1 PROVE q[n] = IF n = 0 THEN 0 ELSE Next(q, n)
    <3>1. CASE n = k + 1
      <4>1. n - 1 = k /\ n # 0 /\ k \in 0 .. k + 1 /\ k # k + 1
        BY <2>0, <3>1
      <4>2. q[k] = r[k] /\ q[n] = Next(r, k + 1)
        BY <3>1, <4>1
      <4> HIDE DEF q
      <4>3. Next(q, n) = Next(r, k + 1)
        BY <3>1, <4>1, <4>2 DEF Next
      <4> QED BY <4>1, <4>2, <4>3
    <3>2. CASE n # k + 1
      <4>1. n \in 0 .. k /\ q[n] = r[n]
        BY <2>0, <3>2
      <4>2. r[n] = IF n = 0 THEN 0 ELSE Next(r, n)
        BY <2>1, <4>1 DEF Told, Next
      <4>3. n # 0 => n - 1 \in 0 .. k + 1 /\ n - 1 # k + 1
        BY <2>0, <4>1
      <4>4. n # 0 => q[n - 1] = r[n - 1]
        BY <4>3
      <4> HIDE DEF q
      <4>5. n # 0 => Next(q, n) = Next(r, n)
        BY <4>4 DEF Next
      <4> QED BY <4>1, <4>2, <4>5
    <3> QED BY <3>1, <3>2
  <2>3. q = Told(q, k + 1, anew, w)
    <3>1. q = [n \in 0 .. k + 1 |-> q[n]]
      OBVIOUS
    <3> HIDE DEF q
    <3> QED BY <2>2, <3>1 DEF Told, Next
  <2> HIDE DEF q
  <2> QED BY <2>0, <2>3
<1>3. S \in SUBSET (0 .. N)
  OBVIOUS
<1> HIDE DEF S
<1>4. N \in S
  BY <1>1, <1>2, <1>3, CountingUp
<1> QED BY <1>4 DEF S

(* The ids and the offsets of a directory are defined for each entry.       *)
LEMMA IdsAre ==
    ASSUME NEW d \in Seq(DirEntries)
    PROVE  Ids(d)[0] = 0 /\ \A i \in 1 .. Len(d) : Ids(d)[i] = Ids(d)[i - 1] + d[i].delta
<1> DEFINE N == Len(d)
           F(r) == [i \in 0 .. N |-> IF i = 0 THEN 0 ELSE r[i - 1] + d[i].delta]
           anew == [i \in 1 .. N |-> FALSE]
           w == [i \in 1 .. N |-> d[i].delta]
<1>0. N \in Nat
  BY LenProperties
<1>1. PICK r : r = Told(r, N, anew, w)
  BY <1>0, TellOn
<1>2. r = F(r)
  <2>1. ASSUME NEW i \in 0 .. N, i # 0 PROVE ~anew[i] /\ w[i] = d[i].delta
    <3>1. i \in 1 .. N
      BY <1>0, <2>1
    <3> QED BY <3>1
  <2> HIDE DEF anew, w, N
  <2> QED BY <1>1, <2>1 DEF Told
<1>3. Ids(d) = CHOOSE q : q = F(q)
  BY DEF Ids
<1>4. Ids(d) = F(Ids(d))
  <2> HIDE DEF F
  <2> QED BY <1>2, <1>3
<1>5. 0 \in 0 .. N /\ \A i \in 1 .. N : i \in 0 .. N /\ i # 0
  BY <1>0
<1> HIDE DEF N
<1>6. Ids(d)[0] = 0 /\ \A i \in 1 .. N : Ids(d)[i] = Ids(d)[i - 1] + d[i].delta
  BY <1>4, <1>5
<1> QED BY <1>6 DEF N

LEMMA OffsetsAre ==
    ASSUME NEW d \in Seq(DirEntries)
    PROVE  /\ Offsets(d)[0] = 0
           /\ \A i \in 1 .. Len(d) :
               Offsets(d)[i] = IF d[i].offset # 0 THEN d[i].offset - 1
                               ELSE Offsets(d)[i - 1] + (IF i = 1 THEN 0 ELSE d[i - 1].length)
<1> DEFINE N == Len(d)
           Ended(i) == IF i = 1 THEN 0 ELSE d[i - 1].length
           F(r) == [i \in 0 .. N |->
                       IF i = 0 THEN 0
                       ELSE IF d[i].offset # 0 THEN d[i].offset - 1
                       ELSE r[i - 1] + Ended(i)]
           anew == [i \in 1 .. N |-> d[i].offset # 0]
           w == [i \in 1 .. N |-> IF d[i].offset # 0 THEN d[i].offset - 1 ELSE Ended(i)]
<1>0. N \in Nat
  BY LenProperties
<1>1. PICK r : r = Told(r, N, anew, w)
  BY <1>0, TellOn
<1>2. r = F(r)
  <2>1. ASSUME NEW i \in 0 .. N, i # 0
        PROVE  /\ anew[i] <=> d[i].offset # 0
               /\ w[i] = IF d[i].offset # 0 THEN d[i].offset - 1 ELSE Ended(i)
    <3>1. i \in 1 .. N
      BY <1>0, <2>1
    <3> QED BY <3>1
  <2> HIDE DEF anew, w, N, Ended
  <2> QED BY <1>1, <2>1 DEF Told
<1>3. Offsets(d) = CHOOSE q : q = F(q)
  BY DEF Offsets
<1>4. Offsets(d) = F(Offsets(d))
  <2> HIDE DEF F
  <2> QED BY <1>2, <1>3
<1>5. 0 \in 0 .. N /\ \A i \in 1 .. N : i \in 0 .. N /\ i # 0
  BY <1>0
<1> HIDE DEF N
<1>6. /\ Offsets(d)[0] = 0
      /\ \A i \in 1 .. N : Offsets(d)[i] = IF d[i].offset # 0 THEN d[i].offset - 1
                                        ELSE Offsets(d)[i - 1] + Ended(i)
  BY <1>4, <1>5
<1> QED BY <1>6 DEF N

(* The directory d says of the entries es what they are, and they are in    *)
(* the order of the curve, none before the end of another.                  *)
Entered(es, d, i) ==
    /\ es[i].id >= 0 /\ es[i].run >= 0 /\ es[i].id + es[i].run =< Below(MAX_Z + 1)
    /\ d[i].run = es[i].run /\ d[i].length = es[i].length
    /\ d[i].delta = es[i].id - (IF i = 1 THEN 0 ELSE es[i - 1].id)
    /\ d[i].offset # 0 => es[i].offset = d[i].offset - 1
    /\ d[i].offset = 0 =>
          es[i].offset = IF i = 1 THEN 0 ELSE es[i - 1].offset + es[i - 1].length
    /\ \A j \in 1 .. i - 1 : After(es[j]) =< es[i].id

DirectoryOf(es, d) ==
    /\ es \in Seq(WrittenEntries) /\ d \in Seq(DirEntries) /\ Len(d) = Len(es)
    /\ \A i \in 1 .. Len(es) : Entered(es, d, i)

LEMMA EntryIs ==
    ASSUME NEW es \in Seq(WrittenEntries)
    PROVE  /\ Len(es) \in Nat
           /\ \A i \in 1 .. Len(es) :
                 es[i].id \in Int /\ es[i].run \in Int /\ es[i].offset \in Int /\ es[i].length \in Int
<1>1. Len(es) \in Nat
  BY LenProperties
<1>2. \A i \in 1 .. Len(es) : es[i] \in WrittenEntries
  BY ElementOfSeq
<1> QED BY <1>1, <1>2 DEF WrittenEntries

(* Walked from the first entry, the directory gives back the entries.       *)
LEMMA ReadBack ==
    ASSUME NEW es, NEW d, DirectoryOf(es, d)
    PROVE  \A i \in 1 .. Len(es) : Ids(d)[i] = es[i].id /\ Offsets(d)[i] = es[i].offset
<1> DEFINE N == Len(es)
           id == Ids(d)
           off == Offsets(d)
           S == {k \in 0 .. N : \A i \in 1 .. k : id[i] = es[i].id /\ off[i] = es[i].offset}
<1>0. /\ N \in Nat /\ Len(d) = N
      /\ \A i \in 1 .. N : /\ es[i].id \in Int /\ es[i].offset \in Int /\ es[i].length \in Int
                           /\ Entered(es, d, i)
  BY EntryIs DEF DirectoryOf
<1>1. /\ id[0] = 0 /\ off[0] = 0
      /\ \A i \in 1 .. N :
            /\ id[i] = id[i - 1] + d[i].delta
            /\ off[i] = IF d[i].offset # 0 THEN d[i].offset - 1
                        ELSE off[i - 1] + (IF i = 1 THEN 0 ELSE d[i - 1].length)
  BY <1>0, IdsAre, OffsetsAre DEF DirectoryOf
<1> HIDE DEF N, id, off
<1>2. 0 \in S
  BY <1>0
<1>3. ASSUME NEW k \in S, k < N PROVE k + 1 \in S
  <2>1. /\ k \in Nat /\ k + 1 \in 1 .. N /\ k + 1 \in 0 .. N /\ (k + 1) - 1 = k
        /\ k # 0 => k \in 1 .. N /\ k \in 1 .. k
    BY <1>0, <1>3
  <2>2. k # 0 => /\ id[k] = es[k].id /\ off[k] = es[k].offset /\ d[k].length = es[k].length
                 /\ es[k].id \in Int /\ es[k].offset \in Int /\ es[k].length \in Int
    BY <1>0, <2>1 DEF Entered
  <2>3. Entered(es, d, k + 1) /\ es[k + 1].id \in Int /\ es[k + 1].offset \in Int
    BY <1>0, <2>1
  <2>4. id[k + 1] = id[k] + d[k + 1].delta
        /\ off[k + 1] = IF d[k + 1].offset # 0 THEN d[k + 1].offset - 1
                        ELSE off[k] + (IF k + 1 = 1 THEN 0 ELSE d[k].length)
    <3>1. /\ id[k + 1] = id[(k + 1) - 1] + d[k + 1].delta
          /\ off[k + 1] = IF d[k + 1].offset # 0 THEN d[k + 1].offset - 1
                          ELSE off[(k + 1) - 1] + (IF k + 1 = 1 THEN 0 ELSE d[(k + 1) - 1].length)
      BY <1>1, <2>1
    <3> QED BY <2>1, <3>1
  <2>5. id[k + 1] = es[k + 1].id
    <3>1. d[k + 1].delta = es[k + 1].id - (IF k = 0 THEN 0 ELSE es[k].id)
      BY <2>1, <2>3 DEF Entered
    <3> QED BY <1>1, <2>2, <2>3, <2>4, <3>1
  <2>6. off[k + 1] = es[k + 1].offset
    <3>1. /\ d[k + 1].offset # 0 => es[k + 1].offset = d[k + 1].offset - 1
          /\ d[k + 1].offset = 0 =>
                es[k + 1].offset = IF k = 0 THEN 0 ELSE es[k].offset + es[k].length
      BY <2>1, <2>3 DEF Entered
    <3> QED BY <1>1, <2>1, <2>2, <2>3, <2>4, <3>1
  <2>7. \A i \in 1 .. k + 1 : i \in 1 .. k \/ i = k + 1
    BY <2>1
  <2> QED BY <2>1, <2>5, <2>6, <2>7
<1>4. S \in SUBSET (0 .. N)
  OBVIOUS
<1>5. N \in S
  <2> HIDE DEF S
  <2> QED BY <1>0, <1>2, <1>3, <1>4, CountingUp
<1> QED BY <1>5 DEF N, id, off

LEMMA LastOne ==
    ASSUME NEW N \in Nat, NEW S \in SUBSET (1 .. N), S # {}
    PROVE  \E m \in S : \A n \in S : n =< m
<1> SUFFICES ASSUME \A m \in S : \E n \in S : n > m PROVE FALSE
  <2>1. \A m, n \in S : ~(n =< m) <=> n > m
    OBVIOUS
  <2> QED BY <2>1
<1> DEFINE U == {k \in 0 .. N : \E m \in S : m >= k}
<1>1. 0 \in U
  <2>1. PICK m \in S : TRUE
    OBVIOUS
  <2>2. m >= 0 /\ 0 \in 0 .. N
    OBVIOUS
  <2> QED BY <2>2
<1>2. ASSUME NEW k \in U, k < N PROVE k + 1 \in U
  <2>1. PICK m \in S : m >= k
    OBVIOUS
  <2>2. PICK n \in S : n > m
    OBVIOUS
  <2>3. n >= k + 1 /\ k + 1 \in 0 .. N
    BY <2>1, <2>2, <1>2
  <2> QED BY <2>3
<1>3. N \in U
  <2>1. U \in SUBSET (0 .. N)
    OBVIOUS
  <2> HIDE DEF U
  <2> QED BY <2>1, <1>1, <1>2, CountingUp
<1>4. PICK m \in S : m >= N
  BY <1>3
<1>5. PICK n \in S : n > m
  OBVIOUS
<1> QED BY <1>4, <1>5

(* search_dir finds what the archive has for a tile.                        *)
LEMMA SearchFinds ==
    ASSUME CurveInverse, DirectoryOf(entries, dir), NEW t \in AllTiles,
           found.hit = SearchDir(dir, TileId(t))
    PROVE  IF ForTile(t) = {} THEN ~found.hit.found
           ELSE \E i \in ForTile(t) :
                   /\ found.hit.found
                   /\ found.hit.offset = entries[i].offset
                   /\ found.hit.length = entries[i].length
                   /\ found.hit.run = entries[i].run
<1> DEFINE N == Len(entries)
           all == Below(MAX_Z + 1)
           T == TileId(t)
           E(i) == entries[i]
           begun == {i \in 1 .. N : E(i).id =< T}
<1>0. all \in Nat /\ T \in 0 .. all - 1 /\ T \in Nat /\ T < all
      /\ \A id \in 0 .. all - 1 : TileOf(id) = t <=> id = T
  BY DEF CurveInverse
<1>1. /\ N \in Nat /\ Len(dir) = N
      /\ \A i \in 1 .. N : /\ E(i).id \in Nat /\ E(i).run \in Nat /\ E(i).id + E(i).run =< all
                           /\ dir[i].run = E(i).run /\ dir[i].length = E(i).length
                           /\ Ids(dir)[i] = E(i).id /\ Offsets(dir)[i] = E(i).offset
  <2>1. /\ N \in Nat /\ Len(dir) = N
        /\ \A i \in 1 .. N : /\ E(i).id \in Int /\ E(i).run \in Int
                             /\ Entered(entries, dir, i)
    BY EntryIs DEF DirectoryOf
  <2>2. \A i \in 1 .. N : Ids(dir)[i] = E(i).id /\ Offsets(dir)[i] = E(i).offset
    BY ReadBack
  <2> QED BY <2>1, <2>2 DEF Entered
<1>2. \A i, j \in 1 .. N : j < i => After(E(j)) =< E(i).id
  <2> SUFFICES ASSUME NEW i \in 1 .. N, NEW j \in 1 .. N, j < i PROVE After(E(j)) =< E(i).id
    OBVIOUS
  <2>1. j \in 1 .. i - 1
    BY <1>1
  <2>2. Entered(entries, dir, i)
    BY DEF DirectoryOf
  <2> QED BY <2>1, <2>2 DEF Entered
<1>3. \A i \in 1 .. N : Passed(E(i), t) <=> i \in begun
  <2> SUFFICES ASSUME NEW i \in 1 .. N PROVE Passed(E(i), t) <=> E(i).id =< T
    OBVIOUS
  <2>1. \A id \in E(i).id .. all - 1 : id \in 0 .. all - 1
    BY <1>0, <1>1
  <2>2. T \in E(i).id .. all - 1 <=> E(i).id =< T
    BY <1>0, <1>1
  <2>3. Passed(E(i), t) <=> \E id \in E(i).id .. all - 1 : id = T
    BY <1>0, <2>1 DEF Passed
  <2> HIDE DEF T, all, E
  <2> QED BY <2>2, <2>3
<1>4. \A i \in 1 .. N :
          (\E id \in E(i).id .. E(i).id + E(i).run - 1 : TileOf(id) = t)
            <=> E(i).id =< T /\ T < E(i).id + E(i).run
  <2> SUFFICES ASSUME NEW i \in 1 .. N
               PROVE  (\E id \in E(i).id .. E(i).id + E(i).run - 1 : TileOf(id) = t)
                        <=> E(i).id =< T /\ T < E(i).id + E(i).run
    OBVIOUS
  <2>0. E(i).id \in Nat /\ E(i).run \in Nat /\ E(i).id + E(i).run =< all
    BY <1>1
  <2> DEFINE lo == E(i).id
             hi == E(i).id + E(i).run - 1
  <2>1. \A id \in lo .. hi : id \in 0 .. all - 1
    BY <1>0, <2>0
  <2>2. T \in lo .. hi <=> E(i).id =< T /\ T < E(i).id + E(i).run
    BY <1>0, <2>0
  <2>3. (\E id \in lo .. hi : TileOf(id) = t) <=> T \in lo .. hi
    BY <1>0, <2>1
  <2> QED BY <2>2, <2>3
<1> DEFINE For(i) == IF E(i).run # 0 THEN i \in begun /\ T < E(i).id + E(i).run
                     ELSE i \in begun /\ \A j \in i + 1 .. N : j \notin begun
<1>5. ForTile(t) = {i \in 1 .. N : For(i)}
  <2>1. \A i \in 1 .. N : \A j \in i + 1 .. N : j \in 1 .. N
    BY <1>1
  <2>2. \A i \in 1 .. N : i \in begun <=> E(i).id =< T
    OBVIOUS
  <2>3. ForTile(t) = {i \in 1 .. N :
            IF E(i).run # 0
            THEN \E id \in E(i).id .. E(i).id + E(i).run - 1 : TileOf(id) = t
            ELSE Passed(E(i), t) /\ \A j \in i + 1 .. N : ~Passed(E(j), t)}
    BY DEF ForTile
  <2> HIDE DEF E, N, T, begun
  <2> QED BY <1>3, <1>4, <2>1, <2>2, <2>3
<1>6. {i \in 1 .. Len(dir) : Ids(dir)[i] =< T} = begun
  BY <1>1
<1> DEFINE best == CHOOSE i \in begun : \A j \in begun : j =< i
           ended == E(best).run # 0 /\ T >= E(best).id + E(best).run
<1>7. begun # {} => best \in begun /\ best \in 1 .. N /\ \A j \in begun : j =< best
  <2>1. begun \in SUBSET (1 .. N)
    OBVIOUS
  <2> HIDE DEF begun, N
  <2> QED BY <1>1, <2>1, LastOne
<1>8. found.hit = IF begun = {} \/ ended THEN Nothing
                  ELSE [offset |-> E(best).offset, length |-> E(best).length,
                        run |-> E(best).run, found |-> TRUE]
  <2> DEFINE b == {i \in 1 .. Len(dir) : Ids(dir)[i] =< T}
             m == CHOOSE i \in b : \A j \in b : j =< i
  <2>1. found.hit = IF b = {} \/ (dir[m].run # 0 /\ T >= Ids(dir)[m] + dir[m].run)
                    THEN Nothing
                    ELSE [offset |-> Offsets(dir)[m], length |-> dir[m].length,
                          run |-> dir[m].run, found |-> TRUE]
    BY DEF SearchDir
  <2>2. b = begun /\ m = best
    BY <1>6
  <2> HIDE DEF b, m, begun, best, N, E, T
  <2>3. CASE begun = {}
    BY <2>1, <2>2, <2>3
  <2>4. CASE begun # {}
    <3>1. /\ dir[best].run = E(best).run /\ dir[best].length = E(best).length
          /\ Ids(dir)[best] = E(best).id /\ Offsets(dir)[best] = E(best).offset
      BY <1>1, <1>7, <2>4
    <3> QED BY <2>1, <2>2, <3>1
  <2> QED BY <2>3, <2>4
<1>9. CASE begun = {} \/ ended
  <2>1. ~found.hit.found
    <3>1. ~Nothing.found
      BY DEF Nothing
    <3> HIDE DEF begun, ended, best, E
    <3> QED BY <1>8, <1>9, <3>1
  <2>2. ASSUME NEW i \in 1 .. N, For(i) PROVE FALSE
    <3>1. i \in begun
      BY <2>2
    <3>2. best \in begun /\ best \in 1 .. N /\ i =< best /\ E(best).id =< T
      BY <1>7, <3>1
    <3>3. E(best).run # 0 /\ T >= E(best).id + E(best).run
      BY <1>9, <3>1
    <3>4. i < best
      <4>1. i # best
        <5>1. For(best) => T < E(best).id + E(best).run
          BY <3>3
        <5>2. E(best).id \in Nat /\ E(best).run \in Nat
          BY <1>1, <3>2
        <5> HIDE DEF best, begun, E, T, N
        <5> QED BY <1>0, <2>2, <3>3, <5>1, <5>2
      <4> HIDE DEF best, begun
      <4> QED BY <1>1, <3>2, <4>1
    <3>5. CASE E(i).run # 0
      <4>1. T < E(i).id + E(i).run
        BY <2>2, <3>5
      <4>2. E(i).id + E(i).run =< E(best).id
        BY <1>2, <3>2, <3>4, <3>5 DEF After
      <4>3. E(i).id \in Nat /\ E(i).run \in Nat /\ E(best).id \in Nat
        BY <1>1, <3>2
      <4> HIDE DEF best, begun, E, T
      <4> QED BY <1>0, <3>2, <4>1, <4>2, <4>3
    <3>6. CASE E(i).run = 0
      <4>1. best \in i + 1 .. N
        <5> HIDE DEF best, begun
        <5> QED BY <1>1, <3>2, <3>4
      <4>2. \A j \in i + 1 .. N : j \notin begun
        BY <2>2, <3>6
      <4> HIDE DEF best, begun
      <4> QED BY <3>2, <4>1, <4>2
    <3> QED BY <3>5, <3>6
  <2>3. ForTile(t) = {}
    <3> HIDE DEF For, N
    <3> QED BY <1>5, <2>2
  <2> QED BY <2>1, <2>3
<1>10. CASE begun # {} /\ ~ended
  <2>1. best \in begun /\ best \in 1 .. N /\ \A j \in begun : j =< best
    BY <1>7, <1>10
  <2>2. E(best).run # 0 => T < E(best).id + E(best).run
    <3>1. E(best).id \in Nat /\ E(best).run \in Nat
      BY <1>1, <2>1
    <3>2. E(best).run # 0 => ~(T >= E(best).id + E(best).run)
      BY <1>10
    <3> HIDE DEF best, begun, E, T
    <3> QED BY <1>0, <3>1, <3>2
  <2>3. \A j \in best + 1 .. N : j \notin begun
    <3> HIDE DEF best, begun
    <3> QED BY <1>1, <2>1
  <2>4. For(best)
    <3> HIDE DEF best, begun, E, T, N
    <3> QED BY <2>1, <2>2, <2>3
  <2>5. best \in ForTile(t)
    <3> HIDE DEF best, For, N
    <3> QED BY <1>5, <2>1, <2>4
  <2>6. /\ found.hit.found /\ found.hit.offset = E(best).offset
        /\ found.hit.length = E(best).length /\ found.hit.run = E(best).run
    <3> HIDE DEF best, begun, ended, E
    <3> QED BY <1>8, <1>10
  <2> HIDE DEF best
  <2> QED BY <2>5, <2>6
<1> QED BY <1>9, <1>10

Found(d, what) ==
    \/ what.tile = NoTile
    \/ what.tile \in AllTiles /\ what.hit = SearchDir(d, TileId(what.tile))

(* The directory says what was written, and was searched for the tile.      *)
IxInv == Len(dir) =< MAX_ENTRIES /\ DirectoryOf(entries, dir) /\ Found(dir, found)

LEMMA IxStarts == IxInit => IxInv
<1> SUFFICES ASSUME IxInit PROVE IxInv
    OBVIOUS
<1>1. entries = <<>> /\ dir = <<>> /\ found.tile = NoTile
  BY DEF IxInit
<1>2. DirectoryOf(<<>>, <<>>)
  BY EmptySeq DEF DirectoryOf
<1>3. Len(<<>>) =< MAX_ENTRIES
  BY EmptySeq, IndexAssumption
<1> QED BY <1>1, <1>2, <1>3 DEF IxInv, Found

LEMMA EnteredLast ==
    ASSUME NEW es, NEW d, DirectoryOf(es, d), NEW e \in WrittenEntries, NEW f \in DirEntries,
           Entered(Append(es, e), Append(d, f), Len(es) + 1)
    PROVE  DirectoryOf(Append(es, e), Append(d, f))
<1> DEFINE n == Len(es)
           es2 == Append(es, e)
           d2 == Append(d, f)
<1>1. /\ n \in Nat /\ Len(d) = n /\ es \in Seq(WrittenEntries) /\ d \in Seq(DirEntries)
      /\ \A i \in 1 .. n : Entered(es, d, i)
  BY LenProperties DEF DirectoryOf
<1>2. /\ es2 \in Seq(WrittenEntries) /\ d2 \in Seq(DirEntries)
      /\ Len(es2) = n + 1 /\ Len(d2) = n + 1
      /\ \A i \in 1 .. n : es2[i] = es[i] /\ d2[i] = d[i]
  BY <1>1, AppendProperties
<1> HIDE DEF es2, d2
<1>3. ASSUME NEW i \in 1 .. n PROVE Entered(es2, d2, i)
  <2>1. es2[i] = es[i] /\ d2[i] = d[i] /\ \A j \in 1 .. i - 1 : es2[j] = es[j]
    BY <1>1, <1>2
  <2>2. i # 1 => es2[i - 1] = es[i - 1]
    BY <1>1, <1>2
  <2>3. Entered(es, d, i)
    BY <1>1
  <2> HIDE DEF n
  <2> QED BY <2>1, <2>2, <2>3 DEF Entered
<1>4. Entered(es2, d2, n + 1)
  BY DEF es2, d2
<1>5. \A i \in 1 .. n + 1 : i \in 1 .. n \/ i = n + 1
  BY <1>1
<1>6. \A i \in 1 .. n + 1 : Entered(es2, d2, i)
  BY <1>3, <1>4, <1>5
<1> QED BY <1>2, <1>6 DEF DirectoryOf, es2, d2

LEMMA AddKeeps ==
    ASSUME IxInv, NEW gap \in GAPS, NEW run \in RUNS, NEW follows \in BOOLEAN,
           AddEntry(gap, run, follows)
    PROVE  Len(dir') =< MAX_ENTRIES /\ DirectoryOf(entries', dir')
<1> DEFINE n == Len(entries)
           last == IF n = 0 THEN [id |-> 0, run |-> 0, offset |-> 0, length |-> 0] ELSE entries[n]
           id == gap + (IF n = 0 THEN 0 ELSE After(last))
           offset == IF follows THEN last.offset + last.length ELSE 7 + n
           e == [id |-> id, run |-> run, offset |-> offset, length |-> n + 1]
           f == [delta |-> id - last.id, run |-> run, length |-> n + 1,
                 offset |-> IF follows THEN 0 ELSE offset + 1]
           es2 == Append(entries, e)
           d2 == Append(dir, f)
<1>1. /\ n \in Nat /\ Len(dir) = n
      /\ entries \in Seq(WrittenEntries) /\ dir \in Seq(DirEntries)
      /\ \A i \in 1 .. n : /\ entries[i].id \in Int /\ entries[i].run \in Int
                           /\ entries[i].offset \in Int /\ entries[i].length \in Int
                           /\ Entered(entries, dir, i)
  BY EntryIs DEF IxInv, DirectoryOf
<1>2. gap \in Nat /\ run \in Nat
  BY IndexAssumption
<1>3. n < MAX_ENTRIES /\ id + run =< Below(MAX_Z + 1) /\ entries' = es2 /\ dir' = d2
  BY DEF AddEntry
<1>4. n # 0 => n \in 1 .. n /\ last = entries[n]
  BY <1>1
<1>5. /\ last.id \in Int /\ last.run \in Int /\ last.offset \in Int /\ last.length \in Int
      /\ last.id >= 0 /\ last.run >= 0
      /\ n = 0 => last.id = 0 /\ last.offset = 0 /\ last.length = 0
  <2>1. CASE n = 0
    BY <2>1
  <2>2. CASE n # 0
    BY <1>1, <1>4, <2>2 DEF Entered
  <2> QED BY <2>1, <2>2
<1> HIDE DEF last
<1>6. After(last) \in Int /\ After(last) >= last.id /\ After(last) >= 0
  BY <1>5 DEF After
<1>7. id \in Int /\ id >= 0 /\ offset \in Int /\ (n # 0 => After(last) =< id)
  BY <1>1, <1>2, <1>5, <1>6
<1>8. (follows => offset = last.offset + last.length) /\ (~follows => offset + 1 # 0)
  BY <1>1
<1> HIDE DEF id, offset
<1>9. e \in WrittenEntries /\ f \in DirEntries
  <2>1. (IF follows THEN 0 ELSE offset + 1) \in Int /\ id - last.id \in Int
    BY <1>5, <1>7
  <2> QED BY <1>1, <1>2, <1>7, <2>1 DEF WrittenEntries, DirEntries
<1>10. /\ es2[n + 1] = e /\ d2[n + 1] = f
       /\ \A i \in 1 .. n : es2[i] = entries[i]
  <2> HIDE DEF e, f
  <2> QED BY <1>1, <1>9, AppendProperties
<1>11. \A j \in 1 .. n : After(entries[j]) =< id
  <2> SUFFICES ASSUME NEW j \in 1 .. n PROVE After(entries[j]) =< id
      OBVIOUS
  <2>1. n # 0 /\ n \in 1 .. n /\ last = entries[n]
    BY <1>1, <1>4
  <2>2. CASE j = n
    BY <1>7, <2>1, <2>2
  <2>3. CASE j # n
    <3>1. j \in 1 .. n - 1
      BY <1>1, <2>3
    <3>2. After(entries[j]) =< last.id
      BY <1>1, <2>1, <3>1 DEF Entered
    <3>3. After(entries[j]) \in Int
      BY <1>1 DEF After
    <3> QED BY <1>5, <1>6, <1>7, <2>1, <3>2, <3>3
  <2> QED BY <2>2, <2>3
<1>12. Entered(es2, d2, n + 1)
  <2> HIDE DEF es2, d2
  <2>1. n + 1 # 1 => n # 0 /\ n \in 1 .. n /\ last = entries[n] /\ es2[n] = entries[n]
    BY <1>1, <1>4, <1>10
  <2>2. (n + 1) - 1 = n /\ (n + 1 = 1 => n = 0)
    BY <1>1
  <2>3. /\ e.id = id /\ e.run = run /\ e.offset = offset /\ e.length = n + 1
        /\ f.delta = id - last.id /\ f.run = run /\ f.length = n + 1
        /\ f.offset = IF follows THEN 0 ELSE offset + 1
    OBVIOUS
  <2> HIDE DEF e, f
  <2>4. \A j \in 1 .. (n + 1) - 1 : After(es2[j]) =< es2[n + 1].id
    BY <1>10, <1>11, <2>2, <2>3
  <2>5. d2[n + 1].delta = es2[n + 1].id - (IF n + 1 = 1 THEN 0 ELSE es2[(n + 1) - 1].id)
    BY <1>5, <1>10, <2>1, <2>2, <2>3
  <2>6. d2[n + 1].offset # 0 => es2[n + 1].offset = d2[n + 1].offset - 1
    BY <1>7, <1>10, <2>3
  <2>7. d2[n + 1].offset = 0 =>
          es2[n + 1].offset = IF n + 1 = 1 THEN 0 ELSE es2[(n + 1) - 1].offset + es2[(n + 1) - 1].length
    <3>1. follows => offset = IF n + 1 = 1 THEN 0 ELSE es2[(n + 1) - 1].offset + es2[(n + 1) - 1].length
      BY <1>5, <1>8, <2>1, <2>2
    <3> HIDE DEF n
    <3> QED BY <1>8, <1>10, <2>3, <3>1
  <2> HIDE DEF n
  <2> QED BY <1>2, <1>3, <1>7, <1>10, <2>3, <2>4, <2>5, <2>6, <2>7 DEF Entered
<1>13. DirectoryOf(es2, d2)
  <2> HIDE DEF e, f
  <2> QED BY <1>9, <1>12, EnteredLast DEF IxInv
<1>14. Len(d2) = n + 1
  <2> HIDE DEF f
  <2> QED BY <1>1, <1>9, AppendProperties
<1> HIDE DEF es2, d2, n
<1> QED BY <1>1, <1>3, <1>13, <1>14, IndexAssumption

LEMMA IxStep == IxInv /\ [IxNext]_ixVars => IxInv'
<1> SUFFICES ASSUME IxInv, [IxNext]_ixVars
             PROVE  Len(dir') =< MAX_ENTRIES /\ DirectoryOf(entries', dir') /\ Found(dir', found')
    BY DEF IxInv
<1>0. Len(dir) =< MAX_ENTRIES /\ DirectoryOf(entries, dir) /\ Found(dir, found)
    BY DEF IxInv
<1>1. ASSUME NEW gap \in GAPS, NEW run \in RUNS, NEW follows \in BOOLEAN,
             AddEntry(gap, run, follows), found.tile = NoTile
      PROVE Len(dir') =< MAX_ENTRIES /\ DirectoryOf(entries', dir') /\ Found(dir', found')
  <2>1. found' = found
    BY <1>1 DEF AddEntry
  <2> QED BY <1>1, <2>1, AddKeeps DEF Found
<1>2. ASSUME NEW t \in AllTiles, Look(t)
      PROVE Len(dir') =< MAX_ENTRIES /\ DirectoryOf(entries', dir') /\ Found(dir', found')
  <2>1. entries' = entries /\ dir' = dir /\ found' = [tile |-> t, hit |-> SearchDir(dir, TileId(t))]
    BY <1>2 DEF Look
  <2> QED BY <1>0, <2>1 DEF Found
<1>3. CASE UNCHANGED ixVars
    BY <1>0, <1>3 DEF ixVars
<1> QED BY <1>1, <1>2, <1>3 DEF IxNext, Add

LEMMA IxInvImplies == IxInv => IxTypeOK
BY DEF IxInv, IxTypeOK, Found

(* What is found for a tile is what the archive has for it, and nothing is  *)
(* found for one it does not have, whatever runs, leaves and contiguous     *)
(* offsets the directory holds (pmtiles.c:226-276), if the curve of         *)
(* zxy_to_tileid and that of tileid_to_zxy are the same one.                *)
THEOREM TheTilesAreFound ==
    ASSUME CurveInverse PROVE IxSpec => []FoundIsTheTiles
<1>1. IxInv => FoundIsTheTiles
  <2> SUFFICES ASSUME IxInv, found.tile # NoTile
               PROVE  IF ForTile(found.tile) = {} THEN ~found.hit.found
                      ELSE \E i \in ForTile(found.tile) :
                              /\ found.hit.found
                              /\ found.hit.offset = entries[i].offset
                              /\ found.hit.length = entries[i].length
                              /\ found.hit.run = entries[i].run
      BY DEF FoundIsTheTiles
  <2>1. /\ DirectoryOf(entries, dir) /\ found.tile \in AllTiles
        /\ found.hit = SearchDir(dir, TileId(found.tile))
    BY DEF IxInv, Found
  <2> QED BY <2>1, SearchFinds
<1> QED BY <1>1, IxStarts, IxStep, PTL DEF IxSpec

-----------------------------------------------------------------------------
(***************************************************************************)
(* Together                                                                 *)
(***************************************************************************)
LEMMA DevicePartsStart ==
    DeviceInit => BootInit /\ BatteryInit /\ NetInit /\ LoInit /\ IxInit
BY DEF DeviceInit

LEMMA DevicePartsStep ==
    [DeviceNext]_deviceVars =>
        /\ [BootNext]_bootVars /\ [BatteryNext]_batteryVars
        /\ [NetNext]_netVars /\ [LoNext]_loVars /\ [IxNext]_ixVars
<1>1. CASE DeviceNext
    BY <1>1 DEF DeviceNext, Rest
<1>2. CASE UNCHANGED deviceVars
    BY <1>2 DEF deviceVars
<1> QED BY <1>1, <1>2

(* A behaviour of the parts of the device that are modelled one by one is   *)
(* one of each of them.  That setup() and the tasks go on is not asked for. *)
THEOREM DevicePartsHold ==
    DeviceSpec => [](DeviceTypeOK /\ CacheOfBuild /\ FloorStored /\ LocalFaithful)
<1>1. DeviceSpec => []BootTypeOK /\ []BatteryTypeOK
    BY DevicePartsStart, DevicePartsStep, BootStarts, BootStep, BootInvImplies,
       BatteryStarts, BatteryStep, BatteryInvImplies, PTL DEF DeviceSpec
<1>2. DeviceSpec => NetSpec /\ LoSpec
    BY DevicePartsStart, DevicePartsStep, PTL DEF DeviceSpec, NetSpec, LoSpec
<1>3. DeviceSpec => []IxTypeOK
    BY DevicePartsStart, DevicePartsStep, IxStarts, IxStep, IxInvImplies, PTL DEF DeviceSpec
<1>4. BootTypeOK /\ BatteryTypeOK /\ NetTypeOK /\ LoTypeOK /\ IxTypeOK => DeviceTypeOK
    BY DEF DeviceTypeOK
<1> QED BY <1>1, <1>2, <1>3, <1>4, CacheKeepsItsBuild, DirectoriesAreTheirOwn, PTL
=============================================================================
