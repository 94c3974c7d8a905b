-------------------------------- MODULE Boot --------------------------------
(***************************************************************************)
(* setup() of tab5_map.cpp from the search for a store on: a card in its    *)
(* slot, a drive in the USB port that a task of its own mounts              *)
(* (main/idf_usb_msc.cpp), the choice between them (storage.cpp), and the   *)
(* steps to the first pass of loop().  Cards and drives come and go.        *)
(*                                                                          *)
(* A drive or card is "fat", which this build reads, "foreign", which it    *)
(* does not, or "spi", a card that answers on the slow bus only.            *)
(***************************************************************************)
EXTENDS Integers, Sequences, SequencesExt

CONSTANTS
    USB_EVENTS,  \* room in s_events
    LAST_WAIT    \* polls a wait with a deadline makes

ASSUME BootAssumption == USB_EVENTS \in Nat \ {0} /\ LAST_WAIT \in Nat

VARIABLES
    slot,   \* the card in the slot, and how SD_MMC or SD has mounted it
    port,   \* the drive in the port, and its address
    usb,    \* s_events, what usb_msc_task is at, s_dev, s_vfs, s_mounted
    store,  \* g_fs and g_have
    boot,   \* where setup() is, the waits left, askedFormat, the taps
    page,   \* g_panelOk, g_bootActive, g_fill_pending, what is on the screen
    lost    \* not in the code: s_events had no room for an event

bootVars == <<slot, port, usb, store, boot, page, lost>>

-----------------------------------------------------------------------------
UsbAddresses == {1, 2}
Idle == [kind |-> "none", no |-> 0]

BootInit ==
    /\ slot \in [card : {"none", "fat", "foreign", "spi"}, mounted : {"no"}]
    /\ port = [drive |-> "none", no |-> 2]
    /\ usb = [events |-> <<>>, task |-> Idle, dev |-> FALSE, vfs |-> FALSE, mounted |-> FALSE]
    /\ store = [fs |-> "none", have |-> FALSE]
    /\ boot = [at |-> "mount", left |-> 0, asked |-> FALSE, taps |-> 0]
    /\ \E panelOk \in BOOLEAN :
        page = [panelOk |-> panelOk, active |-> TRUE, fill |-> TRUE, screen |-> "list"]
    /\ lost = FALSE

-----------------------------------------------------------------------------
(* Cards and drives are changed until the store is chosen; what comes and   *)
(* goes later makes no difference to setup().                               *)
Searching == boot.at \in {"mount", "wait", "ask", "try", "format", "found"}

(* msc_event, on the driver's own task: it does not wait for room.          *)
Sent(kind, no) ==
    IF Len(usb.events) < USB_EVENTS
    THEN usb' = [usb EXCEPT !.events = Append(@, [kind |-> kind, no |-> no])] /\ UNCHANGED lost
    ELSE lost' = TRUE /\ UNCHANGED usb

PlugDrive ==
    \E drive \in {"fat", "foreign"} :
        /\ Searching /\ port.drive = "none"
        /\ port' = [drive |-> drive, no |-> 3 - port.no]
        /\ Sent("connected", port'.no)
        /\ UNCHANGED <<slot, store, boot, page>>

(* The driver reports the end of a device it has installed.                 *)
UnplugDrive ==
    /\ Searching /\ port.drive # "none"
    /\ port' = [port EXCEPT !.drive = "none"]
    /\ IF usb.dev THEN Sent("disconnected", port.no) ELSE UNCHANGED <<usb, lost>>
    /\ UNCHANGED <<slot, store, boot, page>>

Reachable(no) == port.drive # "none" /\ port.no = no

(* usb_msc_task takes an event.  A drive that has gone cannot be installed. *)
UsbInstall ==
    /\ usb.task = Idle /\ usb.events # <<>> /\ Head(usb.events).kind = "connected"
    /\ LET e == Head(usb.events)
       IN  usb' = [usb EXCEPT !.events = Tail(@), !.dev = Reachable(e.no),
                              !.task = IF Reachable(e.no) THEN e ELSE Idle]
    /\ UNCHANGED <<slot, port, store, boot, page, lost>>

(* msc_host_vfs_register fails on what is gone, on what cannot be read, and *)
(* on a mount point that is taken.                                          *)
Registered(e) ==
    IF Reachable(e.no) /\ port.drive = "fat" /\ ~usb.vfs
    THEN [usb EXCEPT !.vfs = TRUE, !.mounted = TRUE, !.task = Idle]
    ELSE [usb EXCEPT !.dev = FALSE, !.task = Idle]

UsbRegister ==
    /\ usb.task.kind = "connected"
    /\ usb' = Registered(usb.task)
    /\ UNCHANGED <<slot, port, store, boot, page, lost>>

(* s_mounted goes first, then the file system and the device. *)
UsbRemoved ==
    /\ usb.task = Idle /\ usb.events # <<>> /\ Head(usb.events).kind = "disconnected"
    /\ usb' = [usb EXCEPT !.events = Tail(@), !.mounted = FALSE,
                          !.task = [kind |-> "removing", no |-> Head(usb.events).no]]
    /\ UNCHANGED <<slot, port, store, boot, page, lost>>

UsbReleased ==
    /\ usb.task.kind = "removing"
    /\ usb' = [usb EXCEPT !.vfs = FALSE, !.dev = FALSE, !.task = Idle]
    /\ UNCHANGED <<slot, port, store, boot, page, lost>>

UsbTask == Searching /\ (UsbInstall \/ UsbRegister \/ UsbRemoved \/ UsbReleased)

(* A card is put in or taken out; the driver is not told. *)
ChangeCard ==
    /\ Searching
    /\ slot' \in {[slot EXCEPT !.card = c] :
                     c \in IF slot.card = "none" THEN {"fat", "foreign", "spi"} ELSE {"none"}}
    /\ UNCHANGED <<port, usb, store, boot, page, lost>>

-----------------------------------------------------------------------------
(* pick: the drive, or else the card, or else the bus nothing may be on.    *)
Picked(mounted) ==
    CASE usb.mounted -> [fs |-> "USB", have |-> TRUE]
      [] ~usb.mounted /\ mounted = "SDMMC" -> [fs |-> "SDMMC", have |-> TRUE]
      [] OTHER -> [fs |-> "SPI", have |-> FALSE]

(* SD_MMC.begin on four lines and on one, and SD.begin after them.          *)
OnSdmmc == slot.card = "fat"
OnSpi == slot.card \in {"fat", "spi"}

At(place) == boot' = [boot EXCEPT !.at = place]
WaitAt(place) == boot' = [boot EXCEPT !.at = place, !.left = LAST_WAIT]

(* bootBegin, and bootStepEx in so far as it draws. *)
ListShown == IF page.active /\ page.panelOk THEN [page EXCEPT !.screen = "list"] ELSE page
ListBegun == IF page.panelOk THEN [page EXCEPT !.active = TRUE, !.screen = "list"] ELSE page

(* mountSD(&bus), the first thing. *)
MountSD ==
    /\ boot.at = "mount"
    /\ slot' = [slot EXCEPT !.mounted = IF OnSdmmc THEN "SDMMC" ELSE IF OnSpi THEN "SPI" ELSE "no"]
    /\ At(IF slot'.mounted = "no" THEN "wait" ELSE "found")
    /\ UNCHANGED <<port, usb, store, page, lost>>

(* Mutant: the drive is looked for once, before the wait.                   *)
PolledOnce(mounted) == store

(* A poll of waitForStorage: the drive, the card, and once the question for *)
(* a card that is there - which may be seen or not - and does not mount.    *)
Polled(mounted) == Picked(mounted)

WaitForStorage ==
    /\ boot.at = "wait"
    /\ store' = Polled(slot.mounted)
    /\ \E seen \in BOOLEAN :
        /\ seen => slot.card # "none"
        /\ IF store'.have THEN At("found") /\ UNCHANGED <<slot, page>>
           ELSE IF OnSdmmc THEN At("found") /\ slot' = [slot EXCEPT !.mounted = "SDMMC"] /\ UNCHANGED page
           ELSE /\ boot' = IF seen /\ ~boot.asked
                           THEN [boot EXCEPT !.asked = TRUE, !.taps = 0,
                                             !.at = IF page.panelOk THEN "ask" ELSE "wait"]
                           ELSE boot
                /\ page' = IF boot'.at = "ask" THEN [page EXCEPT !.screen = "question"] ELSE page
                /\ UNCHANGED slot
    /\ UNCHANGED <<port, usb, lost>>

NextAfter(touched) ==
    IF ~touched THEN "wait" ELSE IF boot.taps = 0 THEN "ask" ELSE "try"

(* confirmFormat: a touch, twice, each within its time. *)
ConfirmFormat ==
    /\ boot.at = "ask"
    /\ \E touched \in BOOLEAN :
        boot' = [boot EXCEPT !.at = NextAfter(touched), !.taps = IF touched THEN @ + 1 ELSE 0]
    /\ UNCHANGED <<slot, port, usb, store, page, lost>>

(* mountSD(&bus, true) reads first what can be read. *)
TryAgain ==
    /\ boot.at = "try"
    /\ page' = ListBegun
    /\ slot' = [slot EXCEPT !.mounted = IF OnSdmmc THEN "SDMMC" ELSE IF OnSpi THEN "SPI" ELSE "no"]
    /\ At(IF slot'.mounted = "no" THEN "format" ELSE "found")
    /\ UNCHANGED <<port, usb, store, lost>>

(* SD_MMC.begin with format_if_mount_failed, which takes the card in the    *)
(* slot or fails; then the wait goes on, and does not ask again.            *)
Format ==
    /\ boot.at = "format"
    /\ \/ At("wait") /\ UNCHANGED slot
       \/ slot.card # "none" /\ At("found") /\ slot' = [card |-> "fat", mounted |-> "SDMMC"]
    /\ UNCHANGED <<port, usb, store, page, lost>>

(* storage_rescan, "once mounted". *)
Settle ==
    /\ boot.at = "found"
    /\ store' = Picked(slot.mounted)
    /\ page' = ListBegun
    /\ boot' = [boot EXCEPT !.at = "map", !.asked = FALSE, !.taps = 0]
    /\ UNCHANGED <<slot, port, usb, lost>>

-----------------------------------------------------------------------------
(* map_begin: without memory for it setup() ends here. *)
OpenMap ==
    /\ boot.at = "map"
    /\ \/ WaitAt("check") /\ UNCHANGED page
       \/ At("stopped") /\ page' = [page EXCEPT !.active = FALSE]
    /\ UNCHANGED <<slot, port, usb, store, lost>>

(* The archive check, whatever the answer; then the saved points, the       *)
(* palette, and the area of the last fix, if one is remembered.             *)
CheckArchive ==
    /\ boot.at = "check"
    /\ \E answered, remembered \in BOOLEAN :
        IF ~answered /\ boot.left > 0
        THEN boot' = [boot EXCEPT !.left = @ - 1] /\ UNCHANGED page
        ELSE /\ WaitAt(IF remembered THEN "picture" ELSE "radio")
             /\ page' = [ListShown EXCEPT !.fill = FALSE]
    /\ UNCHANGED <<slot, port, usb, store, lost>>

(* bootEnd: once, and not without a panel. *)
BootEnded(picture) ==
    IF ~page.panelOk \/ ~page.active THEN page
    ELSE [page EXCEPT !.active = FALSE, !.fill = TRUE,
                      !.screen = IF picture THEN "map" ELSE "world"]

(* The map is waited for, but not for ever; then it is drawn.               *)
DrawLastArea ==
    /\ boot.at = "picture"
    /\ \E complete \in BOOLEAN :
        IF ~complete /\ boot.left > 0
        THEN boot' = [boot EXCEPT !.left = @ - 1] /\ UNCHANGED page
        ELSE At("radio") /\ page' = [BootEnded(TRUE) EXCEPT !.screen = "map"]
    /\ UNCHANGED <<slot, port, usb, store, lost>>

(* wifiRadioUp, and with a radio the portal or the stored network.          *)
BringUpRadio ==
    /\ boot.at = "radio"
    /\ \/ At("end") /\ page' = ListShown
       \/ WaitAt("portal") /\ page' = [page EXCEPT !.screen = "portal"]
    /\ UNCHANGED <<slot, port, usb, store, lost>>

(* portal_run, with its own deadline, and map_invalidate. *)
BootPortal ==
    /\ boot.at = "portal"
    /\ \E done \in BOOLEAN :
        IF ~done /\ boot.left > 0
        THEN boot' = [boot EXCEPT !.left = @ - 1] /\ UNCHANGED page
        ELSE At("end") /\ page' = [page EXCEPT !.screen = "blank"]
    /\ UNCHANGED <<slot, port, usb, store, lost>>

(* wifiloc_begin, the world floor, bootEnd; loop() draws the map. *)
EnterLoop ==
    /\ boot.at = "end"
    /\ \E picture \in BOOLEAN : page' = BootEnded(picture)
    /\ At("loop")
    /\ UNCHANGED <<slot, port, usb, store, lost>>

Setup ==
    \/ MountSD \/ WaitForStorage \/ ConfirmFormat \/ TryAgain \/ Format \/ Settle
    \/ OpenMap \/ CheckArchive \/ DrawLastArea \/ BringUpRadio \/ BootPortal \/ EnterLoop

BootNext == Setup \/ UsbTask \/ PlugDrive \/ UnplugDrive \/ ChangeCard

BootSpec ==
    BootInit /\ [][BootNext]_bootVars /\ WF_bootVars(Setup) /\ WF_bootVars(UsbTask)

-----------------------------------------------------------------------------
Places == {"mount", "wait", "ask", "try", "format", "found", "map", "check",
           "picture", "radio", "portal", "end", "loop", "stopped"}

BootTypeOK ==
    /\ boot \in [at : Places, left : 0 .. LAST_WAIT, asked : BOOLEAN, taps : 0 .. 2]
    /\ usb.events \in BoundedSeq([kind : {"connected", "disconnected"}, no : UsbAddresses], USB_EVENTS)
    /\ store \in [fs : {"none", "USB", "SDMMC", "SPI"}, have : BOOLEAN]
    /\ boot.at = "loop" /\ page.panelOk => page.fill /\ ~page.active

(* "There is also no reason the device cannot notice it arriving"           *)
(* (tab5_map.cpp:4075-4077): with a drive that can be read left in the port *)
(* setup() comes to its end, whatever was plugged and unplugged before and  *)
(* whatever is in the slot - unless the driver's queue overran.             *)
BootsInTheEnd ==
    <>[](port.drive = "fat" /\ ~lost) => <>(boot.at \in {"loop", "stopped"})
=============================================================================
