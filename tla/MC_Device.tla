----------------------------- MODULE MC_Device -----------------------------
(***************************************************************************)
(* One instance of the boot, the battery gauge, and the modules about where *)
(* a tile comes from: the network source with its cache, the archives on    *)
(* the card, and the search of one directory.  They share no variable, so a *)
(* behaviour moves one of them and leaves the others where they begin.      *)
(***************************************************************************)
EXTENDS Boot, Battery, NetSource, LocalArchives, TileIndex

(* Of the zooms of the instance; nothing that is proved rests on it without *)
(* saying so.                                                               *)
ASSUME CurveOfInstance == CurveInverse

VARIABLE device

deviceVars == <<device, bootVars, batteryVars, netVars, loVars, ixVars>>

DeviceInit ==
    /\ device \in {"boot", "battery", "net", "card", "directory"}
    /\ BootInit /\ BatteryInit /\ NetInit /\ LoInit /\ IxInit
    /\ device # "boot" => slot.card = "none" /\ page.panelOk

(* All but the one that moves. *)
Rest ==
    /\ UNCHANGED device
    /\ device # "boot" => UNCHANGED bootVars
    /\ device # "battery" => UNCHANGED batteryVars
    /\ device # "net" => UNCHANGED netVars
    /\ device # "card" => UNCHANGED loVars
    /\ device # "directory" => UNCHANGED ixVars

DeviceNext ==
    /\ Rest
    /\ \/ device = "boot" /\ BootNext
       \/ device = "battery" /\ BatteryNext
       \/ device = "net" /\ NetNext
       \/ device = "card" /\ LoNext
       \/ device = "directory" /\ IxNext

DeviceSpec ==
    /\ DeviceInit /\ [][DeviceNext]_deviceVars
    /\ WF_bootVars(device = "boot" /\ Setup /\ Rest)
    /\ WF_bootVars(device = "boot" /\ UsbTask /\ Rest)
    /\ WF_batteryVars(device = "battery" /\ Poll /\ Rest)

DeviceTypeOK ==
    /\ BootTypeOK /\ BatteryTypeOK
    /\ NetTypeOK /\ LoTypeOK /\ IxTypeOK
=============================================================================
