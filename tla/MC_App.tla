------------------------------- MODULE MC_App -------------------------------
(***************************************************************************)
(* One instance of the modules about what loop() does on a pass and what    *)
(* the device keeps: taps and what they draw, the receiver's rate and the   *)
(* idle screen, palette and backlight, the small files, the table of access *)
(* points, the magnetometer log, the portal with its credentials, and the   *)
(* compass's calibration.  They share no variable, so a behaviour moves one *)
(* of them and leaves the others where they begin.                          *)
(***************************************************************************)
EXTENDS Touch, RatePolicy, Theme, SavedFiles, ApTable, MagLog, Portal,
        Calibration

VARIABLE app

appVars ==
    <<app, touchVars, rateVars, themeVars, filesVars, apVars, magVars, portalVars,
      calVars>>

(* What does not move has one initial state. *)
Unmoved ==
    /\ app # "theme" => sky = [sun |-> "up", placed |-> TRUE, clock |-> TRUE]
    /\ app # "files" => file = "cal" /\ card.there
    /\ app # "table" => cardThere
    /\ app # "log" => log.available
    /\ app # "portal" => network = [kind |-> "wpa2", reachable |-> TRUE]
    /\ app # "cal" => ok

AppInit ==
    /\ app \in {"touch", "rate", "theme", "files", "table", "log", "portal", "cal"}
    /\ TouchInit /\ RateInit /\ ThemeInit
    /\ FilesInit /\ ApInit /\ MagInit /\ PortalInit /\ CalInit
    /\ Unmoved

AppNext ==
    /\ UNCHANGED app
    /\ app # "touch" => UNCHANGED touchVars
    /\ app # "rate" => UNCHANGED rateVars
    /\ app # "theme" => UNCHANGED themeVars
    /\ app # "files" => UNCHANGED filesVars
    /\ app # "table" => UNCHANGED apVars
    /\ app # "log" => UNCHANGED magVars
    /\ app # "portal" => UNCHANGED portalVars
    /\ app # "cal" => UNCHANGED calVars
    /\ \/ app = "touch" /\ TouchNext
       \/ app = "rate" /\ RateNextStep
       \/ app = "theme" /\ ThemeNext
       \/ app = "files" /\ FilesNext
       \/ app = "table" /\ ApNext
       \/ app = "log" /\ MagNext
       \/ app = "portal" /\ PortalNext
       \/ app = "cal" /\ CalNext

AppSpec == AppInit /\ [][AppNext]_appVars

AppTypeOK ==
    /\ TouchTypeOK /\ RateTypeOK /\ ThemeTypeOK
    /\ FilesTypeOK /\ ApTypeOK /\ MagTypeOK /\ PortalTypeOK /\ CalTypeOK
=============================================================================
