---------------------------- MODULE MC_Position ----------------------------
(***************************************************************************)
(* One instance of the modules about the position: the receiver's link, the *)
(* checks on its fix, positioning by access points, and the view that       *)
(* follows the position.  They share no variable, so a behaviour moves one  *)
(* of them, chosen at the start, and leaves the others where they begin.    *)
(***************************************************************************)
EXTENDS GnssLink, GpsTrust, WifiLoc, ViewFollow

VARIABLE part

positionVars == <<part, linkVars, trustVars, wifiLocVars, viewVars>>

(* What does not move has one initial state. *)
Still ==
    /\ part # "trust" => sky.fix.pos = 0 /\ sky.fix.alt = 0
    /\ part # "wifi" => wifi.on /\ learned.any

PositionInit ==
    /\ part \in {"link", "trust", "wifi", "view"}
    /\ LinkInit /\ TrustInit /\ WifiLocInit /\ ViewInit
    /\ Still

(* All but the one that moves. *)
Others ==
    /\ UNCHANGED part
    /\ part # "link" => UNCHANGED linkVars
    /\ part # "trust" => UNCHANGED trustVars
    /\ part # "wifi" => UNCHANGED wifiLocVars
    /\ part # "view" => UNCHANGED viewVars

PositionNext ==
    /\ Others
    /\ \/ part = "link" /\ LinkNext
       \/ part = "trust" /\ TrustNext
       \/ part = "wifi" /\ WifiLocNext
       \/ part = "view" /\ ViewNext

PositionSpec ==
    /\ PositionInit /\ [][PositionNext]_positionVars
    /\ WF_wifiLocVars(part = "wifi" /\ Poll(1) /\ Others)

PositionTypeOK == LinkTypeOK /\ TrustTypeOK /\ WifiLocTypeOK /\ ViewTypeOK
=============================================================================
