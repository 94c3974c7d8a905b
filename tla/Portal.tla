------------------------------- MODULE Portal -------------------------------
(***************************************************************************)
(* portal.cpp and the boot's use of what it stores: a network is picked and *)
(* a password submitted, the derived key is tried and then the passphrase,  *)
(* and what joined is written to the card for the next boot.                *)
(*                                                                          *)
(* There is one network of the user's; everything else that can be typed is *)
(* a wrong password.  A network of the older kind takes the passphrase or   *)
(* the key derived from it, one of the newer kind only the passphrase.      *)
(***************************************************************************)
EXTENDS Integers

CONSTANT PORTAL_TICKS  \* the portal's time-out, in passes of its loop

ASSUME PortalAssumption == PORTAL_TICKS \in Nat

VARIABLES
    network,     \* the kind of the user's network, and if it is in reach
    radioMode,   \* WiFi.mode
    joined,      \* WL_CONNECTED
    credential,  \* what /wifi.bin holds
    portal       \* the portal: open or not, its clock, g_done, g_msg, its scan

portalVars == <<network, radioMode, joined, credential, portal>>

-----------------------------------------------------------------------------
NoCredential == [password |-> "none", kind |-> "none"]
Credentials == {NoCredential} \cup [password : {"right", "wrong"}, kind : {"psk", "passphrase"}]

ClosedPortal == [open |-> FALSE, left |-> 0, done |-> FALSE, message |-> "none",
                 scan |-> "none", result |-> "none"]

Accepts(secret) ==
    secret.password = "right" /\ (network.kind = "sae" => secret.kind = "passphrase")

(* Whether an attempt to join can have ended one way or the other when its  *)
(* time is up. *)
MayJoin(secret, outcome) == outcome => network.reachable /\ Accepts(secret)

-----------------------------------------------------------------------------
PortalInit ==
    /\ network \in [kind : {"wpa2", "sae"}, reachable : BOOLEAN]
    /\ radioMode = "off"
    /\ joined = FALSE
    /\ credential = NoCredential
    /\ portal = ClosedPortal

(* The boot: wifiRadioUp, then the portal if it is asked for or there is    *)
(* nothing stored, else connectWifi with what is stored.                    *)
BootWifi ==
    /\ ~portal.open /\ radioMode = "off"
    /\ \/ UNCHANGED portalVars
       \/ /\ credential # NoCredential
          /\ \E outcome \in BOOLEAN :
                 /\ MayJoin(credential, outcome)
                 /\ joined' = outcome
                 /\ radioMode' = IF outcome THEN "sta" ELSE "off"
          /\ UNCHANGED <<network, credential, portal>>

(* portal_run, from the boot, from the settings or from the cache button. *)
OpenPortal ==
    /\ ~portal.open
    /\ portal' = [ClosedPortal EXCEPT !.open = TRUE, !.left = PORTAL_TICKS, !.scan = "running"]
    /\ radioMode' = "ap_sta"
    /\ UNCHANGED <<network, joined, credential>>

(* handle_root: a message is shown once; a failed scan is started again.    *)
ShowRoot ==
    /\ portal.open /\ ~portal.done
    /\ portal' = [portal EXCEPT !.message = "none",
                                !.scan = IF @ = "failed" THEN "running" ELSE @]
    /\ UNCHANGED <<network, radioMode, joined, credential>>

Rescan ==
    /\ portal.open /\ ~portal.done
    /\ portal' = [portal EXCEPT !.scan = "running"]
    /\ UNCHANGED <<network, radioMode, joined, credential>>

PortalScanEnds(result) ==
    /\ portal.open /\ portal.scan = "running"
    /\ portal' = [portal EXCEPT !.scan = result]
    /\ UNCHANGED <<network, radioMode, joined, credential>>

(* handle_save with nothing selected or a password that is too short, or    *)
(* too long to derive a key from.                                           *)
SubmitUnusable ==
    /\ portal.open /\ ~portal.done
    /\ \E message \in {"at least 8", "cannot derive"} : portal' = [portal EXCEPT !.message = message]
    /\ UNCHANGED <<network, radioMode, joined, credential>>

(* Mutant: the derived key is kept, whichever of the two joined. *)
StoredKey(password, byKey) == [password |-> password, kind |-> "psk"]

(* What is stored is what joined. *)
StoredAs(password, byKey) ==
    [password |-> password, kind |-> IF byKey THEN "psk" ELSE "passphrase"]

(* handle_save: the key has 7 seconds to join, the passphrase then 15; what *)
(* joined is saved in place of the old record, and the portal is done when  *)
(* it was; a write that comes up short is not noticed.                      *)
Submit(password) ==
    \E byKey, byPassphrase, saved \in BOOLEAN :
        LET joins == byKey \/ byPassphrase
        IN  /\ portal.open /\ ~portal.done
            /\ MayJoin([password |-> password, kind |-> "psk"], byKey)
            /\ MayJoin([password |-> password, kind |-> "passphrase"], byPassphrase)
            /\ byKey => ~byPassphrase
            /\ saved => joins
            /\ joined' = joins
            /\ credential' \in CASE saved -> {StoredAs(password, byKey), NoCredential}
                                [] joins /\ ~saved -> {credential, NoCredential}
                                [] OTHER -> {credential}
            /\ portal' = [portal EXCEPT !.done = saved,
                              !.message = IF saved THEN "none"
                                          ELSE IF joins THEN "writing failed" ELSE "could not connect"]
            /\ UNCHANGED <<network, radioMode>>

(* handle_result.  Once the portal is done its loop ends before another     *)
(* request is served, so the page that says so is never sent.               *)
ShowResult ==
    /\ portal.open /\ ~portal.done
    /\ portal' = [portal EXCEPT !.result = "not connected"]
    /\ UNCHANGED <<network, radioMode, joined, credential>>

PortalPass ==
    /\ portal.open /\ ~portal.done /\ portal.left > 0
    /\ portal' = [portal EXCEPT !.left = @ - 1]
    /\ UNCHANGED <<network, radioMode, joined, credential>>

(* The portal ends: it is done, its time is up, or the screen was held.     *)
LeavePortal ==
    /\ portal.open
    /\ portal' = ClosedPortal
    /\ radioMode' = IF portal.done THEN "sta" ELSE "off"
    /\ joined' = (joined /\ portal.done)
    /\ UNCHANGED <<network, credential>>

(* The network goes out of reach and comes back; an association can break.  *)
Reach ==
    /\ network' = [network EXCEPT !.reachable = ~@]
    /\ joined' = (joined /\ network'.reachable)
    /\ UNCHANGED <<radioMode, credential, portal>>

PortalRestart ==
    /\ radioMode' = "off" /\ joined' = FALSE /\ portal' = ClosedPortal
    /\ UNCHANGED <<network, credential>>

PortalNext ==
    \/ BootWifi \/ OpenPortal \/ ShowRoot \/ Rescan
    \/ \E result \in {"failed", "done"} : PortalScanEnds(result)
    \/ SubmitUnusable
    \/ \E password \in {"right", "wrong"} : Submit(password)
    \/ ShowResult \/ PortalPass \/ LeavePortal
    \/ Reach \/ PortalRestart

PortalSpec == PortalInit /\ [][PortalNext]_portalVars

-----------------------------------------------------------------------------
PortalTypeOK ==
    /\ network \in [kind : {"wpa2", "sae"}, reachable : BOOLEAN]
    /\ radioMode \in {"off", "sta", "ap_sta"} /\ joined \in BOOLEAN
    /\ credential \in Credentials
    /\ portal.left \in 0 .. PORTAL_TICKS

(* "Credentials are verified before they are stored" (portal.h:7-10): what  *)
(* the next boot finds on the card is what the network accepts, whatever    *)
(* was typed before and however the attempts went.                          *)
StoredJoins == credential # NoCredential => Accepts(credential)
=============================================================================
