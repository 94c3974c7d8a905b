------------------------------- MODULE Touch -------------------------------
(***************************************************************************)
(* The user interface of tab5_map.cpp: what a tap does, the two panels, the *)
(* list of saved points behind one of them (waypoints.cpp), and what the    *)
(* panel and the footer show.  A saved point is where it was saved and a    *)
(* number that tells it from others saved there.  Places are on a line.     *)
(*                                                                          *)
(* A pass of loop() takes at most one tap; what is drawn is drawn at 15     *)
(* frames a second, and two taps are further apart than two frames.         *)
(***************************************************************************)
EXTENDS Integers, Sequences, SequencesExt

CONSTANTS
    Spans,      \* places, as integers
    Estimates,  \* those of them Wi-Fi positioning estimates
    WP_MAX,     \* saved points there is room for
    PANEL_ROWS, \* pinPanelRows()
    HEARTBEAT,  \* the footer is drawn anew after this many frames
    CONFIRM     \* frames a tap on the cache button waits for a second one

ASSUME TouchAssumption ==
    /\ Spans \subseteq Nat /\ Estimates \subseteq Spans
    /\ WP_MAX \in Nat \ {0} /\ PANEL_ROWS \in Nat \ {0}
    /\ HEARTBEAT \in Nat /\ CONFIRM \in Nat

VARIABLES
    pins,     \* g_wp: a sequence of points
    target,   \* g_target, counted from 1; 0: none
    chosen,   \* not in the code: the point the user asked to be guided to
    ui,       \* g_pinPanel or g_setPanel, g_pinScroll, g_pinEpoch's parity,
              \* g_screenOff, g_confirmUntil as frames left
    receiver, \* the fix: where, or that there is none; and the Wi-Fi estimate
    cache,    \* what the cache button has before it: a prefetch ("busy"), an
              \* area that is "held", or one that is not, with a network
              \* ("ready") and without one ("unjoined")
    panel,    \* what the points panel on the screen shows, and its lastSig
    footer,   \* g_btnShown, what the screen has there, g_btnShownValid, and
              \* frames since g_btnLastDraw
    fresh,    \* a frame has been drawn since anything changed
    still     \* not in the code: frames since a label changed

drawnVars == <<panel, footer, fresh, still>>
touchVars == <<pins, target, chosen, ui, receiver, cache, drawnVars>>

-----------------------------------------------------------------------------
NoPlace == -1
Areas == {"ready", "unjoined"}
NoPin == [at |-> NoPlace, no |-> 0]
Points == [at : Spans, no : 1 .. WP_MAX]

Lower(a, b) == IF a < b THEN a ELSE b

(* map_draw, the status bar and the panels are given `view': the fix, or    *)
(* the estimate dressed up as one.                                          *)
View == IF receiver.fix # NoPlace THEN receiver.fix ELSE receiver.estimate

Distance(a, b) == IF a < b THEN b - a ELSE a - b

(* wp_target *)
Guided == IF target =< Len(pins) THEN target ELSE 0

(* The rows of the page the panel is scrolled to. *)
Page(list, scroll) == SubSeq(list, scroll + 1, Lower(scroll + PANEL_ROWS, Len(list)))

(* What the points panel has to show, bearings left out.  (The settings     *)
(* panel is drawn the same way, and its signature is all of its text.)      *)
Content ==
    [rows |-> [i \in 1 .. Len(Page(pins, ui.scroll)) |->
                  [pin |-> Page(pins, ui.scroll)[i],
                   range |-> IF View = NoPlace THEN NoPlace
                             ELSE Distance(View, Page(pins, ui.scroll)[i].at),
                   active |-> Guided = ui.scroll + i]],
     saves |-> IF View = NoPlace THEN "no fix"
               ELSE IF Len(pins) >= WP_MAX THEN "list full" ELSE "save here",
     guiding |-> Guided # 0,
     scrolls |-> Len(pins) > PANEL_ROWS]

Ranges == [i \in DOMAIN Content.rows |-> Content.rows[i].range]

(* Mutant: reopening the panel does not count. *)
SignatureWithoutEpoch ==
    <<0, Len(pins), ui.scroll, Guided, View # NoPlace /\ Len(pins) < WP_MAX, Ranges>>

(* drawPinPanel's signature: the panel is drawn when it is not what it was. *)
Signature ==
    <<ui.epoch, Len(pins), ui.scroll, Guided, View # NoPlace /\ Len(pins) < WP_MAX, Ranges>>

(* The footer's buttons that change, as far as they do. *)
Labels ==
    [cache |-> IF cache = "ready" /\ ui.confirm > 0 THEN "confirm?" ELSE cache,
     points |-> IF Guided # 0 THEN "to" ELSE "points"]

NoLabels == [cache |-> "", points |-> ""]

-----------------------------------------------------------------------------
TouchInit ==
    /\ pins = <<>>
    /\ target = 0 /\ chosen = NoPin
    /\ ui = [open |-> "none", scroll |-> 0, epoch |-> 0,
             screenOff |-> FALSE, confirm |-> 0]
    /\ receiver = [fix |-> NoPlace, estimate |-> NoPlace]
    /\ cache = "unjoined"
    /\ panel = [shows |-> <<>>, last |-> <<>>]
    /\ footer = [table |-> NoLabels, screen |-> NoLabels, valid |-> FALSE, age |-> 0]
    /\ fresh = FALSE
    /\ still = 0

(* Every tap is followed by a frame; a tap changes labels, or may. *)
Tapped == fresh /\ fresh' = FALSE /\ still' = 0

(* What a tap leaves on the screen: everything, or nothing.                 *)
ScreenKept == Tapped /\ UNCHANGED <<panel, footer>>
ScreenWiped(valid) ==
    /\ Tapped
    /\ panel' = [panel EXCEPT !.shows = <<>>]
    /\ footer' = [footer EXCEPT !.screen = NoLabels, !.valid = valid]

(* The scroll is read only while the points panel is open, which resets it. *)
Closed(u) == [u EXCEPT !.open = "none", !.scroll = 0]

(* A tap anywhere but on the cache button takes its question back. *)
Unconfirmed(u) == [u EXCEPT !.confirm = 0]

TapsMap == ~ui.screenOff /\ ui.open = "none"
TapsPanel(which) == ~ui.screenOff /\ ui.open = which

(* pinPanelOpen and setPanelOpen. *)
OpenPanel ==
    \E which \in {"pins", "settings"} :
        /\ TapsMap
        /\ ui' = [Unconfirmed(ui) EXCEPT !.open = which, !.epoch = IF which = "pins" THEN 1 - @ ELSE @]
        /\ ScreenKept
        /\ UNCHANGED <<pins, target, chosen, receiver, cache>>

(* The panel's close button, or a tap next to it. *)
ClosePanel ==
    /\ ~ui.screenOff /\ ui.open # "none"
    /\ ui' = Closed(ui)
    /\ ScreenWiped(FALSE)
    /\ UNCHANGED <<pins, target, chosen, receiver, cache>>

(* "save here": wp_add_fix refuses without a fix - an estimate is not one - *)
(* and with a full list.                                                    *)
Save ==
    /\ TapsPanel("pins")
    /\ receiver.fix # NoPlace /\ Len(pins) < WP_MAX
    /\ \E no \in 1 .. WP_MAX :
        /\ \A i \in DOMAIN pins : pins[i].no # no
        /\ \A n \in 1 .. no - 1 : \E i \in DOMAIN pins : pins[i].no = n
        /\ pins' = Append(pins, [at |-> receiver.fix, no |-> no])
    /\ UNCHANGED <<target, chosen, ui, receiver, cache>>
    /\ ScreenKept

(* "stop guiding" *)
StopGuiding ==
    /\ TapsPanel("pins") /\ Guided # 0
    /\ target' = 0 /\ chosen' = NoPin
    /\ UNCHANGED <<pins, ui, receiver, cache>>
    /\ ScreenKept

Scroll ==
    /\ TapsPanel("pins")
    /\ \/ ui.scroll > 0 /\ ui' = [ui EXCEPT !.scroll = @ - 1]
       \/ ui.scroll + PANEL_ROWS < Len(pins) /\ ui' = [ui EXCEPT !.scroll = @ + 1]
    /\ UNCHANGED <<pins, target, chosen, receiver, cache>>
    /\ ScreenKept

(* Mutant: the target keeps its index. *)
RetargetedNot(i) == IF target = i THEN 0 ELSE target

(* wp_remove: the list moves up under the target. *)
Retargeted(i) ==
    CASE target = i -> 0 [] target > i -> target - 1 [] OTHER -> target

(* Mutant: the page stays where it is. *)
ScrolledBackNot(scroll) == scroll

(* The last page there is after one point has gone. *)
ScrolledBack(scroll) ==
    IF scroll + PANEL_ROWS < Len(pins) THEN scroll
    ELSE IF Len(pins) - 1 > PANEL_ROWS THEN Len(pins) - 1 - PANEL_ROWS ELSE 0

(* "del": the page is scrolled back if nothing is left to fill it. *)
RemovePoint ==
    \E i \in ui.scroll + 1 .. Lower(ui.scroll + PANEL_ROWS, Len(pins)) :
        /\ TapsPanel("pins")
        /\ pins' = RemoveAt(pins, i)
        /\ target' = Retargeted(i)
        /\ chosen' = IF chosen = pins[i] THEN NoPin ELSE chosen
        /\ ui' = [ui EXCEPT !.scroll = ScrolledBack(@)]
        /\ ScreenKept
        /\ UNCHANGED <<receiver, cache>>

(* A row: guide there, or if that is where it guides already no more. *)
Choose ==
    \E i \in ui.scroll + 1 .. Lower(ui.scroll + PANEL_ROWS, Len(pins)) :
        /\ TapsPanel("pins")
        /\ target' = IF Guided = i THEN 0 ELSE i
        /\ chosen' = IF Guided = i THEN NoPin ELSE pins[i]
        /\ ui' = Closed(ui)
        /\ ScreenWiped(FALSE)
        /\ UNCHANGED <<pins, receiver, cache>>

(* The portal, from its row or from the cache button: it draws over         *)
(* everything, and may leave the device joined.                             *)
RunPortal ==
    /\ \/ TapsPanel("settings") /\ ui' = Closed(ui)
       \/ TapsMap /\ cache = "unjoined" /\ UNCHANGED ui
    /\ cache' \in IF cache \in Areas THEN Areas ELSE {cache}
    /\ ScreenWiped(FALSE)
    /\ UNCHANGED <<pins, target, chosen, receiver>>

(* The cache button with something to fetch and a network: the first tap    *)
(* asks, a second one within its time starts the prefetch.                  *)
TapCache ==
    /\ TapsMap /\ cache = "ready"
    /\ \/ /\ ui.confirm > 0
          /\ ui' = Unconfirmed(ui) /\ cache' = "busy"
       \/ /\ ui.confirm = 0
          /\ ui' = [ui EXCEPT !.confirm = CONFIRM] /\ UNCHANGED cache
    /\ UNCHANGED <<pins, target, chosen, receiver>>
    /\ ScreenKept

(* The map and the centring button. *)
Pan ==
    /\ TapsMap /\ ui.confirm > 0
    /\ ui' = Unconfirmed(ui)
    /\ UNCHANGED <<pins, target, chosen, receiver, cache>>
    /\ ScreenKept

(* screenOff and screenOn fill the screen without a word to the footer.     *)
SwitchScreenOff ==
    /\ TapsMap
    /\ ui' = [Unconfirmed(ui) EXCEPT !.screenOff = TRUE]
    /\ ScreenWiped(footer.valid)
    /\ UNCHANGED <<pins, target, chosen, receiver, cache>>

(* With the screen off a tap in the middle wakes it and does no more; one   *)
(* elsewhere does nothing.                                                  *)
Wake ==
    /\ ui.screenOff
    /\ ui' = [ui EXCEPT !.screenOff = FALSE]
    /\ ScreenWiped(footer.valid)
    /\ UNCHANGED <<pins, target, chosen, receiver, cache>>

(* The fix, the estimate, the network and the prefetch, between taps. *)
Meanwhile ==
    /\ \/ \E fix \in Spans \cup {NoPlace}, estimate \in Estimates \cup {NoPlace} :
            /\ fix # NoPlace => estimate = NoPlace
            /\ receiver' = [fix |-> fix, estimate |-> estimate]
            /\ UNCHANGED <<cache, still>>
       \/ /\ cache' \in {"held", "ready", "unjoined"}
          /\ still' = 0
          /\ UNCHANGED receiver
    /\ fresh' = FALSE
    /\ UNCHANGED <<pins, target, chosen, ui, panel, footer>>

PanelDrawn ==
    IF ui.open = "pins" /\ panel.last # Signature
    THEN [shows |-> Content, last |-> Signature]
    ELSE panel

(* flushButtons: all of them, if they are not valid or were last drawn too  *)
(* long ago; or else those whose label is not the one in the table.         *)
FooterDrawn ==
    LET all == ~footer.valid \/ footer.age > HEARTBEAT
        changed == {b \in DOMAIN Labels : all \/ footer.table[b] # Labels[b]}
    IN  [table |-> Labels, valid |-> footer.valid \/ changed # {},
         screen |-> [b \in DOMAIN Labels |-> IF b \in changed THEN Labels[b] ELSE footer.screen[b]],
         age |-> IF changed # {} THEN 0 ELSE footer.age + 1]

(* A frame's time passes; nothing is drawn while the screen is off. *)
Frame ==
    /\ IF ui.screenOff
       THEN /\ footer' = [footer EXCEPT !.age = Lower(HEARTBEAT + 1, @ + 1)]
            /\ UNCHANGED panel
       ELSE panel' = PanelDrawn /\ footer' = FooterDrawn
    /\ ui' = [ui EXCEPT !.confirm = IF @ > 0 THEN @ - 1 ELSE 0]
    /\ still' = IF ui.screenOff \/ ui.confirm = 1 THEN 0 ELSE Lower(HEARTBEAT + 3, still + 1)
    /\ fresh' = (ui.confirm # 1)
    /\ UNCHANGED <<pins, target, chosen, receiver, cache>>

TouchNext ==
    \/ OpenPanel \/ ClosePanel \/ Save \/ StopGuiding \/ Scroll \/ RemovePoint \/ Choose
    \/ RunPortal \/ TapCache \/ Pan \/ SwitchScreenOff \/ Wake
    \/ Meanwhile \/ Frame

TouchSpec == TouchInit /\ [][TouchNext]_touchVars

-----------------------------------------------------------------------------
(* The page is never scrolled past the last point that would fill it. *)
TouchTypeOK ==
    /\ pins \in BoundedSeq(Points, WP_MAX)
    /\ target \in 0 .. Len(pins)
    /\ ui.open \in {"none", "pins", "settings"} /\ ui.confirm \in 0 .. CONFIRM
    /\ ui.screenOff => ui.open = "none"
    /\ ui.open = "pins" => ui.scroll = 0 \/ ui.scroll + PANEL_ROWS =< Len(pins)

(* Guidance leads to the point it was asked for, however the list moved     *)
(* under the index that stands for it, and ends with that point             *)
(* (waypoints.cpp:118-125).                                                 *)
TargetFollowsPin == chosen = IF Guided = 0 THEN NoPin ELSE pins[Guided]

(* "It now redraws when its content actually differs" (tab5_map.cpp:        *)
(* 1237-1238): once a frame is drawn an open panel shows what is in the     *)
(* list now, wherever the screen was cleared in between; and the footer     *)
(* shows what the buttons do, at the latest when nothing on it has changed  *)
(* for the heartbeat (1013-1021).                                           *)
PanelTrue == ui.open = "pins" => panel.shows = Content
FooterTrue == ~ui.screenOff /\ still > HEARTBEAT + 2 => footer.screen = Labels
ScreenTrue == fresh => PanelTrue /\ FooterTrue

(* "The first pass after screenOn() redraws the row at once instead of      *)
(* waiting out the heartbeat with a blank strip at the bottom" (1063-1064). *)
(* It does not: loop() does not call drawFooter while the screen is off     *)
(* (4734), so nothing forgets the row that screenOff wiped.                 *)
DrawnOnWaking == fresh /\ ~ui.screenOff => footer.screen # NoLabels
=============================================================================
