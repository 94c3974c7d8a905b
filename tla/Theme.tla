------------------------------- MODULE Theme -------------------------------
(***************************************************************************)
(* The palette and the backlight: applyTheme and what it asks in            *)
(* tab5_map.cpp, the rows of the settings panel that change them, and the   *)
(* screen switched off and on.  A tick is a third of the 30 s an automatic  *)
(* change of palette waits for; a pass of loop() takes none or one.         *)
(* Levels of the backlight are named; "dim" stands for any of them dimmed.  *)
(***************************************************************************)
EXTENDS Integers, Sequences

CONSTANT DWELL   \* ticks between automatic changes of palette

ASSUME ThemeAssumption == DWELL \in Nat

VARIABLES
    settings,  \* g_themeMode, g_brightMode
    sky,       \* where the sun is, and what there is to tell it from
    dark,      \* map_is_dark()
    flip,      \* ticks since lastFlip; DWELL + 1: long ago, or never
    pressed,   \* g_themeMode differs from lastMode
    screen,    \* g_screenOff, g_brightness, the backlight
    calm       \* not in the code: ticks since settings, sky or g_screenOff changed

themeVars == <<settings, sky, dark, flip, pressed, screen, calm>>

-----------------------------------------------------------------------------
ThemeModes == <<"auto", "day", "night">>
BrightModes == <<"auto", "low", "medium", "high">>
After(modes, m) ==
    LET i == CHOOSE k \in DOMAIN modes : modes[k] = m
    IN  modes[IF i = Len(modes) THEN 1 ELSE i + 1]

(* The sun's way, forth in the evening and back in the morning; twilight    *)
(* is on both sides of the horizon.                                         *)
Suns == <<"up", "setting", "set", "down">>

(* sunIsUp: at the fix, or else at the last place there is; by night and    *)
(* day alike a clock that is not set makes it day; and without a place the  *)
(* palette stays.                                                           *)
SunIsUp ==
    CASE ~sky.placed -> ~dark
      [] sky.placed /\ ~sky.clock -> TRUE
      [] OTHER -> sky.sun \in {"up", "setting"}

WantDark ==
    CASE settings.theme = "day" -> FALSE
      [] settings.theme = "night" -> TRUE
      [] OTHER -> ~SunIsUp

BrightnessAuto(isDark) ==
    CASE settings.theme = "day" -> "full"
      [] settings.theme = "night" -> "night"
      [] OTHER -> IF sky.placed /\ sky.clock /\ sky.sun \in {"setting", "set"} THEN "dusk"
                  ELSE IF isDark THEN "night" ELSE "full"

(* brightnessWanted, and applyIdleDim around it. *)
BrightnessWanted(isDark, idle) ==
    IF idle THEN "dim"
    ELSE CASE settings.bright = "low" -> "night"
           [] settings.bright = "medium" -> "dusk"
           [] settings.bright = "high" -> "full"
           [] OTHER -> BrightnessAuto(isDark)

-----------------------------------------------------------------------------
(* themeBoot: a palette for the remembered place, if there is a clock, and  *)
(* the backlight of the night with it.                                      *)
ThemeInit ==
    /\ settings = [theme |-> "auto", bright |-> "auto"]
    /\ sky \in [sun : {"up", "down"}, placed : BOOLEAN, clock : BOOLEAN]
    /\ sky.placed => sky.clock
    /\ dark = (sky.placed /\ sky.clock /\ sky.sun = "down")
    /\ flip = DWELL + 1
    /\ pressed = FALSE
    /\ screen = [off |-> FALSE, brightness |-> IF dark THEN "night" ELSE "full",
                 backlight |-> IF dark THEN "night" ELSE "full"]
    /\ calm = 0

(* A row of the settings panel, which is only there with the screen on. *)
ThemeTap ==
    /\ ~screen.off /\ ~pressed
    /\ \/ settings' = [settings EXCEPT !.theme = After(ThemeModes, @)] /\ pressed' = TRUE
       \/ settings' = [settings EXCEPT !.bright = After(BrightModes, @)] /\ UNCHANGED pressed
    /\ calm' = 0
    /\ UNCHANGED <<sky, dark, flip, screen>>

(* screenOff *)
Sleep ==
    /\ ~screen.off
    /\ screen' = [screen EXCEPT !.off = TRUE, !.backlight = "none"]
    /\ calm' = 0
    /\ UNCHANGED <<settings, sky, dark, flip, pressed>>

(* The level is followed while the screen is off, the backlight is not      *)
(* driven then.                                                             *)
LevelFollows(level) ==
    [screen EXCEPT !.brightness = level,
                   !.backlight = IF screen.off THEN "none"
                                 ELSE IF level # screen.brightness THEN level ELSE @]

(* Mutant: the next pass is left to light it. *)
LitLater(s) == [s EXCEPT !.off = FALSE]

Lit(s) == [s EXCEPT !.off = FALSE, !.backlight = s.brightness]

(* screenOn *)
WakeUp ==
    /\ screen.off
    /\ screen' = Lit(screen)
    /\ calm' = 0
    /\ UNCHANGED <<settings, sky, dark, flip, pressed>>

(* A palette that is pressed for comes at once. *)
Flips(since) == WantDark # dark /\ (pressed \/ since > DWELL)

(* applyTheme, on every pass; while the screen is off the device is not     *)
(* dimmed (idleDimmed).                                                     *)
ApplyTheme ==
    \E elapsed \in 0 .. 1, idle \in BOOLEAN :
        LET since == IF flip + elapsed > DWELL THEN DWELL + 1 ELSE flip + elapsed
        IN  /\ idle => ~screen.off
            /\ dark' = IF Flips(since) THEN WantDark ELSE dark
            /\ flip' = IF Flips(since) THEN 0 ELSE since
            /\ calm' = IF calm + elapsed > DWELL THEN DWELL + 1 ELSE calm + elapsed
            /\ pressed' = FALSE
            /\ screen' = LevelFollows(BrightnessWanted(dark', idle))
            /\ UNCHANGED <<settings, sky>>

(* The sun moves; a clock and a place, once there, stay. *)
ThemeSky ==
    /\ \/ \E i, j \in DOMAIN Suns :
            /\ i - j \in {-1, 1} /\ sky.sun = Suns[i]
            /\ sky' = [sky EXCEPT !.sun = Suns[j]]
       \/ ~sky.placed /\ sky' = [sky EXCEPT !.placed = TRUE]
       \/ ~sky.clock /\ sky' = [sky EXCEPT !.clock = TRUE]
    /\ calm' = 0
    /\ UNCHANGED <<settings, dark, flip, pressed, screen>>

ThemeNext == ThemeTap \/ Sleep \/ WakeUp \/ ApplyTheme \/ ThemeSky

ThemeSpec == ThemeInit /\ [][ThemeNext]_themeVars

-----------------------------------------------------------------------------
ThemeTypeOK ==
    /\ settings.theme \in {"auto", "day", "night"}
    /\ settings.bright \in {"auto", "low", "medium", "high"}
    /\ dark \in BOOLEAN /\ flip \in 0 .. DWELL + 1
    /\ screen \in [off : BOOLEAN, brightness : {"full", "dusk", "night", "dim"},
                   backlight : {"none", "full", "dusk", "night", "dim"}]

(* When nothing has changed for as long as an automatic palette may wait,   *)
(* palette and backlight are what is wanted, whatever sun, settings and     *)
(* sleep did before: a screen that is on is never left unlit or at a level  *)
(* of another time, and one that is off is dark (tab5_map.cpp:810-822,      *)
(* 1208-1217).                                                              *)
ThemeTrue ==
    calm > DWELL =>
        /\ dark = WantDark
        /\ IF screen.off THEN screen.backlight = "none"
           ELSE screen.backlight \in {"dim", BrightnessWanted(dark, FALSE)}
=============================================================================
