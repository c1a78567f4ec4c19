-------------------------------- MODULE Leds --------------------------------
(***************************************************************************)
(* The two status LEDs (beerbot.ino).  Blink() toggles the internet LED    *)
(* once a second while the blink period is C_CosmON_BLINK_RATE and never   *)
(* when it is 0xFFFFFFFF; what is kept of that is whether it blinks, and   *)
(* the level it is left at when it does not.                               *)
(***************************************************************************)
VARIABLE leds   \* [WiFi, Internet : the levels, blinking : BOOLEAN]

LedsType == [WiFi : BOOLEAN, Internet : BOOLEAN, blinking : BOOLEAN]

LedsOff == [WiFi |-> FALSE, Internet |-> FALSE, blinking |-> FALSE]

setBlinkRate(l, value) == [l EXCEPT !.blinking = (value = 3)]

\* What a person in front of the machine sees of the internet LED.
Blink(l) == IF l.blinking THEN "Blinking" ELSE IF l.Internet THEN "ON" ELSE "Off"
=============================================================================
