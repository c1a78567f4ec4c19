-------------------------------- MODULE Glcd --------------------------------
(***************************************************************************)
(* The display task of the BeerBot sketch (glcd.ino) and the dispenser it  *)
(* drives (vendBeer in beerbot.ino).                                       *)
(*                                                                         *)
(* The rest of the program never dispenses a beer itself: approving a code *)
(* only sets DispState to DispVending (GLCDVendBeer), and the beer leaves  *)
(* the machine when GLCDTask, the first task of the next pass of loop(),   *)
(* builds the vending screen.  The other callers write the same variable:  *)
(* GLCDNotifyError, and updateDispStatus when a channel comes up.          *)
(*                                                                         *)
(* The globals of glcd.ino are the fields of the record disp, so that the  *)
(* modules of the callers can apply several calls in the order one handler *)
(* makes them.  Pixels, fonts, colours and delays are left out.            *)
(***************************************************************************)
EXTENDS Naturals

VARIABLES pc,         \* the task of loop(), or the step inside it, that runs next
          disp,       \* the globals of glcd.ino
          lcd,        \* what the glass shows
          vendside,   \* vendside % 2: which motor turns next
          approvals,  \* history: calls of GLCDVendBeer since the machine was built
          vends       \* history: motor pulses since the machine was built

glcdVars == <<disp, lcd, vendside, approvals, vends>>

-----------------------------------------------------------------------------
StatusLines == {"GSM", "WiFi", "NET", "COSM"}
StatusTexts == {"unset", "NOK", "OK", "NO_SIM"}
DispStates  == {"DispDummy", "DispConnecting", "DispError", "DispReady",
                "DispVending"}
Screens == DispStates \cup {"blank", "splash"}

DispType == [DispState : DispStates, DispStatePrev : DispStates,
             updateDispStat : BOOLEAN, ShowSpashScreen : BOOLEAN,
             status : [StatusLines -> StatusTexts]]

\* The globals after the C start-up code and GLCDInit.
GLCDInit == [DispState |-> "DispDummy", DispStatePrev |-> "DispDummy",
             updateDispStat |-> FALSE, ShowSpashScreen |-> TRUE,
             status |-> [l \in StatusLines |-> "unset"]]

BlankLcd == [screen |-> "blank", text |-> [l \in StatusLines |-> "unset"]]

-----------------------------------------------------------------------------
(* The calls the other tasks make, as functions of the display's globals.  *)

GLCDVendBeer(d) == [d EXCEPT !.DispState = "DispVending"]

GLCDNotifyError(d) == [d EXCEPT !.DispState = "DispError"]

\* Mutant: the flag that asks for a redraw is forgotten.
updateDispStatusUnflagged(d, line, text) ==
  [d EXCEPT !.status[line] = text,
            !.DispState = IF line \in {"GSM", "COSM"} /\ text = "OK"
                          THEN "DispReady" ELSE @]

\* The GSM and COSM lines also switch the screen when their channel comes up.
TurnsReady(line, text) == line \in {"GSM", "COSM"} /\ text = "OK"

updateDispStatus(d, line, text) ==
  [d EXCEPT !.status[line] = text,
            !.DispState = IF TurnsReady(line, text) THEN "DispReady" ELSE @,
            !.updateDispStat = TRUE]

-----------------------------------------------------------------------------
(* GLCDTask, that is GLCDPictureLoop.                                      *)

spashScreen(d) == [d EXCEPT !.status = [l \in StatusLines |-> "NOK"],
                            !.DispState = "DispConnecting",
                            !.DispStatePrev = "DispDummy",
                            !.updateDispStat = TRUE,
                            !.ShowSpashScreen = FALSE]

\* Mutant: only a change of state redraws.
NeedsRedrawOnChange(d) == d.DispState # d.DispStatePrev

NeedsRedraw(d) == d.updateDispStat \/ d.DispState # d.DispStatePrev

\* The connecting, error and ready screens carry the four status lines.
DispScreenUpdate(d) ==
  [screen |-> d.DispState,
   text |-> IF d.DispState = "DispVending" THEN BlankLcd.text ELSE d.status]

Drawn(d) == [d EXCEPT !.DispStatePrev = d.DispState, !.updateDispStat = FALSE]

\* The splash is drawn once per power cycle; the call then goes on below.
ShowSplash ==
  /\ pc = "GLCDTask"
  /\ disp.ShowSpashScreen
  /\ disp' = spashScreen(disp)
  /\ lcd' = [BlankLcd EXCEPT !.screen = "splash"]
  /\ UNCHANGED <<pc, vendside, approvals, vends>>

Redraw ==
  /\ pc = "GLCDTask"
  /\ ~disp.ShowSpashScreen
  /\ NeedsRedraw(disp)
  /\ disp.DispState # "DispVending"
  /\ lcd' = DispScreenUpdate(disp)
  /\ disp' = Drawn(disp)
  /\ pc' = "BeerBotTask"
  /\ UNCHANGED <<vendside, approvals, vends>>

\* Mutant: the request is left standing after the beer.
vendBeerAgain ==
  /\ pc = "GLCDTask"
  /\ ~disp.ShowSpashScreen
  /\ NeedsRedraw(disp)
  /\ disp.DispState = "DispVending"
  /\ lcd' = DispScreenUpdate(disp)
  /\ disp' = Drawn(disp)
  /\ vends' = vends + 1
  /\ vendside' = 1 - vendside
  /\ pc' = "BeerBotTask"
  /\ UNCHANGED approvals

\* One motor turns for half a second, the screen stays for ten, and the
\* display goes back to the ready screen.
vendBeer ==
  /\ pc = "GLCDTask"
  /\ ~disp.ShowSpashScreen
  /\ NeedsRedraw(disp)
  /\ disp.DispState = "DispVending"
  /\ lcd' = DispScreenUpdate(disp)
  /\ disp' = [Drawn(disp) EXCEPT !.DispState = "DispReady"]
  /\ vends' = vends + 1
  /\ vendside' = 1 - vendside
  /\ pc' = "BeerBotTask"
  /\ UNCHANGED approvals

NothingToDraw ==
  /\ pc = "GLCDTask"
  /\ ~disp.ShowSpashScreen
  /\ ~NeedsRedraw(disp)
  /\ pc' = "BeerBotTask"
  /\ UNCHANGED glcdVars

GLCDTask == ShowSplash \/ Redraw \/ vendBeer \/ NothingToDraw

\* A power cut leaves the histories alone and everything else as at power-on.
GlcdPowerOn ==
  /\ disp' = GLCDInit
  /\ lcd' = BlankLcd
  /\ vendside' = 0
  /\ UNCHANGED <<approvals, vends>>

GlcdInit ==
  /\ disp = GLCDInit
  /\ lcd = BlankLcd
  /\ vendside = 0
  /\ approvals = 0
  /\ vends = 0

GlcdTypeOK ==
  /\ disp \in DispType
  /\ lcd \in [screen : Screens, text : [StatusLines -> StatusTexts]]
  /\ vendside \in {0, 1}
  /\ approvals \in Nat
  /\ vends \in Nat
=============================================================================
