---------------------------- MODULE PictureSpec ----------------------------
(***************************************************************************)
(* The display task with the page loop inside: GLCDPictureLoop draws the   *)
(* picture once for each page, and the power may be cut between two pages. *)
(* Everything else is GlcdSpec, whose GLCDTask is the last step of a loop. *)
(*                                                                         *)
(* A picture is an icon, some fixed strings and the status lines.  spash-  *)
(* Screen and DispScreenUpdate also write globals each time they draw; as  *)
(* they write the same for every page and nobody reads them in between,    *)
(* that is left to the last step.                                          *)
(***************************************************************************)
EXTENDS GlcdSpec, U8glib

CONSTANTS
  Icon,        \* of each state: cnt, h and bits of the bitmap at 0, 0
  Captions,    \* of each screen: the strings it always has
  StatusLine,  \* of each screen with status lines, each line and each text:
               \* the string, that is its position and glyphs
  Residue      \* external: what may be in the controller's memory at power-on

VARIABLE inLoop   \* between firstPage() and the end of the page loop

pictureVars == <<vars, u8gVars, inLoop>>

-----------------------------------------------------------------------------
StatusScreens == {"DispConnecting", "DispError", "DispReady"}

StrBoxes(s) == Str(s.x, s.y, s.glyphs)

IconBox      == [s \in DispStates |-> Bitmap(0, 0, Icon[s].cnt, Icon[s].h, Icon[s].bits)]
CaptionBoxes == [s \in Screens |-> UNION {StrBoxes(c) : c \in Captions[s]}]
LineBoxes    == [s \in StatusScreens |->
                   [l \in StatusLines |->
                      [t \in StatusTexts |-> StrBoxes(StatusLine[s][l][t])]]]

ASSUME PictureAssumption ==
  /\ \A s \in DispStates : Fits(IconBox[s])
  /\ \A s \in Screens : \A b \in CaptionBoxes[s] : Fits(b)
  /\ \A s \in StatusScreens, l \in StatusLines, t \in StatusTexts :
       \A b \in LineBoxes[s][l][t] : Fits(b)

ASSUME ResidueAssumption == Residue \subseteq [Pages -> PageBits]

\* spashScreen and DispScreenUpdate, as far as they draw.
Boxes(shown) ==
  CaptionBoxes[shown.screen]
    \cup (IF shown.screen \in DispStates THEN {IconBox[shown.screen]} ELSE {})
    \cup (IF shown.screen \in StatusScreens
          THEN UNION {LineBoxes[shown.screen][l][shown.text[l]] : l \in StatusLines}
          ELSE {})

\* What the page loop in progress, or the next one, draws.
BeingDrawn == IF disp.ShowSpashScreen THEN [BlankLcd EXCEPT !.screen = "splash"]
              ELSE DispScreenUpdate(disp)

ToDraw == disp.ShowSpashScreen \/ NeedsRedraw(disp)

-----------------------------------------------------------------------------
firstPage ==
  /\ pc = "GLCDTask" /\ ~inLoop
  /\ ToDraw
  /\ u8g' = FirstPage
  /\ inLoop' = TRUE
  /\ UNCHANGED <<vars, glass>>

PageDrawn == Draw(u8g, Boxes(BeingDrawn))

\* The picture is drawn and nextPage() returns 1.
nextPage ==
  /\ inLoop
  /\ ~NoMorePages(PageDrawn)
  /\ glass' = WriteBuffer(PageDrawn, glass)
  /\ u8g' = NextPage(PageDrawn)
  /\ UNCHANGED <<vars, inLoop>>

\* The picture is drawn, nextPage() returns 0, and the task goes on.
lastPage ==
  /\ inLoop
  /\ NoMorePages(PageDrawn)
  /\ glass' = WriteBuffer(PageDrawn, glass)
  /\ u8g' = PageEnd(PageDrawn)
  /\ inLoop' = FALSE
  /\ GLCDTask

NoPicture == ~inLoop /\ NothingToDraw /\ UNCHANGED <<u8gVars, inLoop>>

GLCDPictureLoop == firstPage \/ nextPage \/ lastPage \/ NoPicture

\* Between two calls of GLCDTask.
Others ==
  /\ Approve \/ NotifyError \/ UpdateStatus
  /\ UNCHANGED <<u8gVars, inLoop>>

PassEnds == EndOfPass /\ UNCHANGED <<u8gVars, inLoop>>

\* The memory of the controller is not cleared, and may survive a short cut.
PowerFails ==
  /\ PowerCut
  /\ inLoop' = FALSE
  /\ u8g' = Begin
  /\ glass' \in Residue \cup {glass}

PictureInit ==
  /\ Init
  /\ inLoop = FALSE
  /\ u8g = Begin
  /\ glass \in Residue

PictureNext == GLCDPictureLoop \/ Others \/ PassEnds \/ PowerFails

PictureSpec == PictureInit /\ [][PictureNext]_pictureVars

FairPicture == /\ PictureSpec
               /\ WF_pictureVars(GLCDPictureLoop)
               /\ WF_pictureVars(PassEnds)

-----------------------------------------------------------------------------
\* GlassShowsLcd: once something has been drawn, and between two page loops, the
\* glass shows every pixel of the picture, and no other, whatever it showed
\* before and wherever a power cut stopped the loop before: boxes that begin
\* above the screen or end below it are clipped, not lost or misplaced
\* (u8g_clip.c:98-154, u8g_page.c:53-78, u8g_pb8v1.c:57-88, glcd.ino:150-167).
GlassShowsLcd ==
  (~inLoop /\ lcd.screen # "blank") => glass = Picture(Boxes(lcd))
=============================================================================
