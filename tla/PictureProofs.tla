--------------------------- MODULE PictureProofs ---------------------------
(***************************************************************************)
(* Theorems about the display task.                                        *)
(*                                                                         *)
(* First about the task alone, for every bound on the approvals.  Then     *)
(* what the page loop adds to it, for every size of screen, every font and *)
(* icon and every width of u8g_uint_t: the task with the loop inside is    *)
(* still the task of GlcdSpec, and the glass shows the picture.            *)
(***************************************************************************)
EXTENDS PictureSpec, TLAPS

-----------------------------------------------------------------------------
(* The display task of GlcdSpec.                                           *)

\* The calls and the steps of GLCDTask keep the shape of the display's globals.
LEMMA CallTypes ==
  ASSUME NEW d \in DispType
  PROVE  /\ GLCDVendBeer(d) \in DispType
         /\ GLCDNotifyError(d) \in DispType
         /\ spashScreen(d) \in DispType
         /\ Drawn(d) \in DispType
         /\ [Drawn(d) EXCEPT !.DispState = "DispReady"] \in DispType
         /\ DispScreenUpdate(d) \in [screen : Screens,
                                     text : [StatusLines -> StatusTexts]]
  BY DEF DispType, DispStates, Screens, StatusTexts, GLCDVendBeer,
         GLCDNotifyError, spashScreen, Drawn, DispScreenUpdate, BlankLcd

LEMMA StatusCallType ==
  ASSUME NEW d \in DispType, NEW l \in StatusLines, NEW t \in StatusTexts
  PROVE  updateDispStatus(d, l, t) \in DispType
  BY DEF DispType, DispStates, updateDispStatus

\* GlcdTyped: the display's variables stay within their types (type
\* correctness of the globals of glcd.ino under every sequence of calls).
THEOREM GlcdTyped == Spec => []TypeOK
<1>1. Init => TypeOK
  BY DEF Init, GlcdInit, TypeOK, GlcdTypeOK, GLCDInit, BlankLcd, DispType,
         DispStates, Screens, StatusTexts
<1>2. TypeOK /\ [Next]_vars => TypeOK'
  <2> SUFFICES ASSUME TypeOK, [Next]_vars PROVE TypeOK'
    OBVIOUS
  <2> USE DEF TypeOK, GlcdTypeOK
  <2>1. CASE ShowSplash
    BY <2>1, CallTypes DEF ShowSplash, BlankLcd, Screens, StatusTexts
  <2>2. CASE Redraw
    BY <2>2, CallTypes DEF Redraw
  <2>3. CASE vendBeer
    BY <2>3, CallTypes DEF vendBeer
  <2>4. CASE NothingToDraw
    BY <2>4 DEF NothingToDraw, glcdVars
  <2>5. CASE Approve
    <3>1. GLCDVendBeer(disp) \in DispType
      BY CallTypes
    <3> QED
      BY <2>5, <3>1, SMT DEF Approve
  <2>6. CASE NotifyError
    BY <2>6, CallTypes DEF NotifyError
  <2>7. CASE UpdateStatus
    BY <2>7, StatusCallType DEF UpdateStatus, StatusCalls
  <2>8. CASE EndOfPass
    BY <2>8 DEF EndOfPass, glcdVars
  <2>9. CASE PowerCut
    BY <2>9 DEF PowerCut, GlcdPowerOn, GLCDInit, BlankLcd, DispType,
                DispStates, Screens, StatusTexts
  <2>10. CASE UNCHANGED vars
    BY <2>10 DEF vars, glcdVars
  <2> QED
    BY <2>1, <2>2, <2>3, <2>4, <2>5, <2>6, <2>7, <2>8, <2>9, <2>10
       DEF Next, GLCDTask
<1> QED
  BY <1>1, <1>2, PTL DEF Spec

-----------------------------------------------------------------------------
\* The inductive invariant: a pending vend is an approval not yet served.
IInv == TypeOK /\ NoFreeBeer /\ PendingIsApproved

LEMMA IInvInductive == IInv /\ TypeOK' /\ [Next]_vars => IInv'
<1> SUFFICES ASSUME IInv, TypeOK', [Next]_vars PROVE IInv'
  OBVIOUS
<1> USE DEF IInv, TypeOK, GlcdTypeOK, NoFreeBeer, PendingIsApproved
<1>1. CASE ShowSplash
  BY <1>1 DEF ShowSplash, spashScreen, DispType
<1>2. CASE Redraw
  BY <1>2 DEF Redraw, Drawn, DispType
<1>3. CASE vendBeer
  BY <1>3 DEF vendBeer, Drawn, DispType
<1>4. CASE NothingToDraw
  BY <1>4 DEF NothingToDraw, glcdVars
<1>5. CASE Approve
  BY <1>5 DEF Approve
<1>6. CASE NotifyError
  BY <1>6 DEF NotifyError, GLCDNotifyError, DispType
<1>7. CASE UpdateStatus
  BY <1>7 DEF UpdateStatus, updateDispStatus, DispType
<1>8. CASE EndOfPass
  BY <1>8 DEF EndOfPass, glcdVars
<1>9. CASE PowerCut
  BY <1>9 DEF PowerCut, GlcdPowerOn, GLCDInit
<1>10. CASE UNCHANGED vars
  BY <1>10 DEF vars, glcdVars
<1> QED
  BY <1>1, <1>2, <1>3, <1>4, <1>5, <1>6, <1>7, <1>8, <1>9, <1>10
     DEF Next, GLCDTask

\* NoFreeBeerAlways: the motors never turn more often than codes were
\* approved, for any number of approvals, errors, status calls and power cuts.
THEOREM NoFreeBeerAlways == Spec => []NoFreeBeer
<1>1. Init => IInv
  BY DEF Init, GlcdInit, GLCDInit, IInv, TypeOK, GlcdTypeOK, NoFreeBeer,
         PendingIsApproved, BlankLcd, DispType, DispStates, Screens, StatusTexts
<1>2. IInv => NoFreeBeer
  BY DEF IInv
<1> QED
  BY <1>1, <1>2, IInvInductive, GlcdTyped, PTL DEF Spec

-----------------------------------------------------------------------------
\* What the glass shows unless a call has asked for a redraw: the screen drawn
\* last, even when the state has changed and changed back since.
GlassInv ==
  (~disp.ShowSpashScreen /\ ~disp.updateDispStat) =>
     lcd = DispScreenUpdate([disp EXCEPT !.DispState = disp.DispStatePrev])

LEMMA GlassInductive == TypeOK /\ GlassInv /\ [Next]_vars => GlassInv'
<1> SUFFICES ASSUME TypeOK, GlassInv, [Next]_vars PROVE GlassInv'
  OBVIOUS
<1> USE DEF TypeOK, GlcdTypeOK, GlassInv, DispScreenUpdate, DispType
<1>1. CASE ShowSplash
  BY <1>1 DEF ShowSplash, spashScreen
<1>2. CASE Redraw
  BY <1>2 DEF Redraw, Drawn
<1>3. CASE vendBeer
  BY <1>3 DEF vendBeer, Drawn
<1>4. CASE Approve
  BY <1>4 DEF Approve, GLCDVendBeer
<1>5. CASE NotifyError
  BY <1>5 DEF NotifyError, GLCDNotifyError
<1>6. CASE UpdateStatus
  BY <1>6 DEF UpdateStatus, updateDispStatus
<1>7. CASE PowerCut
  BY <1>7 DEF PowerCut, GlcdPowerOn, GLCDInit
<1>8. CASE NothingToDraw \/ EndOfPass \/ UNCHANGED vars
  BY <1>8 DEF NothingToDraw, EndOfPass, vars, glcdVars
<1> QED
  BY <1>1, <1>2, <1>3, <1>4, <1>5, <1>6, <1>7, <1>8 DEF Next, GLCDTask

\* LcdAgreesAlways: whenever GLCDTask would draw nothing, the glass shows the
\* current screen and status lines (glcd.ino:159-170).
THEOREM LcdAgreesAlways == Spec => []LcdAgrees
<1>1. Init => GlassInv
  BY DEF Init, GlcdInit, GLCDInit, GlassInv
<1>2. TypeOK /\ GlassInv => LcdAgrees
  BY DEF GlassInv, LcdAgrees, NeedsRedraw, DispScreenUpdate, TypeOK, GlcdTypeOK,
         DispType
<1> QED
  BY <1>1, <1>2, GlassInductive, GlcdTyped, PTL DEF Spec

-----------------------------------------------------------------------------
\* ImplementsPromise: the display task under any calls implements VendPromise:
\* every step approves, serves, forfeits or stutters (glcd.ino:136-170).
THEOREM ImplementsPromise == Spec => ServesPromise
<1> USE DEF Promise!Init, Promise!Next, Promise!Approve, Promise!Serve,
            Promise!Forfeit, Promise!vars
<1>1. Init => Promise!Init
  BY DEF Init, GlcdInit, GLCDInit
<1>2. TypeOK /\ [Next]_vars => [Promise!Next]_(Promise!vars)
  <2> SUFFICES ASSUME TypeOK, [Next]_vars
               PROVE  [Promise!Next]_(Promise!vars)
    OBVIOUS
  <2> USE DEF TypeOK, GlcdTypeOK, DispType
  <2>1. CASE ShowSplash
    BY <2>1 DEF ShowSplash, spashScreen
  <2>2. CASE Redraw
    BY <2>2 DEF Redraw, Drawn
  <2>3. CASE vendBeer
    BY <2>3 DEF vendBeer, Drawn
  <2>4. CASE Approve
    BY <2>4 DEF Approve, GLCDVendBeer
  <2>5. CASE NotifyError
    BY <2>5 DEF NotifyError, GLCDNotifyError
  <2>6. CASE UpdateStatus
    BY <2>6 DEF UpdateStatus, updateDispStatus
  <2>7. CASE PowerCut
    BY <2>7 DEF PowerCut, GlcdPowerOn, GLCDInit
  <2>8. CASE NothingToDraw \/ EndOfPass \/ UNCHANGED vars
    BY <2>8 DEF NothingToDraw, EndOfPass, vars, glcdVars
  <2> QED
    BY <2>1, <2>2, <2>3, <2>4, <2>5, <2>6, <2>7, <2>8 DEF Next, GLCDTask
<1> QED
  BY <1>1, <1>2, GlcdTyped, PTL DEF Spec, Promise!Spec, ServesPromise

-----------------------------------------------------------------------------
(* Clipping.                                                               *)

\* A box that has a row (a column) on the page is not clipped: the test of
\* u8g_clip.c is right for intervals that wrap around, whatever their length.
LEMMA NothingVisibleClipped ==
  ASSUME NEW a0 \in Nat, NEW a1 \in Nat, a0 <= a1, a1 < Limit,
         NEW v \in Coordinate, NEW n \in 0 .. Limit, NEW i \in 0 .. n - 1,
         a0 <= Wrap(v + i), Wrap(v + i) <= a1
  PROVE  IsIntersection(a0, a1, v, Wrap(v + n - 1))
BY SizeAssumption DEF IsIntersection, Wrap, Coordinate

\* The rows of a page.
OnPage(u) ==
  /\ u.page \in Pages
  /\ u.page_y0 = PAGE_HEIGHT * u.page
  /\ u.page_y1 = IF u.page_y0 + PAGE_HEIGHT <= HEIGHT THEN u.page_y0 + PAGE_HEIGHT - 1
                 ELSE HEIGHT - 1
  /\ u.current_page = [y0 |-> u.page_y0, y1 |-> u.page_y1]

LEMMA RowsOfPage ==
  ASSUME NEW u, OnPage(u), NEW y \in Coordinate
  PROVE  /\ u.page_y0 \in Nat /\ u.page_y1 \in Nat
         /\ u.page_y0 <= u.page_y1 /\ u.page_y1 < HEIGHT
         /\ (u.page_y0 <= y /\ y <= u.page_y1) <=> (y < HEIGHT /\ y \div PAGE_HEIGHT = u.page)
         /\ (u.page_y0 <= y /\ y <= u.page_y1) =>
              (y - u.page_y0) % 8 = y % PAGE_HEIGHT
<1>1. u.page \in Nat /\ PAGE_HEIGHT * u.page < HEIGHT
  BY SizeAssumption DEF OnPage, Pages, PAGE_HEIGHT
<1>2. u.page_y0 = 8 * u.page
  BY DEF OnPage, PAGE_HEIGHT
<1>3. u.page_y1 = IF u.page_y0 + 8 <= HEIGHT THEN u.page_y0 + 7 ELSE HEIGHT - 1
  BY <1>1, <1>2, SizeAssumption DEF OnPage, PAGE_HEIGHT
<1> QED
  BY <1>1, <1>2, <1>3, SizeAssumption DEF PAGE_HEIGHT, Coordinate

-----------------------------------------------------------------------------
(* Drawing.                                                                *)

\* What page k of the reference holds of one box.
Share(b, k) ==
  {<<p[1], p[2] % PAGE_HEIGHT>> :
     p \in {q \in b.pixels :
              q[1] < WIDTH /\ q[2] < HEIGHT /\ q[2] \div PAGE_HEIGHT = k}}

LEMMA PixelOfBox ==
  ASSUME NEW b, Fits(b), NEW p \in b.pixels
  PROVE  \E i \in 0 .. b.w - 1, j \in 0 .. b.h - 1 :
           p = <<Wrap(b.x + i), Wrap(b.y + j)>>
BY DEF Fits

LEMMA PixelType ==
  ASSUME NEW b, Fits(b), NEW p \in b.pixels
  PROVE  p = <<p[1], p[2]>> /\ p[1] \in Coordinate /\ p[2] \in Coordinate
<1>1. PICK i \in 0 .. b.w - 1, j \in 0 .. b.h - 1 : p = <<Wrap(b.x + i), Wrap(b.y + j)>>
  BY PixelOfBox
<1>2. Wrap(b.x + i) \in Coordinate /\ Wrap(b.y + j) \in Coordinate
  BY SizeAssumption DEF Fits, Wrap, Coordinate
<1> QED
  BY <1>1, <1>2

\* DrawBox draws, into the page that is open, what this page is to show of a box.
LEMMA DrawBoxIsShare ==
  ASSUME NEW u, OnPage(u), NEW b, Fits(b)
  PROVE  DrawBox(u, b) = Share(b, u.page)
<1> DEFINE Shown == {q \in b.pixels :
                       q[1] < WIDTH /\ q[2] < HEIGHT /\ q[2] \div PAGE_HEIGHT = u.page}
           Seen  == {q \in b.pixels : Is8PixelVisible(u, q) /\ Inside(u, q)}
<1>1. Seen = Shown
  <2> SUFFICES ASSUME NEW q \in b.pixels
               PROVE  (Is8PixelVisible(u, q) /\ Inside(u, q)) <=>
                        (q[1] < WIDTH /\ q[2] < HEIGHT /\ q[2] \div PAGE_HEIGHT = u.page)
    OBVIOUS
  <2>1. q[2] \in Coordinate
    BY PixelType
  <2>2. Is8PixelVisible(u, q) <=> (u.page_y0 <= q[2] /\ q[2] <= u.page_y1)
    BY <2>1, RowsOfPage DEF Is8PixelVisible, IsIntersection, Coordinate
  <2> QED
    BY <2>1, <2>2, RowsOfPage DEF Inside
<1>2. ASSUME NEW q \in Shown
      PROVE  SetPixel(u, q) = <<q[1], q[2] % PAGE_HEIGHT>>
  BY PixelType, RowsOfPage DEF SetPixel
<1>3. ASSUME NEW q \in Shown
      PROVE  IsBBXIntersection(u, b)
  <2>1. PICK i \in 0 .. b.w - 1, j \in 0 .. b.h - 1 : q = <<Wrap(b.x + i), Wrap(b.y + j)>>
    BY PixelOfBox
  <2>2. q[2] \in Coordinate /\ q[1] \in Coordinate
    BY PixelType
  <2>3. /\ b.x \in Coordinate /\ b.y \in Coordinate
        /\ b.w \in 0 .. Limit /\ b.h \in 0 .. Limit
    BY DEF Fits
  <2>4. IsIntersection(u.page_y0, u.page_y1, b.y, Wrap(b.y + b.h - 1))
    <3>1. /\ u.page_y0 \in Nat /\ u.page_y1 \in Nat /\ u.page_y1 < Limit
          /\ u.page_y0 <= u.page_y1
          /\ u.page_y0 <= Wrap(b.y + j) /\ Wrap(b.y + j) <= u.page_y1
      BY <2>1, <2>2, RowsOfPage, SizeAssumption DEF PAGE_HEIGHT
    <3> QED
      BY <2>3, <3>1, NothingVisibleClipped
  <2>5. IsIntersection(0, WIDTH - 1, b.x, Wrap(b.x + b.w - 1))
    <3>1. /\ 0 \in Nat /\ WIDTH - 1 \in Nat /\ WIDTH - 1 < Limit /\ 0 <= WIDTH - 1
          /\ 0 <= Wrap(b.x + i) /\ Wrap(b.x + i) <= WIDTH - 1
      BY <2>1, <2>2, SizeAssumption DEF Coordinate
    <3> QED
      BY <2>3, <3>1, NothingVisibleClipped
  <2> QED
    BY <2>4, <2>5 DEF IsBBXIntersection, OnPage
<1>4. CASE IsBBXIntersection(u, b)
  <2>1. DrawBox(u, b) = {SetPixel(u, q) : q \in Seen}
    BY <1>4 DEF DrawBox
  <2> QED
    BY <2>1, <1>1, <1>2 DEF Share
<1>5. CASE ~IsBBXIntersection(u, b)
  BY <1>3, <1>5 DEF DrawBox, Share
<1> QED
  BY <1>4, <1>5

\* A whole picture, drawn into an empty buffer.
LEMMA DrawIsPicture ==
  ASSUME NEW u, OnPage(u), NEW boxes, \A b \in boxes : Fits(b)
  PROVE  UNION {DrawBox(u, b) : b \in boxes} = Picture(boxes)[u.page]
<1>1. UNION {DrawBox(u, b) : b \in boxes} = UNION {Share(b, u.page) : b \in boxes}
  BY DrawBoxIsShare
<1>2. UNION {Share(b, u.page) : b \in boxes} = Picture(boxes)[u.page]
  BY DEF Share, Picture, OnPage
<1> QED
  BY <1>1, <1>2

LEMMA PictureType ==
  ASSUME NEW boxes, \A b \in boxes : Fits(b)
  PROVE  Picture(boxes) \in [Pages -> PageBits]
<1> SUFFICES ASSUME NEW k \in Pages, NEW p \in UNION {b.pixels : b \in boxes},
                    p[1] < WIDTH
             PROVE  <<p[1], p[2] % PAGE_HEIGHT>> \in (0 .. WIDTH - 1) \X (0 .. PAGE_HEIGHT - 1)
  BY DEF Picture, PageBits
<1>1. p[1] \in Coordinate /\ p[2] \in Coordinate
  BY PixelType
<1> QED
  BY <1>1, SizeAssumption DEF Coordinate, PAGE_HEIGHT

LEMMA BoxesFit ==
  ASSUME NEW shown, shown.screen \in Screens, shown.text \in [StatusLines -> StatusTexts]
  PROVE  \A b \in Boxes(shown) : Fits(b)
BY PictureAssumption DEF Boxes

-----------------------------------------------------------------------------
(* Refinement.                                                             *)

\* Every step of the loop but the last is a stutter of the display task, and
\* the last is one of its steps.
LEMMA StepOfTask == [PictureNext]_pictureVars => [Next]_vars
BY DEF PictureNext, pictureVars, GLCDPictureLoop, firstPage, nextPage, lastPage,
       NoPicture, Others, PassEnds, PowerFails, Next, GLCDTask

\* ImplementsTask: with the page loop inside, GLCDPictureLoop does what GLCDTask
\* of GlcdSpec does in one step (glcd.ino:145-178).
THEOREM ImplementsTask == PictureSpec => Spec
<1>1. PictureInit => Init
  BY DEF PictureInit
<1> QED
  BY <1>1, StepOfTask, PTL DEF PictureSpec, Spec

\* PagedNoFreeBeer: a picture of any number of pages, cut off anywhere, gives no
\* beer away (glcd.ino:162-173).
THEOREM PagedNoFreeBeer == PictureSpec => []NoFreeBeer
BY ImplementsTask, NoFreeBeerAlways, PTL

-----------------------------------------------------------------------------
(* The glass.                                                              *)

U8gType == [page_y0 : Nat, page_y1 : Nat, page : Nat,
            current_page : [y0 : Nat, y1 : Nat], buf : PageBits]

LoopTypeOK ==
  /\ inLoop \in BOOLEAN
  /\ glass \in [Pages -> PageBits]
  /\ u8g \in U8gType

\* Inside the loop the pages before the one that is open are as they should be,
\* and nobody changes what is to be drawn.
LoopInv ==
  inLoop => /\ pc = "GLCDTask" /\ ToDraw
            /\ OnPage(u8g) /\ u8g.buf = {}
            /\ \A k \in Pages : k < u8g.page => glass[k] = Picture(Boxes(BeingDrawn))[k]

GlassIInv == LoopTypeOK /\ LoopInv /\ GlassShowsLcd

LEMMA BoxesDrawn == TypeOK => \A b \in Boxes(BeingDrawn) : Fits(b)
<1> SUFFICES ASSUME TypeOK PROVE \A b \in Boxes(BeingDrawn) : Fits(b)
  OBVIOUS
<1>1. BeingDrawn.screen \in Screens /\ BeingDrawn.text \in [StatusLines -> StatusTexts]
  BY DEF TypeOK, GlcdTypeOK, DispType, BeingDrawn, BlankLcd, DispScreenUpdate, Screens,
         StatusTexts
<1> QED
  BY <1>1, BoxesFit

\* A page drawn: only the buffer has changed, and holds the page of the picture.
LEMMA PageIsDrawn ==
  ASSUME TypeOK, LoopTypeOK, LoopInv, inLoop
  PROVE  /\ PageDrawn = [u8g EXCEPT !.buf = Picture(Boxes(BeingDrawn))[u8g.page]]
         /\ u8g.page \in Pages
         /\ Picture(Boxes(BeingDrawn)) \in [Pages -> PageBits]
<1>1. OnPage(u8g) /\ u8g.buf = {}
  BY DEF LoopInv
<1>2. u8g.buf \cup UNION {DrawBox(u8g, b) : b \in Boxes(BeingDrawn)}
        = Picture(Boxes(BeingDrawn))[u8g.page]
  BY <1>1, BoxesDrawn, DrawIsPicture
<1>3. Picture(Boxes(BeingDrawn)) \in [Pages -> PageBits]
  BY BoxesDrawn, PictureType
<1> QED
  BY <1>1, <1>2, <1>3 DEF PageDrawn, Draw, OnPage

LEMMA FirstPageOpens ==
  /\ OnPage(FirstPage) /\ FirstPage.buf = {} /\ FirstPage.page = 0
  /\ FirstPage \in U8gType
<1>1. 0 \in Pages
  BY SizeAssumption DEF Pages, PAGE_HEIGHT
<1> QED
  BY <1>1, SizeAssumption DEF FirstPage, Opened, OnPage, PAGE_HEIGHT, PageBits, U8gType

\* The page after u's, if there is one.
LEMMA NextPageOpens ==
  ASSUME NEW u \in U8gType,
         OnPage(u), ~NoMorePages(u)
  PROVE  /\ OnPage(NextPage(u)) /\ NextPage(u).buf = {}
         /\ NextPage(u).page = u.page + 1
         /\ NextPage(u) \in U8gType
<1> DEFINE y0 == u.page_y0 + 8
           y1 == IF u.page_y1 + 8 >= HEIGHT THEN HEIGHT - 1 ELSE u.page_y1 + 8
<1>1. /\ u.page \in Nat /\ u.page_y0 = 8 * u.page
      /\ u.page_y1 = IF u.page_y0 + 8 <= HEIGHT THEN u.page_y0 + 7 ELSE HEIGHT - 1
  BY SizeAssumption DEF OnPage, Pages, PAGE_HEIGHT
<1>2. u.page_y0 < HEIGHT /\ u.page_y1 < HEIGHT
  BY <1>1, SizeAssumption DEF OnPage, Pages, PAGE_HEIGHT
<1>3. /\ Wrap(u.page_y0 + PAGE_HEIGHT) = y0
      /\ Wrap(u.page_y1 + PAGE_HEIGHT) = u.page_y1 + 8
      /\ y0 < HEIGHT
  BY <1>1, <1>2, SizeAssumption DEF Wrap, NoMorePages, PAGE_HEIGHT
<1>4. NextPage(u) = Opened(u.page + 1, y0, y1)
  BY <1>3 DEF NextPage
<1>5. u.page + 1 \in Pages
  BY <1>1, <1>3, SizeAssumption DEF Pages, PAGE_HEIGHT
<1>6. y0 \in Nat /\ y1 \in Nat /\ y0 = 8 * (u.page + 1)
  BY <1>1, SizeAssumption
<1>7. y1 = IF y0 + 8 <= HEIGHT THEN y0 + 7 ELSE HEIGHT - 1
  BY <1>1, <1>3, SizeAssumption
<1> QED
  BY <1>4, <1>5, <1>6, <1>7, <1>1 DEF Opened, OnPage, PAGE_HEIGHT, PageBits, U8gType

\* At the end of the loop the page is the last one.
LEMMA LastPageIsLast ==
  ASSUME NEW u, OnPage(u), NoMorePages(u), NEW k \in Pages
  PROVE  k < u.page \/ k = u.page
<1>1. u.page \in Nat /\ u.page_y0 = 8 * u.page /\ u.page_y0 < HEIGHT
  BY SizeAssumption DEF OnPage, Pages, PAGE_HEIGHT
<1>2. Wrap(u.page_y0 + 8) = u.page_y0 + 8
  BY <1>1, SizeAssumption DEF Wrap, PAGE_HEIGHT
<1>3. u.page_y0 + 8 >= HEIGHT
  BY <1>2 DEF NoMorePages, PAGE_HEIGHT
<1> QED
  BY <1>1, <1>3, SizeAssumption DEF Pages, PAGE_HEIGHT

\* The invariant is inductive.
LEMMA PageLoopInductive == TypeOK /\ GlassIInv /\ [PictureNext]_pictureVars => GlassIInv'
<1> SUFFICES ASSUME TypeOK, GlassIInv, [PictureNext]_pictureVars PROVE GlassIInv'
  OBVIOUS
<1> USE DEF GlassIInv
<1>1. CASE firstPage
  <2>1. LoopTypeOK'
    BY <1>1, FirstPageOpens DEF firstPage, LoopTypeOK
  <2>2. u8g'.page = 0 /\ OnPage(u8g') /\ u8g'.buf = {} /\ inLoop'
    BY <1>1, FirstPageOpens DEF firstPage
  <2>3. LoopInv'
    BY <1>1, <2>2, SizeAssumption DEF firstPage, LoopInv, vars, glcdVars, ToDraw, NeedsRedraw,
       OnPage, Pages
  <2> QED
    BY <2>1, <2>2, <2>3 DEF GlassShowsLcd
<1>2. CASE nextPage
  <2> DEFINE k == u8g.page
             P == Picture(Boxes(BeingDrawn))
  <2>1. /\ PageDrawn = [u8g EXCEPT !.buf = P[k]]
        /\ k \in Pages /\ P \in [Pages -> PageBits] /\ OnPage(u8g)
    BY <1>2, PageIsDrawn DEF nextPage, LoopInv
  <2>2. PageDrawn \in U8gType /\ PageDrawn.page = k /\ PageDrawn.buf = P[k] /\ OnPage(PageDrawn)
    BY <2>1 DEF LoopTypeOK, U8gType, OnPage
  <2>3. /\ u8g' \in U8gType /\ OnPage(u8g') /\ u8g'.buf = {} /\ u8g'.page = k + 1
    BY <1>2, <2>2, NextPageOpens DEF nextPage
  <2>4. glass' = [glass EXCEPT ![k] = P[k]]
    BY <1>2, <2>2 DEF nextPage, WriteBuffer
  <2>5. LoopTypeOK'
    BY <1>2, <2>1, <2>3, <2>4 DEF nextPage, LoopTypeOK
  <2>6. BeingDrawn' = BeingDrawn /\ pc' = pc /\ ToDraw' = ToDraw /\ inLoop /\ inLoop'
    BY <1>2 DEF nextPage, vars, glcdVars, BeingDrawn, ToDraw, NeedsRedraw
  <2>7. \A n \in Pages : n < k + 1 => glass'[n] = P[n]
    <3> SUFFICES ASSUME NEW n \in Pages, n < k + 1 PROVE glass'[n] = P[n]
      OBVIOUS
    <3>1. n < k \/ n = k
      BY <2>1, SizeAssumption DEF Pages, PAGE_HEIGHT
    <3> QED
      BY <3>1, <2>1, <2>4, <2>6 DEF LoopInv, LoopTypeOK
  <2>8. LoopInv'
    BY <2>3, <2>6, <2>7 DEF LoopInv
  <2> QED
    BY <2>5, <2>6, <2>8 DEF GlassShowsLcd
<1>3. CASE lastPage
  <2> DEFINE k == u8g.page
             P == Picture(Boxes(BeingDrawn))
  <2>1. /\ PageDrawn = [u8g EXCEPT !.buf = P[k]]
        /\ k \in Pages /\ P \in [Pages -> PageBits] /\ OnPage(u8g) /\ ToDraw /\ inLoop
    BY <1>3, PageIsDrawn DEF lastPage, LoopInv
  <2>2. PageDrawn \in U8gType /\ PageDrawn.page = k /\ PageDrawn.buf = P[k]
        /\ OnPage(PageDrawn)
    BY <2>1 DEF LoopTypeOK, U8gType, OnPage
  <2>3. glass' = [glass EXCEPT ![k] = P[k]]
    BY <1>3, <2>2 DEF lastPage, WriteBuffer
  <2>4. LoopTypeOK'
    <3>1. u8g' \in U8gType
      BY <1>3, <2>2, SizeAssumption DEF lastPage, PageEnd, U8gType, Wrap, PAGE_HEIGHT
    <3> QED
      BY <1>3, <3>1, <2>1, <2>3 DEF lastPage, LoopTypeOK
  <2>5. \A n \in Pages : n < k \/ n = k
    BY <1>3, <2>2, LastPageIsLast DEF lastPage
  <2>6. glass' = P
    BY <2>1, <2>3, <2>5 DEF LoopInv, LoopTypeOK
  <2>7. lcd' = BeingDrawn
    BY <1>3, <2>1 DEF lastPage, GLCDTask, ShowSplash, Redraw, vendBeer, NothingToDraw,
       ToDraw, BeingDrawn
  <2> QED
    BY <1>3, <2>4, <2>6, <2>7 DEF lastPage, LoopInv, GlassShowsLcd
<1>4. CASE NoPicture
  BY <1>4 DEF NoPicture, NothingToDraw, u8gVars, glcdVars, LoopTypeOK, LoopInv, GlassShowsLcd
<1>5. CASE Others
  BY <1>5 DEF Others, Approve, NotifyError, UpdateStatus, u8gVars, LoopTypeOK, LoopInv,
     GlassShowsLcd
<1>6. CASE PassEnds
  BY <1>6 DEF PassEnds, EndOfPass, u8gVars, glcdVars, LoopTypeOK, LoopInv, GlassShowsLcd
<1>7. CASE PowerFails
  <2>1. Begin \in U8gType
    BY DEF Begin, U8gType, PageBits
  <2>2. lcd'.screen = "blank"
    BY <1>7 DEF PowerFails, PowerCut, GlcdPowerOn, BlankLcd
  <2> QED
    BY <1>7, <2>1, <2>2, ResidueAssumption DEF PowerFails, LoopTypeOK, LoopInv, GlassShowsLcd
<1>8. CASE UNCHANGED pictureVars
  BY <1>8 DEF pictureVars, vars, glcdVars, u8gVars, LoopTypeOK, LoopInv, GlassShowsLcd,
     BeingDrawn, ToDraw, NeedsRedraw
<1> QED
  BY <1>1, <1>2, <1>3, <1>4, <1>5, <1>6, <1>7, <1>8 DEF PictureNext, GLCDPictureLoop

\* GlassShowsLcdAlways: whenever no picture is being drawn the glass shows the
\* picture and nothing else, for every size of the screen, every font, icon and
\* position, and wherever the power was cut before (u8g_clip.c:98-154,
\* u8g_page.c:53-78).
THEOREM GlassShowsLcdAlways == PictureSpec => []GlassShowsLcd
<1>1. PictureInit => GlassIInv
  <2> SUFFICES ASSUME PictureInit PROVE GlassIInv
    OBVIOUS
  <2>1. ~inLoop /\ lcd.screen = "blank" /\ glass \in Residue /\ u8g = Begin
    BY DEF PictureInit, Init, GlcdInit, BlankLcd
  <2>2. Begin \in U8gType /\ inLoop \in BOOLEAN
    BY DEF PictureInit, Begin, U8gType, PageBits
  <2> QED
    BY <2>1, <2>2, ResidueAssumption DEF GlassIInv, LoopTypeOK, LoopInv, GlassShowsLcd
<1>2. GlassIInv => GlassShowsLcd
  BY DEF GlassIInv
<1> QED
  BY <1>1, <1>2, PageLoopInductive, ImplementsTask, GlcdTyped, PTL DEF PictureSpec
=============================================================================
