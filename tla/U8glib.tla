------------------------------- MODULE U8glib -------------------------------
(***************************************************************************)
(* The page loop of U8glib as the display of BeerBot uses it: a picture is *)
(* drawn once for every page of eight rows, into a buffer of one page that *)
(* is sent to the glass before the next page begins                        *)
(* (u8g_ll_api.c, u8g_page.c, u8g_pb.c, u8g_pb8v1.c, u8g_clip.c).          *)
(*                                                                         *)
(* Positions are of type u8g_uint_t: they wrap around at Limit, so that a  *)
(* box may begin above the upper edge and end inside.  Pixels are only set *)
(* (colour 1), and from left to right (dir 0).  A pixel is a pair of its   *)
(* column and its row; of the screen, a page is the set of those that are  *)
(* on, with rows counted from the top of the page.                         *)
(***************************************************************************)
EXTENDS Integers, Sequences

CONSTANTS Limit,   \* 256: u8g_uint_t is uint8_t without U8G_16BIT
          WIDTH, HEIGHT

PAGE_HEIGHT == 8

\* page_y0 must be able to pass HEIGHT.
ASSUME SizeAssumption ==
  /\ {Limit, WIDTH, HEIGHT} \subseteq Nat \ {0}
  /\ WIDTH <= Limit /\ PAGE_HEIGHT <= HEIGHT /\ HEIGHT + PAGE_HEIGHT <= Limit

VARIABLES u8g,     \* page counter, buffer and copy of the page's box
          glass    \* external: the pages of the controller's memory

u8gVars == <<u8g, glass>>

Coordinate == 0 .. Limit - 1
Pages      == 0 .. (HEIGHT - 1) \div PAGE_HEIGHT
PageBits   == SUBSET ((0 .. WIDTH - 1) \X (0 .. PAGE_HEIGHT - 1))

\* A sum or a difference in a variable of type u8g_uint_t.
Wrap(n) == IF n < 0 THEN n + Limit ELSE IF n >= Limit THEN n - Limit ELSE n

-----------------------------------------------------------------------------
(* Pages.                                                                  *)

\* The static initialisation of the device, and u8g_UpdateDimension.
Begin == [page_y0 |-> 0, page_y1 |-> 0, page |-> 0,
          current_page |-> [y0 |-> 0, y1 |-> 0], buf |-> {}]

\* A page is open: the buffer is clear, and the library has asked for its box.
Opened(page, y0, y1) ==
  [page_y0 |-> y0, page_y1 |-> y1, page |-> page,
   current_page |-> [y0 |-> y0, y1 |-> y1], buf |-> {}]

FirstPage == Opened(0, 0, PAGE_HEIGHT - 1)

\* u8g_page_Next returns 0; page_y0 has moved on all the same.
NoMorePages(u) == Wrap(u.page_y0 + PAGE_HEIGHT) >= HEIGHT
PageEnd(u)     == [u EXCEPT !.page_y0 = Wrap(@ + PAGE_HEIGHT)]

NextPage(u) ==
  LET y1 == Wrap(u.page_y1 + PAGE_HEIGHT)
  IN  Opened(u.page + 1, Wrap(u.page_y0 + PAGE_HEIGHT),
             IF y1 >= HEIGHT THEN HEIGHT - 1 ELSE y1)

\* The bytes of the buffer go to the page that the controller was told.
WriteBuffer(u, g) == [g EXCEPT ![u.page] = u.buf]

-----------------------------------------------------------------------------
(* Clipping.  a0 <= a1 is an interval, v0 to v1 one that may wrap around.  *)

\* Mutant: v0 > v1 is not considered.
IsIntersectionFlat(a0, a1, v0, v1) == v0 <= a1 /\ v1 >= a0

IsIntersection(a0, a1, v0, v1) ==
  \/ v0 <= a1 /\ v1 >= a0
  \/ v0 <= a1 /\ v0 > v1
  \/ v1 >= a0 /\ v0 > v1

IsBBXIntersection(u, b) ==
  /\ IsIntersection(u.current_page.y0, u.current_page.y1, b.y, Wrap(b.y + b.h - 1))
  /\ IsIntersection(0, WIDTH - 1, b.x, Wrap(b.x + b.w - 1))

\* A byte is looked at only when its row is in the page; then each of its pixels.
Is8PixelVisible(u, p) == IsIntersection(u.page_y0, u.page_y1, p[2], p[2])
Inside(u, p)          == u.page_y0 <= p[2] /\ p[2] <= u.page_y1 /\ p[1] < WIDTH
SetPixel(u, p)        == <<p[1], (p[2] - u.page_y0) % 8>>

-----------------------------------------------------------------------------
(* Drawing.  bits are the pixels of a box, counted from its upper left     *)
(* corner.                                                                 *)

Box(x, y, w, h, bits) ==
  [x |-> x, y |-> y, w |-> w, h |-> h,
   pixels |-> {<<Wrap(x + b[1]), Wrap(y + b[2])>> : b \in bits}]

DrawBox(u, box) ==
  IF IsBBXIntersection(u, box)
  THEN {SetPixel(u, p) : p \in {q \in box.pixels : Is8PixelVisible(u, q) /\ Inside(u, q)}}
  ELSE {}

\* u8g_DrawBitmap, with cnt bytes in a row.
Bitmap(x, y, cnt, h, bits) == Box(x, y, 8 * cnt, h, bits)

\* u8g_draw_glyph: y is the base line, glyph_y the lower edge above it.
Glyph(x, y, g) ==
  Box(Wrap(x + g.glyph_x), Wrap(Wrap(Wrap(y - g.glyph_y) - 1) - g.h + 1), g.w, g.h, g.bits)

\* u8g_DrawStr: the glyphs of a string one behind the other.
Str(x, y, glyphs) ==
  LET at[i \in 1 .. Len(glyphs) + 1] ==
        IF i = 1 THEN x ELSE Wrap(at[i - 1] + glyphs[i - 1].glyph_dx)
  IN  {Glyph(at[i], y, glyphs[i]) : i \in DOMAIN glyphs}

\* A box as a font or a bitmap makes it: its pixels lie in it, and it is not
\* larger than what u8g_uint_t can count.
Fits(b) ==
  /\ b.x \in Coordinate /\ b.y \in Coordinate
  /\ b.w \in 0 .. Limit /\ b.h \in 0 .. Limit
  /\ b.pixels \subseteq {<<Wrap(b.x + i), Wrap(b.y + j)>> :
                           i \in 0 .. b.w - 1, j \in 0 .. b.h - 1}

\* The picture is drawn: each box in turn adds its pixels.
Draw(u, boxes) == [u EXCEPT !.buf = @ \cup UNION {DrawBox(u, b) : b \in boxes}]

-----------------------------------------------------------------------------
(* Reference: what the pages should hold for some boxes to be seen.        *)

Picture(boxes) ==
  [page \in Pages |->
     {<<p[1], p[2] % PAGE_HEIGHT>> :
        p \in {q \in UNION {b.pixels : b \in boxes} :
                 q[1] < WIDTH /\ q[2] < HEIGHT /\ q[2] \div PAGE_HEIGHT = page}}]
=============================================================================
