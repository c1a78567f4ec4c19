------------------------------ MODULE MCPicture ------------------------------
(* A screen of three pages, the last of four rows; an icon that ends below it, *)
(* lines that begin above it or end to the right of it.                        *)
EXTENDS PictureSpec

Char(w, h, bits) == [glyph_x |-> 0, glyph_y |-> -1, glyph_dx |-> w, w |-> w, h |-> h,
                     bits |-> bits]
Thin == Char(1, 3, {<<0, 0>>, <<0, 2>>})
Dot  == Char(2, 2, {<<1, 1>>})

MCIcon ==
  [s \in DispStates |->
     [cnt |-> 1, h |-> 21,
      bits |-> {<<CASE s = "DispError" -> 0 [] s = "DispReady" -> 1 [] OTHER -> 2, y>>
                  : y \in {0, 7, 20}}]]

String(x, y, glyphs) == [x |-> x, y |-> y, glyphs |-> glyphs]

MCCaptions ==
  [s \in Screens |->
     CASE s = "splash" -> {String(0, 9, <<Thin, Thin>>)}
       [] s = "DispVending" -> {String(1, 17, <<Dot>>)}
       [] OTHER -> {}]

Row  == [GSM |-> 0, WiFi |-> 8, NET |-> 16, COSM |-> 20]
Word == [unset |-> <<>>, NOK |-> <<Dot, Thin>>, OK |-> <<Thin>>, NO_SIM |-> <<Dot, Dot>>]
MCStatusLine ==
  [s \in StatusScreens |->
     [l \in StatusLines |->
        [t \in StatusTexts |->
           String(3, IF s = "DispConnecting" THEN Row[l] ELSE Row[l] + 1, Word[t])]]]

MCResidue == {[page \in Pages |-> {<<1, 0>>, <<5, 7>>}]}
=============================================================================
