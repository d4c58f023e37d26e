--------------------------- MODULE MCTextConsole ----------------------------
(* Fonts, screens and characters for model checking TextConsole.           *)
EXTENDS TextConsole

(* Two latin characters; one of them and a wide one.                       *)
Latin  == {1, 2}
MCWide == {3}
Mixed  == {1, 3}

(* The table as FONT_HEIGHT expects it.                                    *)
MCFonts == [b \in 0 .. 8 * FONT_HEIGHT |-> <<b \div FONT_HEIGHT, b % FONT_HEIGHT>>]

(* The table of data/fonts.hpp: 20 bytes for characters 0 to 31, but one   *)
(* byte for 13 and for each of 32 to 126, whose other rows are commented   *)
(* out, and 20 for 127.                                                    *)
MCFontsHpp == [b \in 0 .. 735 |->
    IF b < 260 THEN <<b \div 20, b % 20>>
    ELSE IF b = 260 THEN <<13, 0>>
    ELSE IF b < 621 THEN <<14 + (b - 261) \div 20, (b - 261) % 20>>
    ELSE IF b < 716 THEN <<32 + b - 621, 0>>
    ELSE <<127, b - 716>>]

Sized(w, h, chars, cs, preempted) ==
    [width |-> w, height |-> h, written |-> chars, cursors |-> cs, preemptible |-> preempted]

(* A whole number of lines; partial last line and column, and a program    *)
(* that only writes; one that keyboard_handler interrupts.  The letter A.  *)
Home      == {<<0, 0>>, <<1, 1>>}
MCScreens == {Sized(4, 4, Latin, Home, FALSE), Sized(5, 5, Latin, {}, FALSE),
              Sized(4, 3, Mixed, Home, TRUE)}
MCScreenA == {Sized(2, 201, {65}, {}, FALSE)}
==============================================================================
