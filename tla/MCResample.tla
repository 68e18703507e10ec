----------------------------- MODULE MCResample -----------------------------
(***************************************************************************)
(* Two pictures with a result: a photo whose corrected corners form a      *)
(* trapezium, large enough to be cut, shown at a broken zoom; and one of   *)
(* few pixels, with two pixels of the photo to one of the analysis.        *)
(***************************************************************************)
EXTENDS Resample

Ecken(a, b, c, d) == [k \in 0 .. 3 |-> <<a, b, c, d>>[k + 1]]

MCBilder ==
  {[xg |-> 9, yg |-> 10, mf |-> 1, zoom |-> <<5, 2>>, mitte |-> <<9, 10>>,
    P |-> Ecken(<<3, 0>>, <<17, 0>>, <<18, 20>>, <<0, 20>>)],
   [xg |-> 3, yg |-> 4, mf |-> 2, zoom |-> <<7, 1>>, mitte |-> <<3, 4>>,
    P |-> Ecken(<<0, 0>>, <<6, 0>>, <<6, 8>>, <<0, 8>>)]}

MCPunkte == {<<0, 4>>, <<13, 23>>, <<21, 5>>}
MCDehnungen == {7}

(* A 16-bit TIFF alone; all formats from a 16-bit photo; the clipboard.    *)
MCEinstellungen ==
  [b \in MCBilder |->
     IF b.mf = 1
     THEN {[tiff16 |-> TRUE, kubik |-> TRUE, schaerfen |-> FALSE, formate |-> {"tif"}]}
     ELSE {[tiff16 |-> TRUE, kubik |-> TRUE, schaerfen |-> TRUE,
            formate |-> {"tif", "bmp", "jpg"}],
           [tiff16 |-> FALSE, kubik |-> FALSE, schaerfen |-> TRUE, formate |-> {"clip"}]}]
=============================================================================
