---------------------------- MODULE MCFloodFill ----------------------------
(***************************************************************************)
(* All images with two colours (background and one direction) on 3x3       *)
(* pixels, and a sample with two directions, for both neighbourhoods and   *)
(* two sizes.  calc_row never colours the last row and the last column of  *)
(* a layer, so the images are 4x4.                                         *)
(***************************************************************************)
EXTENDS FloodFill

Innen == (0 .. 2) \X (0 .. 2)
Bild(f) == [q \in (0 .. 3) \X (0 .. 3) |-> IF q \in Innen THEN f[q] ELSE 0]

Zweifarbig == {Bild(f) : f \in [Innen -> {0, 1}]}
\* column 0 and row 2 fixed: two directions meet along every border
Dreifarbig == {Bild([q \in Innen |-> IF q \in DOMAIN f THEN f[q] ELSE 1 + 2 * (q[1] % 2)]) :
                 f \in [((0 .. 2) \X (0 .. 1)) \ {<<0, 0>>} -> {0, 1, 3}]}

\* 6 rejects single pixels, 9 rejects pairs as well
Faelle6(bilder) == [farben : bilder, nachbar : {0, 1}, minsize : {6}]
Faelle9(bilder) == [farben : bilder, nachbar : {0, 1}, minsize : {9}]
MCFaelle == Faelle6(Zweifarbig) \cup Faelle9(Dreifarbig)
=============================================================================
