---------------------------- MODULE MCRegionPass ----------------------------
(***************************************************************************)
(* Small images for RegionPass.  minsize is 6, the smallest value the code *)
(* allows (minlen2 >= 3).                                                  *)
(***************************************************************************)
EXTENDS RegionPass

zuKlein  == [px |-> 3, nb |-> 2]     \* one short of minsize
winzig   == [px |-> 1, nb |-> 0]
gerade   == [px |-> 4, nb |-> 2]     \* exactly minsize
gross    == [px |-> 9, nb |-> 6]

B(l0, l1) == [minsize |-> 6,
              regionen |-> [p \in Teile |-> IF p = 0 THEN l0 ELSE l1]]

\* layers that start, end and consist of rejected regions, whose halves are
\* empty, and that need one, two or three records
MCBilder == {B(l0, l1) :
               l0 \in {<<>>, <<zuKlein, gerade>>, <<gross, zuKlein, gerade, winzig>>},
               l1 \in {<<>>, <<zuKlein>>, <<gerade, zuKlein>>, <<gerade, zuKlein, gross>>}}
=============================================================================
