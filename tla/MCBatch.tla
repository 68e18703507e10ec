------------------------------- MODULE MCBatch -------------------------------
(***************************************************************************)
(* Six files of one folder: "a.jpg", "a.tif", "a.jb.jpg", "a_S.jpg" and,   *)
(* without an extension, "b" and "c".  '.' is 1, '_' 2, 'S' 3 and 'j' 7;   *)
(* of "jpg" only the first and the last letter are told apart.             *)
(***************************************************************************)
EXTENDS Batch

F(s, a) == [ordner |-> "quelle", stamm |-> s, art |-> a]
MCFotos == {F(<<4>>, "jpg"), F(<<4>>, "tif"), F(<<4, 1, 7, 5>>, "jpg"),
            F(<<4, 2, 3>>, "jpg"), F(<<5>>, "ohne"), F(<<6>>, "ohne")}
MCEndung == [jpg |-> <<7, 9>>, tif |-> <<10, 6>>, bmp |-> <<5, 8>>]
MCTmp == <<2, 10>>
MCFormate == {{"jpg"}, {"tif", "jpg"}, {"bmp"}}
MCSuffixe == {<<>>, <<2, 3>>}
=============================================================================
