----------------------------- MODULE MCJpegRows -----------------------------
(***************************************************************************)
(* Photos at the smallest size that is read, higher and wider than high,   *)
(* one too small, one too large and one so large that its size wraps and   *)
(* is accepted; all orientations, also unknown ones.                       *)
(***************************************************************************)
EXTENDS JpegRows

MCGroessen == {<<4, 4>>, <<4, 6>>, <<7, 5>>, <<3, 5>>, <<7, 7>>, <<12, 12>>}
=============================================================================
